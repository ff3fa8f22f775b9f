--------------------------- MODULE SistemaPruebas ---------------------------
(***************************************************************************)
(* Theorems of Sistema, for any ESIs, instances and finite set of keys.    *)
(* Tipos is the inductive strengthening of TypeOK: a step appends to the   *)
(* lists of the running ESI, which must be one, and a thread that comes    *)
(* back from a semaphore uses the statement it waited with.  The lemmas    *)
(* Tipos... prove that the steps of each thread or process preserve it,    *)
(* one action at a time.  ExclusionClaves and VacioSoloDePaso are          *)
(* inductive relative to Tipos; both rest on TomadasCrecenConGET.          *)
(***************************************************************************)
EXTENDS PropiedadesSistema, Minimos, SequenceTheorems, FiniteSetTheorems

-----------------------------------------------------------------------------
(* Sequences *)

(* list_remove_by_condition: RemoveFirst takes out one element that is e,   *)
(* or nothing when there is none.                                           *)
LEMMA RemoveFirstQuita ==
  ASSUME NEW S, NEW s \in Seq(S), NEW e
  PROVE  \/ /\ \A i \in 1..Len(s) : s[i] # e
            /\ RemoveFirst(s, e) = s
         \/ \E m \in 1..Len(s) :
              /\ s[m] = e
              /\ RemoveFirst(s, e) = SubSeq(s, 1, m - 1) \o SubSeq(s, m + 1, Len(s))
<1> DEFINE I == {i \in 1..Len(s) : s[i] = e}
<1>1. CASE I = {}
  BY <1>1 DEF RemoveFirst
<1>2. CASE I # {}
  <2>1. PICK x \in I : \A y \in I : x <= y
    <3>1. I \in SUBSET Nat
      OBVIOUS
    <3>2. QED
      BY <1>2, <3>1, MinimoNat
  <2>2. Min(I) \in I
    BY <2>1 DEF Min
  <2>3. RemoveFirst(s, e) = RemoveAt(s, Min(I))
    <3>1. SelectInSeq(s, LAMBDA v : v = e) = Min(I)
      BY <1>2, Zenon DEF SelectInSeq
    <3>2. QED
      BY <1>2, <3>1, Zenon DEF RemoveFirst
  <2> DEFINE m == Min(I)
  <2> HIDE DEF m
  <2>4. m \in 1..Len(s) /\ s[m] = e
    BY <2>2 DEF m
  <2>5. RemoveFirst(s, e) = SubSeq(s, 1, m - 1) \o SubSeq(s, m + 1, Len(s))
    BY <2>3, Zenon DEF RemoveAt, m
  <2>6. QED
    BY <2>4, <2>5
<1>3. QED
  BY <1>1, <1>2

(* What is left is a sequence of the same type.                             *)
LEMMA RemoveFirstTipo ==
  ASSUME NEW S, NEW s \in Seq(S), NEW e
  PROVE  RemoveFirst(s, e) \in Seq(S)
<1>1. CASE RemoveFirst(s, e) = s
  BY <1>1
<1>2. ASSUME NEW m \in 1..Len(s),
             RemoveFirst(s, e) = SubSeq(s, 1, m - 1) \o SubSeq(s, m + 1, Len(s))
      PROVE  RemoveFirst(s, e) \in Seq(S)
  <2>1. SubSeq(s, 1, m - 1) \in Seq(S)
    BY <1>2, SubSeqProperties
  <2>2. SubSeq(s, m + 1, Len(s)) \in Seq(S)
    BY <1>2, SubSeqProperties
  <2>3. QED
    BY <1>2, <2>1, <2>2, ConcatProperties
<1>3. QED
  BY <1>1, <1>2, RemoveFirstQuita

(* buscarInstancia gives the first of the list that is in S.                *)
LEMMA PrimeraDeAlguna ==
  ASSUME NEW T, NEW lista \in Seq(T), NEW S, PosicionesDe(lista, S) # {}
  PROVE  PrimeraDe(lista, S) \in T \cap S
<1> DEFINE ps == PosicionesDe(lista, S)
           p == CHOOSE z \in ps : \A y \in ps : z <= y
<1>1. PICK x \in ps : \A y \in ps : x <= y
  <2>1. ps \in SUBSET Nat
    BY DEF PosicionesDe
  <2>2. QED
    BY <2>1, MinimoNat
<1>2. p \in ps
  BY <1>1
<1>3. lista[p] \in T \cap S
  BY <1>2, ElementOfSeq DEF PosicionesDe
<1>4. PrimeraDe(lista, S) = lista[p]
  BY Zenon DEF PrimeraDe
<1>5. QED
  BY <1>3, <1>4

(* So does the loop of traerUltimaInstanciaUsada, which keeps the last.      *)
LEMMA UltimaDeAlguna ==
  ASSUME NEW T, NEW lista \in Seq(T), NEW S, PosicionesDe(lista, S) # {}
  PROVE  UltimaDe(lista, S) \in T \cap S
<1> DEFINE ps == PosicionesDe(lista, S)
           desdeElFin == {Len(lista) - p : p \in ps}
           ultima == CHOOSE z \in ps : \A y \in ps : z >= y
<1>1. PICK d \in desdeElFin : \A y \in desdeElFin : d <= y
  <2>1. desdeElFin \in SUBSET Nat /\ desdeElFin # {}
    BY DEF PosicionesDe
  <2>2. QED
    BY <2>1, MinimoNat
<1>2. PICK x \in ps : d = Len(lista) - x
  OBVIOUS
<1>3. \A y \in ps : x >= y
  <2>1. \A y \in ps : Len(lista) - x <= Len(lista) - y
    BY <1>1, <1>2
  <2>2. ps \subseteq Int /\ Len(lista) \in Int
    BY LenProperties DEF PosicionesDe
  <2> HIDE DEF ps
  <2>3. QED
    BY <2>1, <2>2
<1>4. ultima \in ps
  BY <1>3
<1>5. lista[ultima] \in T \cap S
  BY <1>4, ElementOfSeq DEF PosicionesDe
<1>6. UltimaDe(lista, S) = lista[ultima]
  BY Zenon DEF UltimaDe
<1>7. QED
  BY <1>5, <1>6

(* An element of the list, or NULL.                                          *)
LEMMA PrimeraDeTipo ==
  ASSUME NEW T, NEW lista \in Seq(T), NEW S
  PROVE  PrimeraDe(lista, S) \in T \cup {Nada}
<1>1. CASE PosicionesDe(lista, S) = {}
  BY <1>1, Zenon DEF PrimeraDe
<1>2. QED
  BY <1>1, PrimeraDeAlguna

(* The same of the last one.                                                 *)
LEMMA UltimaDeTipo ==
  ASSUME NEW T, NEW lista \in Seq(T), NEW S
  PROVE  UltimaDe(lista, S) \in T \cup {Nada}
<1>1. CASE PosicionesDe(lista, S) = {}
  BY <1>1, Zenon DEF UltimaDe
<1>2. QED
  BY <1>1, UltimaDeAlguna

(* A packet more, a packet less: the connections keep their type.           *)
LEMMA EnviadoTipo ==
  ASSUME NEW X, NEW M, NEW canal \in [X -> Seq(M)], NEW x, NEW m \in M
  PROVE  Enviado(canal, x, m) \in [X -> Seq(M)]
BY AppendProperties DEF Enviado

(* What the reader takes is a packet of the connection.                      *)
LEMMA RecibidoTipo ==
  ASSUME NEW X, NEW M, NEW canal \in [X -> Seq(M)], NEW x \in X, canal[x] # <<>>
  PROVE  /\ Recibido(canal, x) \in [X -> Seq(M)]
         /\ Head(canal[x]) \in M
BY HeadTailProperties DEF Recibido

(* Several packets are sent in a row.                                        *)
LEMMA ContestadoTipo ==
  ASSUME NEW X, NEW M, NEW canal \in [X -> Seq(M)], NEW x, NEW ms \in Seq(M)
  PROVE  [canal EXCEPT ![x] = @ \o ms] \in [X -> Seq(M)]
BY ConcatProperties

-----------------------------------------------------------------------------
(* Type correctness *)

(* There is a running ESI from its election to the end of its turn.         *)
ActualEnCurso ==
  pc \in {"primera", "ciclo", "continua", "salida", "salidaBloq", "cierre"}
    => actual \in ESIs

(* A thread of the coordinator that waits has a SET or a STORE, and an      *)
(* instance when it waits for one.                                          *)
PedidosEnCurso ==
  \A e \in ESIs :
    /\ paso[e] # "libre" => pedido[e] \in [op : {"SET", "STORE"}, clave : Claves]
    /\ paso[e] \in {"enviaSET", "enviaSTORE"} => elegida[e] \in Instancias

Tipos == TypeOK /\ ActualEnCurso /\ PedidosEnCurso

(* The processes start with well-typed tables and nobody waiting.            *)
LEMMA TiposInit == Init => Tipos
<1> SUFFICES ASSUME Init PROVE Tipos
  OBVIOUS
<1>1. CanalesTypeOK
  BY DEF Init, CanalesInit, CanalesTypeOK
<1>2. PlanTypeOK /\ ActualEnCurso
  <2>1. FlagsTypeOK
    BY Zenon DEF Init, PlanInit, FlagsTypeOK
  <2>2. libera \in Liberaciones
    BY Zenon DEF Init, PlanInit, Liberaciones
  <2>3. QED
    BY <2>1, <2>2, BloqueadasAssumption
    DEF Init, PlanInit, PlanTypeOK, ActualEnCurso, PCs, Nombres
<1>3. EsiTypeOK
  BY DEF Init, EsiInit, EsiTypeOK
<1>4. CoordTypeOK /\ PedidosEnCurso
  <2>1. respuesta \in BOOLEAN /\ coordCaido \in BOOLEAN
    BY Zenon DEF Init, CoordInit
  <2>2. disponible \in [Instancias -> BOOLEAN]
    BY SMT DEF Init, CoordInit
  <2>3. QED
    BY <2>1, <2>2, TablaInicialAssumption
    DEF Init, CoordInit, CoordTypeOK, PedidosEnCurso, PasosEsi, PasosInst,
        SinPedido, SinTrabajo, Sin
<1>5. InstTypeOK
  <2>1. Range(TablaInicial) \subseteq Instancias
    BY TablaInicialAssumption, ElementOfSeq DEF Range
  <2>2. QED
    BY <2>1, MaxFragmentacionesAssumption DEF Init, InstInit, InstTypeOK
<1>6. QED
  BY <1>1, <1>2, <1>3, <1>4, <1>5 DEF Tipos, TypeOK

(* hiloAlgoritmos *)
LEMMA TiposAlgoritmos == ASSUME Tipos, HiloAlgoritmos PROVE Tipos'
<1> USE DEF Tipos, TypeOK, PlanTypeOK, Nombres
<1>1. /\ EsiTypeOK' /\ CoordTypeOK' /\ InstTypeOK' /\ PedidosEnCurso'
  BY DEF HiloAlgoritmos, EsiTypeOK, CoordTypeOK, InstTypeOK, PedidosEnCurso,
         varsEsi, varsCoord, varsInst
<1>2. FlagsTypeOK'
  BY Zenon
  DEF HiloAlgoritmos, PasoAlgoritmos, TomaEntrada, Elige, Pide, EsperaContinua,
      Sale, Bloquea, Despide, Desaloja, DejaBloqueado, Cierra, flags, FlagsTypeOK
<1>3. PlanTypeOK' /\ CanalesTypeOK' /\ ActualEnCurso'
  <2> USE <1>2 DEF ActualEnCurso, PCs, tablas, flags, canales, canalesSinAEsi
  <2>1. CASE TomaEntrada
    BY <2>1 DEF TomaEntrada, CanalesTypeOK
  <2>2. CASE Elige
    BY <2>2 DEF Elige, CanalesTypeOK
  <2>3. CASE Pide
    BY <2>3 DEF Pide, CanalesTypeOK, Enviado, MensajesAEsi
  <2>4. CASE EsperaContinua
    BY <2>4 DEF EsperaContinua, CanalesTypeOK
  <2>5. CASE Sale
    BY <2>5 DEF Sale, CanalesTypeOK
  <2>6. CASE Bloquea
    <3>1. cola' \in [Claves -> Seq(ESIs)] /\ enBloq' \subseteq Claves
      <4>1. CASE claveGET = Nada
        BY <2>6, <4>1 DEF Bloquea
      <4>2. CASE claveGET # Nada
        <5>1. claveGET \in Claves /\ actual \in ESIs
          BY <2>6, <4>2 DEF Bloquea
        <5>2. /\ cola' = [cola EXCEPT ![claveGET] = Append(@, actual)]
              /\ enBloq' = enBloq \cup {claveGET}
          BY <2>6, <4>2, Zenon DEF Bloquea, Encolado
        <5>3. QED
          BY <5>1, <5>2
      <4>3. QED
        BY <4>1, <4>2
    <3>2. CanalesTypeOK'
      BY <2>6 DEF Bloquea, CanalesTypeOK, Enviado, MensajesAEsi
    <3>3. QED
      BY <2>6, <3>1, <3>2 DEF Bloquea
  <2>7. CASE Despide
    BY <2>7 DEF Despide, CanalesTypeOK, Enviado, MensajesAEsi
  <2>8. CASE Desaloja
    BY <2>8 DEF Desaloja, CanalesTypeOK
  <2>9. CASE DejaBloqueado
    BY <2>9 DEF DejaBloqueado, CanalesTypeOK
  <2>10. CASE Cierra
    BY <2>10 DEF Cierra, CanalesTypeOK
  <2>11. QED
    BY <2>1, <2>2, <2>3, <2>4, <2>5, <2>6, <2>7, <2>8, <2>9, <2>10
    DEF HiloAlgoritmos, PasoAlgoritmos
<1>4. QED
  BY <1>1, <1>2, <1>3

(* hiloCoordinador *)
LEMMA TiposCoordinador == ASSUME Tipos, HiloCoordinador PROVE Tipos'
<1> USE DEF Tipos, TypeOK, PlanTypeOK, Nombres
<1>1. /\ EsiTypeOK' /\ CoordTypeOK' /\ InstTypeOK' /\ PedidosEnCurso'
  BY DEF HiloCoordinador, EsiTypeOK, CoordTypeOK, InstTypeOK, PedidosEnCurso,
         varsEsi, varsCoord, varsInst
<1>2. FlagsTypeOK'
  BY Zenon
  DEF HiloCoordinador, PasoCoordinador, RecibeGET, RecibeSET, RecibeSTORE,
      RecibeError, Aborta, DesbloqueaESI, FlagsTypeOK
<1>3. PlanTypeOK' /\ CanalesTypeOK' /\ ActualEnCurso'
  <2> USE <1>2 DEF ActualEnCurso, NombresLeidos
  <2> DEFINE m == Head(coordAPlan)
  <2>0. Enviado(aEsi, actual, "ABORTO_ESI") \in [ESIs -> Seq(MensajesAEsi)]
    <3>1. "ABORTO_ESI" \in MensajesAEsi
      BY DEF MensajesAEsi
    <3>2. QED
      BY <3>1, EnviadoTipo DEF CanalesTypeOK
  <2>1. CASE RecibeGET
    <3>1. coordAPlan # <<>> /\ m.op = "GET"
      BY <2>1 DEF RecibeGET, LlegaOp
    <3>2. m \in MensajesCoordAPlan /\ coordAPlan' \in Seq(MensajesCoordAPlan)
      BY <2>1, <3>1, HeadTailProperties DEF RecibeGET, CanalesTypeOK
    <3>3. m.clave \in Claves
      BY <3>1, <3>2 DEF MensajesCoordAPlan
    <3>4. tomadas' \in [Nombres -> SUBSET Claves] /\ claveGET' \in Claves \cup {Nada}
      BY <2>1, <3>3 DEF RecibeGET
    <3>5. CanalesTypeOK'
      BY <2>1, <3>2 DEF RecibeGET, CanalesTypeOK
    <3>6. QED
      BY <2>1, <3>4, <3>5 DEF RecibeGET
  <2>2. CASE RecibeSET
    <3>1. coordAPlan' \in Seq(MensajesCoordAPlan)
      BY <2>2, HeadTailProperties DEF RecibeSET, LlegaOp, CanalesTypeOK
    <3>2. tomadas' \in [Nombres -> SUBSET Claves]
      BY <2>2 DEF RecibeSET, Aborta, SinClaves
    <3>3. planACoord' \in Seq(MensajesPlanACoord)
      <4>1. \E t \in RespuestasDelPlan : planACoord' = Append(planACoord, Mensaje(t))
        BY <2>2, Zenon DEF RecibeSET, RespuestasDelPlan
      <4>2. \A t \in RespuestasDelPlan : Mensaje(t) \in MensajesPlanACoord
        BY DEF Mensaje, MensajesPlanACoord
      <4>3. QED
        BY <4>1, <4>2, AppendProperties DEF CanalesTypeOK
    <3>4. aEsi' \in [ESIs -> Seq(MensajesAEsi)]
      <4>1. aEsi' = aEsi \/ aEsi' = Enviado(aEsi, actual, "ABORTO_ESI")
        BY <2>2, Zenon DEF RecibeSET, Aborta
      <4>2. QED
        BY <4>1, <2>0 DEF CanalesTypeOK
    <3>5. CanalesTypeOK'
      BY <2>2, <3>1, <3>3, <3>4 DEF RecibeSET, CanalesTypeOK
    <3>6. QED
      BY <2>2, <3>2, <3>5 DEF RecibeSET
  <2>3. CASE RecibeSTORE
    <3>1. coordAPlan' \in Seq(MensajesCoordAPlan)
      BY <2>3, HeadTailProperties DEF RecibeSTORE, LlegaOp, CanalesTypeOK
    <3>2. tomadas' \in [Nombres -> SUBSET Claves]
      <4>1. \E n \in NombresLeidos : \E k : tomadas' \in {ClaveLiberada(n, k), SinClaves(n)}
        BY <2>3, Zenon DEF RecibeSTORE, Aborta
      <4>2. QED
        BY <4>1 DEF SinClaves, ClaveLiberada
    <3>3. planACoord' \in Seq(MensajesPlanACoord)
      <4>1. \E t \in RespuestasDelPlan : planACoord' = Append(planACoord, Mensaje(t))
        BY <2>3, Zenon DEF RecibeSTORE, RespuestasDelPlan
      <4>2. \A t \in RespuestasDelPlan : Mensaje(t) \in MensajesPlanACoord
        BY DEF Mensaje, MensajesPlanACoord
      <4>3. QED
        BY <4>1, <4>2, AppendProperties DEF CanalesTypeOK
    <3>4. aEsi' \in [ESIs -> Seq(MensajesAEsi)]
      <4>1. aEsi' = aEsi \/ aEsi' = Enviado(aEsi, actual, "ABORTO_ESI")
        BY <2>3, Zenon DEF RecibeSTORE, Aborta
      <4>2. QED
        BY <4>1, <2>0 DEF CanalesTypeOK
    <3>5. CanalesTypeOK'
      BY <2>3, <3>1, <3>3, <3>4, Zenon DEF RecibeSTORE, CanalesTypeOK
    <3>6. /\ listos' \subseteq ESIs /\ ESIentrada' \in Nat
          /\ enBloq' \subseteq Claves /\ cola' \in [Claves -> Seq(ESIs)]
      <4> DEFINE k == m.clave
      <4>1. CASE UNCHANGED <<listos, cola, enBloq, ESIentrada, huboModificacion>>
        BY <4>1
      <4>2. CASE k \in enBloq /\ cola[k] # <<>> /\ DesbloqueaESI(k)
        BY <4>2, HeadTailProperties DEF DesbloqueaESI
      <4>3. QED
        BY <2>3, <4>1, <4>2, Zenon DEF RecibeSTORE
    <3>7. continua' \in Nat /\ claveGET' = Nada
      BY <2>3, SMT DEF RecibeSTORE
    <3>8. UNCHANGED <<actual, liberados, libera, pc>>
      BY <2>3, Zenon DEF RecibeSTORE
    <3> HIDE <2>3
    <3>9. QED
      BY <3>2, <3>5, <3>6, <3>7, <3>8
  <2>4. CASE RecibeError
    <3>1. coordAPlan' \in Seq(MensajesCoordAPlan)
      BY <2>4, HeadTailProperties DEF RecibeError, LlegaOp, CanalesTypeOK
    <3>2. tomadas' \in [Nombres -> SUBSET Claves]
      BY <2>4 DEF RecibeError, Aborta, SinClaves
    <3>3. aEsi' \in [ESIs -> Seq(MensajesAEsi)]
      BY <2>4, <2>0 DEF RecibeError, Aborta
    <3>4. CanalesTypeOK'
      BY <2>4, <3>1, <3>3 DEF RecibeError, CanalesTypeOK
    <3>5. QED
      BY <2>4, <3>2, <3>4 DEF RecibeError
  <2>5. QED
    BY <2>1, <2>2, <2>3, <2>4 DEF HiloCoordinador, PasoCoordinador
<1>4. QED
  BY <1>1, <1>2, <1>3

(* liberarESI starts with the ESI among the ready ones, or with the keys it  *)
(* has to visit.                                                             *)
LEMMA LiberaTipo ==
  ASSUME Tipos, NEW e \in ESIs, DesconectaESI(e) \/ LiberaESI(e)
  PROVE  libera' \in Liberaciones
<1> DEFINE enLista == [paso: {"listo", "quita"}, esi: ESIs, quedan: {{}},
                       vacia: {Nada}, hallado: {TRUE}]
           enBusca == [paso: {"bloqueados"}, esi: ESIs, quedan: SUBSET Claves,
                       vacia: Claves \cup {Nada}, hallado: BOOLEAN]
<1>0. libera \in Liberaciones /\ enBloq \subseteq Claves
  BY DEF Tipos, TypeOK, PlanTypeOK
<1>1. Liberaciones = {Ocioso} \cup enLista \cup enBusca
  BY Zenon DEF Liberaciones
<1>2. ASSUME libera.paso # "nada" PROVE libera # Ocioso
  BY <1>2 DEF Ocioso, Liberacion
<1>3. ASSUME libera.paso = "bloqueados" PROVE libera \in enBusca
  <2>1. libera # Ocioso /\ libera \notin enLista
    BY <1>2, <1>3
  <2>2. QED
    BY <1>0, <1>1, <2>1, Zenon
<1>4. CASE DesconectaESI(e)
  <2>1. \/ libera' = libera
        \/ libera' = Liberacion("listo", e, {}, Nada, TRUE)
        \/ \E qs \in SUBSET Claves :
             libera' = Liberacion("bloqueados", e, qs, Nada, FALSE)
    BY <1>4, Zenon DEF DesconectaESI
  <2>2. Liberacion("listo", e, {}, Nada, TRUE) \in enLista
    BY DEF Liberacion
  <2>3. \A qs \in SUBSET Claves : Liberacion("bloqueados", e, qs, Nada, FALSE) \in enBusca
    BY DEF Liberacion
  <2>4. QED
    BY <1>0, <1>1, <2>1, <2>2, <2>3, Zenon
<1>5. CASE LiberaNombre(e)
  <2>1. libera.paso = "listo" /\ libera' \in {libera, [libera EXCEPT !.paso = "quita"]}
    BY <1>5, Zenon DEF LiberaNombre
  <2>2. libera \in enLista
    <3>1. libera # Ocioso /\ libera \notin enBusca
      BY <1>2, <2>1
    <3>2. QED
      BY <1>0, <1>1, <3>1, Zenon
  <2>3. [libera EXCEPT !.paso = "quita"] \in enLista
    BY <2>2
  <2>4. QED
    BY <1>1, <2>1, <2>2, <2>3, Zenon
<1>6. ASSUME NEW k \in Claves, QuitaDeLista(e, k) PROVE libera' \in enBusca
  <2>1. /\ libera.paso = "bloqueados"
        /\ \E v \in {k, Nada}, h \in BOOLEAN :
              \/ libera' = [libera EXCEPT !.quedan = @ \ {k}, !.vacia = v, !.hallado = h]
              \/ libera' = [libera EXCEPT !.quedan = @ \ {k}]
    <3>1. libera.paso = "bloqueados"
      BY <1>6, Zenon DEF QuitaDeLista
    <3> DEFINE v == IF RemoveFirst(cola[k], e) = <<>> THEN k ELSE Nada
               h == libera.hallado \/ e \in Range(cola[k])
    <3>2. \/ libera' = [libera EXCEPT !.quedan = @ \ {k}]
          \/ libera' = [libera EXCEPT !.quedan = @ \ {k}, !.vacia = v,
                                      !.hallado = @ \/ e \in Range(cola[k])]
      BY <1>6, Zenon DEF QuitaDeLista
    <3>3. v \in {k, Nada} /\ h \in BOOLEAN
      OBVIOUS
    <3>4. [libera EXCEPT !.quedan = @ \ {k}, !.vacia = v,
                         !.hallado = @ \/ e \in Range(cola[k])]
            = [libera EXCEPT !.quedan = @ \ {k}, !.vacia = v, !.hallado = h]
      OBVIOUS
    <3> HIDE DEF v, h
    <3>5. QED
      BY <3>1, <3>2, <3>3, <3>4, Zenon
  <2>2. libera \in enBusca
    BY <1>3, <2>1
  <2>3. QED
    BY <2>1, <2>2
<1>7. CASE QuitaClave(e)
  <2>1. libera.paso = "bloqueados" /\ libera' = [libera EXCEPT !.vacia = Nada]
    BY <1>7, Zenon DEF QuitaClave
  <2>2. QED
    BY <1>1, <1>3, <2>1
<1>8. CASE QuitaListo(e) \/ LiberaClaves(e)
  BY <1>0, <1>1, <1>8, Zenon DEF QuitaListo, LiberaClaves
<1>9. QED
  BY <1>1, <1>4, <1>5, <1>6, <1>7, <1>8, Zenon DEF LiberaESI

(* hiloServidor *)
LEMMA TiposServidor ==
  ASSUME Tipos, NEW e \in ESIs, HiloServidor(e) PROVE Tipos'
<1> USE DEF Tipos, TypeOK, PlanTypeOK, Nombres
<1>1. /\ EsiTypeOK' /\ CoordTypeOK' /\ InstTypeOK' /\ PedidosEnCurso'
  BY DEF HiloServidor, EsiTypeOK, CoordTypeOK, InstTypeOK, PedidosEnCurso,
         varsEsi, varsCoord, varsInst
<1>2. FlagsTypeOK'
  BY Zenon
  DEF HiloServidor, PasoServidor, RecibeNombre, RecibeTermino, DesconectaESI,
      LiberaESI, LiberaNombre, QuitaListo, QuitaDeLista, QuitaClave, LiberaClaves,
      sinLiberar, FlagsTypeOK, flags, tablas
<1>3. CanalesTypeOK'
  <2>1. \/ /\ deEsi[e] # <<>> /\ deEsi' = Recibido(deEsi, e)
           /\ UNCHANGED <<aEsi, aCoord, coordAPlan, planACoord, aInst, deInst>>
        \/ UNCHANGED canales
    BY Zenon DEF HiloServidor, PasoServidor, RecibeNombre, RecibeTermino,
                 DesconectaESI, Llega, LiberaESI, LiberaNombre, QuitaListo,
                 QuitaDeLista, QuitaClave, LiberaClaves, sinLiberar
  <2>2. CASE UNCHANGED canales
    BY <2>2 DEF CanalesTypeOK, canales
  <2>3. CASE /\ deEsi[e] # <<>> /\ deEsi' = Recibido(deEsi, e)
             /\ UNCHANGED <<aEsi, aCoord, coordAPlan, planACoord, aInst, deInst>>
    BY <2>3, RecibidoTipo DEF CanalesTypeOK
  <2>4. QED
    BY <2>1, <2>2, <2>3
<1>4. PlanTypeOK' /\ ActualEnCurso'
  <2> USE <1>2 DEF ActualEnCurso, NombresLeidos
  <2>1. CASE RecibeNombre(e)
    BY <2>1 DEF RecibeNombre
  <2>2. CASE RecibeTermino(e)
    BY <2>2 DEF RecibeTermino, tablas
  <2>3. CASE DesconectaESI(e)
    <3>1. tomadas' \in [Nombres -> SUBSET Claves]
      BY <2>3 DEF DesconectaESI, SinClaves
    <3>2. continua' \in Nat
      <4>1. continua' = continua \/ continua' = continua + 1
        BY <2>3, Zenon DEF DesconectaESI
      <4>2. QED
        BY <4>1
    <3>3. UNCHANGED <<listos, enBloq, cola, claveGET, actual, liberados,
                      ESIentrada, pc>>
      BY <2>3, Zenon DEF DesconectaESI
    <3>4. libera' \in Liberaciones
      BY <2>3, LiberaTipo
    <3>5. QED
      BY <3>1, <3>2, <3>3, <3>4
  <2>4. CASE LiberaESI(e)
    <3>1. tomadas' \in [Nombres -> SUBSET Claves]
      <4>1. tomadas' = tomadas \/ \E n \in Nombres : tomadas' = SinClaves(n)
        BY <2>4, Zenon DEF LiberaESI, LiberaNombre, QuitaListo, QuitaDeLista,
                           QuitaClave, LiberaClaves, tablas, Nombres
      <4>2. QED
        BY <4>1 DEF SinClaves
    <3>2. listos' \subseteq ESIs /\ enBloq' \subseteq Claves
      <4>1. listos' \in {listos, listos \ {e}}
        BY <2>4, Zenon DEF LiberaESI, LiberaNombre, QuitaListo, QuitaDeLista,
                           QuitaClave, LiberaClaves, tablas
      <4>2. enBloq' = enBloq \/ \E k : enBloq' = enBloq \ {k}
        BY <2>4, Zenon DEF LiberaESI, LiberaNombre, QuitaListo, QuitaDeLista,
                           QuitaClave, LiberaClaves, tablas, SinLista
      <4>3. QED
        BY <4>1, <4>2
    <3>3. cola' \in [Claves -> Seq(ESIs)]
      <4>1. \/ cola' = cola
            \/ \E k \in Claves : cola' = [cola EXCEPT ![k] = RemoveFirst(@, e)]
            \/ cola' = [cola EXCEPT ![libera.vacia] = <<>>]
        BY <2>4, Zenon DEF LiberaESI, LiberaNombre, QuitaListo, QuitaDeLista,
                           QuitaClave, LiberaClaves, tablas
      <4>2. ASSUME NEW k \in Claves, cola' = [cola EXCEPT ![k] = RemoveFirst(@, e)]
            PROVE  cola' \in [Claves -> Seq(ESIs)]
        <5>1. RemoveFirst(cola[k], e) \in Seq(ESIs)
          BY RemoveFirstTipo
        <5>2. QED
          BY <4>2, <5>1
      <4>3. ASSUME NEW v, cola' = [cola EXCEPT ![v] = <<>>]
            PROVE  cola' \in [Claves -> Seq(ESIs)]
        <5>1. cola \in [Claves -> Seq(ESIs)] /\ <<>> \in Seq(ESIs)
          OBVIOUS
        <5>2. QED
          BY <4>3, <5>1
      <4>4. QED
        BY <4>1, <4>2, <4>3, Zenon
    <3>4. liberados' \subseteq ESIs
      <4>1. liberados' \in {liberados, liberados \cup {e}}
        BY <2>4, Zenon DEF LiberaESI, LiberaNombre, QuitaListo, QuitaDeLista,
                           QuitaClave, LiberaClaves
      <4>2. QED
        BY <4>1
    <3>5. UNCHANGED <<claveGET, actual, ESIentrada, continua, pc>>
      BY <2>4, Zenon DEF LiberaESI, LiberaNombre, QuitaListo, QuitaDeLista,
                         QuitaClave, LiberaClaves, sinLiberar
    <3>6. libera' \in Liberaciones
      BY <2>4, LiberaTipo
    <3> HIDE <2>4
    <3>7. QED
      BY <3>1, <3>2, <3>3, <3>4, <3>5, <3>6
  <2>5. QED
    BY <2>1, <2>2, <2>3, <2>4 DEF HiloServidor, PasoServidor
<1>5. QED
  BY <1>1, <1>2, <1>3, <1>4

(* The ESI processes *)
LEMMA TiposEsi ==
  ASSUME Tipos, NEW e \in ESIs,
         ProcesoEsi(e) \/ MuereEsi(e) \/ EsiSinPlanificador(e)
  PROVE  Tipos'
<1> USE DEF Tipos, TypeOK
<1>1. /\ PlanTypeOK' /\ CoordTypeOK' /\ InstTypeOK'
      /\ PedidosEnCurso' /\ ActualEnCurso'
  BY DEF ProcesoEsi, MuereEsi, EsiSinPlanificador, PlanTypeOK, FlagsTypeOK,
         CoordTypeOK, InstTypeOK, PedidosEnCurso, ActualEnCurso, varsPlan,
         varsCoord, varsInst, tablas, flags
<1> DEFINE avisos == IF EsUltima(e) THEN <<"TERMINO_ESI">> ELSE <<>>
<1> HIDE DEF avisos
<1>2. avisos \in Seq(MensajesDeEsi) /\ <<>> \in Seq(MensajesDeEsi)
  BY DEF avisos, MensajesDeEsi
<1>3. ASSUME NEW a \in Seq(MensajesDeEsi), Termina(e, a)
      PROVE  /\ vida' \in [ESIs -> {"nueva", "conectada", "terminada"}]
             /\ deEsi' \in [ESIs -> Seq(MensajesDeEsi)]
  <2>1. <<"ENVIAR_ERROR">> \in Seq(MensajesDeEsi)
    BY DEF MensajesDeEsi
  <2>2. [deEsi EXCEPT ![e] = @ \o a \o <<"ENVIAR_ERROR">>]
          \in [ESIs -> Seq(MensajesDeEsi)]
    BY <2>1, ConcatProperties DEF CanalesTypeOK
  <2>3. QED
    BY <1>3, <2>2 DEF Termina, EsiTypeOK
<1>4. CASE ConectarEsi(e)
  <2>1. "ENVIAR_NOMBRE_ESI" \in MensajesDeEsi
    BY DEF MensajesDeEsi
  <2>2. deEsi' \in [ESIs -> Seq(MensajesDeEsi)]
    BY <1>4, <2>1, EnviadoTipo DEF ConectarEsi, CanalesTypeOK
  <2>3. QED
    BY <1>1, <1>4, <2>2
    DEF ConectarEsi, EsiTypeOK, CanalesTypeOK, conexionesAjenas
<1>5. CASE ProcesarSolicitudEjecucion(e)
  <2> DEFINE s == IF ipActual[e] <= Len(guion[e]) THEN guion[e][ipActual[e]]
                                                  ELSE Sin("MALA")
  <2> HIDE DEF s
  <2>1. aEsi' \in [ESIs -> Seq(MensajesAEsi)]
    BY <1>5, RecibidoTipo DEF ProcesarSolicitudEjecucion, Llega, CanalesTypeOK
  <2>2. ipActual' \in [ESIs -> Nat \ {0}] /\ ipAnterior' \in [ESIs -> Nat \ {0}]
    BY <1>5 DEF ProcesarSolicitudEjecucion, EsiTypeOK
  <2>3. s \in Sentencias
    <3>1. guion[e] \in Seq(Sentencias)
      BY GuionesAssumption DEF EsiTypeOK
    <3>2. CASE ipActual[e] <= Len(guion[e])
      <4>1. ipActual[e] \in 1..Len(guion[e])
        BY <3>1, <3>2 DEF EsiTypeOK
      <4>2. QED
        BY <3>1, <3>2, <4>1, ElementOfSeq DEF s
    <3>3. CASE ~(ipActual[e] <= Len(guion[e]))
      BY <3>3 DEF s, Sin, Sentencias
    <3>4. QED
      BY <3>2, <3>3
  <2>4. /\ vida' \in [ESIs -> {"nueva", "conectada", "terminada"}]
        /\ deEsi' \in [ESIs -> Seq(MensajesDeEsi)]
        /\ aCoord' \in [ESIs -> Seq(MensajesACoord)]
    <3>1. CASE /\ s.op \in Operaciones
               /\ deEsi' = [deEsi EXCEPT ![e] = @ \o avisos]
               /\ aCoord' = Enviado(aCoord, e, s)
               /\ UNCHANGED vida
      <4>1. s \in MensajesACoord
        BY <2>3, <3>1 DEF Sentencias, MensajesACoord, Operaciones
      <4>2. QED
        BY <1>2, <3>1, <4>1, EnviadoTipo, ContestadoTipo DEF CanalesTypeOK, EsiTypeOK
    <3>2. CASE /\ aCoord' = Enviado(aCoord, e, Sin("ERROR_TAMANIO_CLAVE"))
               /\ Termina(e, avisos)
      <4>1. Sin("ERROR_TAMANIO_CLAVE") \in MensajesACoord
        BY DEF MensajesACoord, Sin
      <4>2. QED
        BY <1>2, <1>3, <3>2, <4>1, EnviadoTipo DEF CanalesTypeOK
    <3>3. CASE Termina(e, avisos) /\ UNCHANGED aCoord
      BY <1>2, <1>3, <3>3 DEF CanalesTypeOK
    <3>4. QED
      BY <1>5, <3>1, <3>2, <3>3, Zenon DEF ProcesarSolicitudEjecucion, s, avisos
  <2>5. UNCHANGED <<guion, conexionesAjenas>>
    BY <1>5 DEF ProcesarSolicitudEjecucion
  <2>6. QED
    BY <1>1, <2>1, <2>2, <2>4, <2>5 DEF EsiTypeOK, CanalesTypeOK, conexionesAjenas
<1>6. CASE ProcesarSolicitudAnterior(e)
  <2>1. aEsi' \in [ESIs -> Seq(MensajesAEsi)]
    BY <1>6, RecibidoTipo DEF ProcesarSolicitudAnterior, Llega, CanalesTypeOK
  <2>2. QED
    BY <1>1, <1>6, <2>1
    DEF ProcesarSolicitudAnterior, EsiTypeOK, CanalesTypeOK, conexionesAjenas
<1>7. CASE ProcesarRespuestaSolicitud(e)
  <2>1. aEsi' \in [ESIs -> Seq(MensajesAEsi)]
    BY <1>7, RecibidoTipo DEF ProcesarRespuestaSolicitud, Llega, CanalesTypeOK
  <2>2. QED
    BY <1>1, <1>2, <1>3, <1>7, <2>1
    DEF ProcesarRespuestaSolicitud, EsiTypeOK, CanalesTypeOK, conexionesAjenas
<1>8. CASE ProcesarError(e) \/ Matar(e)
  BY <1>1, <1>2, <1>3, <1>8
  DEF ProcesarError, Matar, EsiTypeOK, CanalesTypeOK, conexionesAjenas
<1>9. QED
  BY <1>4, <1>5, <1>6, <1>7, <1>8
  DEF ProcesoEsi, PasoEsi, MuereEsi, EsiSinPlanificador

(* PlanificarInstancia gives an instance, or NULL. *)
LEMMA PlanificarInstanciaTipo ==
  ASSUME CoordTypeOK
  PROVE  /\ TraerUltimaInstanciaUsada \in Instancias \cup {Nada}
         /\ PlanificarInstancia \in Instancias \cup {Nada}
<1>1. tabla \in Seq(Instancias) /\ uso \in Seq(Instancias)
  BY DEF CoordTypeOK
<1>2. \A S : UltimaDe(tabla, S) \in Instancias \cup {Nada}
  BY <1>1, UltimaDeTipo
<1>3. \A S : /\ PrimeraDe(tabla, S) \in Instancias \cup {Nada}
             /\ PrimeraDe(uso, S) \in Instancias \cup {Nada}
  BY <1>1, PrimeraDeTipo
<1>4. TraerUltimaInstanciaUsada \in Instancias \cup {Nada}
  BY <1>2, <1>3, Zenon DEF TraerUltimaInstanciaUsada
<1>5. TraerInstanciaMasEspacioDisponible \in Instancias \cup {Nada}
  BY <1>3, Zenon DEF TraerInstanciaMasEspacioDisponible
<1>6. QED
  BY <1>4, <1>5, AlgoritmoAssumption DEF PlanificarInstancia

(* A thread found a connection to the instance, or not.                      *)
LEMMA ConexionCasos ==
  \A e \in ESIs : \A i : ConexionLeida(e, i) => nulas' \in {nulas, nulas \cup {e}}
BY Zenon DEF ConexionLeida

(* The threads of the ESIs, in the coordinator *)
LEMMA TiposHiloDeEsi ==
  ASSUME Tipos, NEW e \in ESIs, HiloDeEsi(e) PROVE Tipos'
<1> USE DEF Tipos, TypeOK
<1>1. /\ PlanTypeOK' /\ EsiTypeOK' /\ InstTypeOK' /\ ActualEnCurso'
  BY DEF HiloDeEsi, PlanTypeOK, FlagsTypeOK, EsiTypeOK, InstTypeOK,
         ActualEnCurso, varsPlan, varsEsi, varsInst, tablas, flags
<1> DEFINE m == Head(aCoord[e])
           i == elegida[e]
<1> USE DEF varsHiloEsi, varsPeticion, varsRespuesta, varsTabla, varsCompactar,
            canalesDeInst
<1>2. ASSUME aCoord[e] # <<>>, m.op \in Operaciones
      PROVE  /\ m \in [op : Operaciones, clave : Claves]
             /\ m \in MensajesACoord /\ m \in MensajesCoordAPlan
             /\ Append(coordAPlan, m) \in Seq(MensajesCoordAPlan)
             /\ Recibido(aCoord, e) \in [ESIs -> Seq(MensajesACoord)]
  <2>1. m \in MensajesACoord /\ Recibido(aCoord, e) \in [ESIs -> Seq(MensajesACoord)]
    BY <1>2, RecibidoTipo DEF CanalesTypeOK
  <2>2. m \in [op : Operaciones, clave : Claves]
    BY <1>2, <2>1 DEF MensajesACoord, Operaciones
  <2>3. m \in MensajesCoordAPlan
    BY <2>2 DEF MensajesCoordAPlan
  <2>4. QED
    BY <2>1, <2>2, <2>3, AppendProperties DEF CanalesTypeOK
<1>3. Append(coordAPlan, Sin("RESPUESTA_SOLICITUD")) \in Seq(MensajesCoordAPlan)
  <2>1. Sin("RESPUESTA_SOLICITUD") \in MensajesCoordAPlan
    BY DEF Sin, MensajesCoordAPlan
  <2>2. QED
    BY <2>1, AppendProperties DEF CanalesTypeOK
<1>4. ASSUME LibreOtraVez(e)
      PROVE  /\ paso' \in [ESIs -> PasosEsi]
             /\ pedido' \in [ESIs -> MensajesACoord \cup {SinPedido}]
             /\ elegida' \in [ESIs -> Instancias \cup {Nada}]
             /\ PedidosEnCurso'
  BY <1>4 DEF LibreOtraVez, CoordTypeOK, PedidosEnCurso, PasosEsi
<1>5. CASE TomaGET(e)
  <2>1. aCoord[e] # <<>> /\ m.op \in Operaciones
    BY <1>5 DEF TomaGET, LlegaOp, Operaciones
  <2>2. CanalesTypeOK'
    BY <1>2, <1>5, <2>1 DEF TomaGET, CanalesTypeOK
  <2>3. sistema' \subseteq Claves
    BY <1>2, <1>5, <2>1 DEF TomaGET, CoordTypeOK
  <2>4. CoordTypeOK' /\ PedidosEnCurso'
    BY <1>5, <2>3 DEF TomaGET, CoordTypeOK, PedidosEnCurso
  <2>5. QED
    BY <1>1, <2>2, <2>4
<1>6. CASE TomaSET(e)
  <2>1. aCoord[e] # <<>> /\ m.op = "SET" /\ m.op \in Operaciones
    BY <1>6 DEF TomaSET, LlegaOp, Operaciones
  <2>2. m \in [op : {"SET", "STORE"}, clave : Claves] /\ m \in MensajesACoord
    BY <1>2, <2>1
  <2>3. CanalesTypeOK'
    BY <1>2, <1>3, <1>6, <2>1 DEF TomaSET, CanalesTypeOK
  <2>4. peticion' \in Nat
    BY <1>6 DEF TomaSET, TrasRetardo, CoordTypeOK
  <2>5. /\ paso' \in [ESIs -> PasosEsi]
        /\ pedido' \in [ESIs -> MensajesACoord \cup {SinPedido}]
        /\ PedidosEnCurso'
    <3>1. CASE UNCHANGED <<paso, pedido>>
      BY <1>6, <3>1 DEF TomaSET, CoordTypeOK, PedidosEnCurso
    <3>2. CASE /\ pedido' = [pedido EXCEPT ![e] = m]
               /\ paso' = [paso EXCEPT ![e] = "esperaSET"]
      <4>1. elegida' = elegida
        BY <1>6 DEF TomaSET
      <4>2. QED
        BY <2>2, <3>2, <4>1 DEF CoordTypeOK, PedidosEnCurso, PasosEsi
    <3>3. QED
      BY <1>6, <3>1, <3>2, Zenon DEF TomaSET
  <2>6. CoordTypeOK'
    BY <1>6, <2>4, <2>5 DEF TomaSET, CoordTypeOK
  <2>7. QED
    BY <1>1, <2>3, <2>5, <2>6
<1>7. CASE TomaSTORE(e)
  <2>1. aCoord[e] # <<>> /\ m.op = "STORE" /\ m.op \in Operaciones
    BY <1>7 DEF TomaSTORE, LlegaOp, Operaciones
  <2>2. m \in [op : {"SET", "STORE"}, clave : Claves] /\ m \in MensajesACoord
    BY <1>2, <2>1
  <2>3. CanalesTypeOK'
    BY <1>2, <1>7, <2>1 DEF TomaSTORE, CanalesTypeOK
  <2>4. peticion' \in Nat
    BY <1>7 DEF TomaSTORE, TrasRetardo, CoordTypeOK
  <2>5. /\ paso' \in [ESIs -> PasosEsi]
        /\ pedido' \in [ESIs -> MensajesACoord \cup {SinPedido}]
        /\ PedidosEnCurso'
    <3>1. /\ pedido' = [pedido EXCEPT ![e] = m]
          /\ paso' = [paso EXCEPT ![e] = "esperaSTORE"] /\ elegida' = elegida
      BY <1>7 DEF TomaSTORE
    <3>2. QED
      BY <2>2, <3>1 DEF CoordTypeOK, PedidosEnCurso, PasosEsi
  <2>6. CoordTypeOK'
    BY <1>7, <2>4, <2>5 DEF TomaSTORE, CoordTypeOK
  <2>7. QED
    BY <1>1, <2>3, <2>5, <2>6
<1>8. CASE TomaErrorTamanio(e)
  <2>1. Recibido(aCoord, e) \in [ESIs -> Seq(MensajesACoord)]
    BY <1>8, RecibidoTipo DEF TomaErrorTamanio, LlegaOp, CanalesTypeOK
  <2>2. QED
    BY <1>1, <1>8, <2>1
    DEF TomaErrorTamanio, CanalesTypeOK, CoordTypeOK, PedidosEnCurso, varsCoord
<1>9. CASE DecideSET(e)
  <2> DEFINE k == pedido[e].clave
             j == InstanciaParaSET(k)
  <2>1. pedido[e] \in [op : {"SET", "STORE"}, clave : Claves]
    BY <1>9 DEF DecideSET, PedidosEnCurso
  <2>2. j \in Instancias \cup {Nada}
    <3>1. Duena(k) \in Instancias \cup {Nada}
      BY PrimeraDeTipo DEF CoordTypeOK, Duena
    <3>2. QED
      BY <3>1, PlanificarInstanciaTipo, Zenon DEF InstanciaParaSET
  <2>3. respSet' \in Nat
    BY <1>9 DEF DecideSET, CoordTypeOK
  <2>4. /\ Usada(j) \in Seq(Instancias) \/ j = Nada
        /\ nulas' \subseteq ESIs
    <3>1. Usada(j) \in Seq(Instancias) \/ j = Nada
      BY <2>2, RemoveFirstTipo, AppendProperties DEF Usada, CoordTypeOK
    <3>2. nulas' \in {nulas, nulas \cup {e}}
      BY <1>9, ConexionCasos, Zenon DEF DecideSET
    <3>3. QED
      BY <3>1, <3>2 DEF CoordTypeOK
  <2> HIDE DEF j
  <2>5. /\ UNCHANGED <<cortadas, sistema, peticion, respStore, respuesta, hiloPlan,
                       tabla, disponible, claves, mutexInst, compactadas, pasoInst,
                       indice, coordCaido, aCoord, canalesDeInst>>
    BY <1>9, Zenon DEF DecideSET
  <2>6. CASE LibreOtraVez(e) /\ UNCHANGED <<uso, trabajo>>
             /\ coordAPlan' \in {coordAPlan,
                                 Append(coordAPlan, Sin("RESPUESTA_SOLICITUD"))}
    <3>1. CoordTypeOK' /\ PedidosEnCurso'
      BY <1>4, <2>3, <2>4, <2>5, <2>6 DEF CoordTypeOK
    <3>2. CanalesTypeOK'
      BY <1>3, <2>5, <2>6 DEF CanalesTypeOK
    <3>3. QED
      BY <1>1, <3>1, <3>2
  <2>7. CASE /\ j # Nada
             /\ uso' = Usada(j)
             /\ trabajo' = [trabajo EXCEPT ![j] = [clave |-> k, de |-> e]]
             /\ elegida' = [elegida EXCEPT ![e] = j]
             /\ paso' = [paso EXCEPT ![e] = "enviaSET"]
             /\ UNCHANGED <<pedido, coordAPlan>>
    <3>1. j \in Instancias
      BY <2>2, <2>7
    <3>2. trabajo' \in [Instancias -> [clave : Claves, de : ESIs] \cup {SinTrabajo}]
      BY <2>1, <2>7 DEF CoordTypeOK
    <3>3. /\ paso' \in [ESIs -> PasosEsi]
          /\ elegida' \in [ESIs -> Instancias \cup {Nada}]
          /\ PedidosEnCurso'
      BY <2>1, <2>7, <3>1 DEF CoordTypeOK, PedidosEnCurso, PasosEsi
    <3>4. CoordTypeOK'
      BY <2>3, <2>4, <2>5, <2>7, <3>2, <3>3 DEF CoordTypeOK
    <3>5. CanalesTypeOK'
      BY <2>5, <2>7 DEF CanalesTypeOK
    <3>6. QED
      BY <1>1, <3>3, <3>4, <3>5
  <2>8. CASE /\ paso' = [paso EXCEPT ![e] = "planificaKE"]
             /\ UNCHANGED <<pedido, elegida, coordAPlan, uso, trabajo>>
    <3>1. CoordTypeOK' /\ PedidosEnCurso'
      BY <2>1, <2>3, <2>4, <2>5, <2>8 DEF CoordTypeOK, PedidosEnCurso, PasosEsi
    <3>2. CanalesTypeOK'
      BY <2>5, <2>8 DEF CanalesTypeOK
    <3>3. QED
      BY <1>1, <3>1, <3>2
  <2>9. QED
    BY <1>9, <2>6, <2>7, <2>8, Zenon DEF DecideSET, j
<1>10. CASE DecideSTORE(e)
  <2> DEFINE k == pedido[e].clave
             j == IF Duena(k) # Nada THEN Duena(k)
                                     ELSE PrimeraDe(tabla, ConClave(k))
  <2>1. pedido[e] \in [op : {"SET", "STORE"}, clave : Claves]
    BY <1>10 DEF DecideSTORE, PedidosEnCurso
  <2>2. j \in Instancias \cup {Nada}
    BY PrimeraDeTipo DEF CoordTypeOK, Duena
  <2>3. respStore' \in Nat /\ nulas' \subseteq ESIs
    <3>1. nulas' \in {nulas, nulas \cup {e}}
      BY <1>10, ConexionCasos, Zenon DEF DecideSTORE
    <3>2. QED
      BY <1>10, <3>1 DEF DecideSTORE, CoordTypeOK
  <2> HIDE DEF j
  <2>4. UNCHANGED <<cortadas, sistema, peticion, respSet, respuesta, hiloPlan, tabla,
                    disponible, claves, trabajo, uso, mutexInst, compactadas,
                    pasoInst, indice, coordCaido, aCoord, canalesDeInst>>
    BY <1>10, Zenon DEF DecideSTORE
  <2>5. CASE LibreOtraVez(e)
             /\ coordAPlan' \in {coordAPlan,
                                 Append(coordAPlan, Sin("RESPUESTA_SOLICITUD"))}
    <3>1. CoordTypeOK' /\ PedidosEnCurso'
      BY <1>4, <2>3, <2>4, <2>5 DEF CoordTypeOK
    <3>2. CanalesTypeOK'
      BY <1>3, <2>4, <2>5 DEF CanalesTypeOK
    <3>3. QED
      BY <1>1, <3>1, <3>2
  <2>6. CASE /\ j # Nada
             /\ elegida' = [elegida EXCEPT ![e] = j]
             /\ paso' = [paso EXCEPT ![e] = "enviaSTORE"]
             /\ UNCHANGED <<pedido, coordAPlan>>
    <3>1. /\ paso' \in [ESIs -> PasosEsi]
          /\ elegida' \in [ESIs -> Instancias \cup {Nada}]
          /\ PedidosEnCurso'
      BY <2>1, <2>2, <2>6 DEF CoordTypeOK, PedidosEnCurso, PasosEsi
    <3>2. CoordTypeOK'
      BY <2>3, <2>4, <2>6, <3>1 DEF CoordTypeOK
    <3>3. CanalesTypeOK'
      BY <2>4, <2>6 DEF CanalesTypeOK
    <3>4. QED
      BY <1>1, <3>1, <3>2, <3>3
  <2>7. QED
    BY <1>10, <2>5, <2>6, Zenon DEF DecideSTORE, j
<1>11. CASE EnviaAInstancia(e)
  <2> DEFINE enviado == EnviadoA(i, [tipo |-> pedido[e].op,
                                     clave |-> pedido[e].clave, de |-> e])
  <2>1. /\ pedido[e] \in [op : {"SET", "STORE"}, clave : Claves]
        /\ i \in Instancias
    BY <1>11 DEF EnviaAInstancia, PedidosEnCurso
  <2>2. [tipo |-> pedido[e].op, clave |-> pedido[e].clave, de |-> e] \in MensajesAInst
    BY <2>1 DEF MensajesAInst
  <2>3. enviado \in [Instancias -> Seq(MensajesAInst)]
    <3> DEFINE conPedido == Enviado(aInst, i, [tipo |-> pedido[e].op,
                                     clave |-> pedido[e].clave, de |-> e])
    <3>1. conPedido \in [Instancias -> Seq(MensajesAInst)]
      BY <2>2, EnviadoTipo DEF CanalesTypeOK
    <3>2. enviado \in {aInst, conPedido}
      BY Zenon DEF EnviadoA
    <3>3. QED
      BY <3>1, <3>2 DEF CanalesTypeOK
  <2> HIDE DEF enviado
  <2>4. aInst' \in {enviado, aInst}
    BY <1>11, Zenon DEF EnviaAInstancia, enviado
  <2>5. CanalesTypeOK'
    BY <1>11, <2>3, <2>4 DEF EnviaAInstancia, CanalesTypeOK
  <2>6. mutexInst' \in [Instancias -> Nat] /\ cortadas' \subseteq ESIs
    <3>1. /\ mutexInst[i] > 0 /\ mutexInst' = [mutexInst EXCEPT ![i] = @ - 1]
          /\ cortadas' = cortadas \ {e}
      BY <1>11, Zenon DEF EnviaAInstancia
    <3>2. QED
      BY <2>1, <3>1 DEF CoordTypeOK
  <2>7. CoordTypeOK' /\ PedidosEnCurso'
    BY <1>4, <1>11, <2>6 DEF EnviaAInstancia, CoordTypeOK
  <2>8. QED
    BY <1>1, <2>5, <2>7
<1>12. CASE EnviaSinConexion(e)
  <2>1. UNCHANGED <<varsPeticion, peticion, varsRespuesta, varsTabla, mutexInst,
                    compactadas, pasoInst, indice, canales>>
    BY <1>12, Zenon DEF EnviaSinConexion
  <2>2. coordCaido' \in BOOLEAN
    BY <1>12, Zenon DEF EnviaSinConexion
  <2>3. QED
    BY <1>1, <2>1, <2>2 DEF CoordTypeOK, CanalesTypeOK, canales, PedidosEnCurso
<1>13. QED
  BY <1>5, <1>6, <1>7, <1>8, <1>9, <1>10, <1>11, <1>12 DEF HiloDeEsi, PasoHiloEsi

(* The thread of the planner, in the coordinator *)
LEMMA TiposHiloDePlan == ASSUME Tipos, HiloDePlan PROVE Tipos'
<1> USE DEF Tipos, TypeOK
<1>1. /\ PlanTypeOK' /\ EsiTypeOK' /\ InstTypeOK' /\ ActualEnCurso'
  BY DEF HiloDePlan, PlanTypeOK, FlagsTypeOK, EsiTypeOK, InstTypeOK,
         ActualEnCurso, varsPlan, varsEsi, varsInst, tablas, flags
<1> USE DEF varsHiloEsi, varsPeticion, varsRespuesta, varsTabla, varsCompactar
<1>2. CASE RecibeRespuesta
  <2>1. CanalesTypeOK'
    BY <1>2, HeadTailProperties
    DEF RecibeRespuesta, CanalesTypeOK, canalesSinPlanACoord
  <2>2. respuesta' \in BOOLEAN
    <3> DEFINE acepta == Head(planACoord).tipo \in {"SET_OK", "STORE_OK"}
    <3>1. respuesta' = respuesta \/ respuesta' = acepta
      BY <1>2, Zenon DEF RecibeRespuesta
    <3>2. acepta \in BOOLEAN
      BY SMT
    <3> HIDE DEF acepta
    <3>3. respuesta \in BOOLEAN
      BY DEF CoordTypeOK
    <3>4. QED
      BY <3>1, <3>2, <3>3, Zenon
  <2>3. respSet' \in Nat /\ respStore' \in Nat
    BY <1>2 DEF RecibeRespuesta, CoordTypeOK
  <2>4. hiloPlan' \in {"libre", "asignaTRUE", "asignaFALSE"}
    BY <1>2, Zenon DEF RecibeRespuesta, CoordTypeOK
  <2>5. UNCHANGED <<varsPeticion, peticion, varsTabla, mutexInst, varsCompactar>>
    BY <1>2, Zenon DEF RecibeRespuesta
  <2>6. QED
    BY <1>1, <2>1, <2>2, <2>3, <2>4, <2>5 DEF CoordTypeOK, PedidosEnCurso
<1>3. CASE AsignaRespuesta
  <2>1. respuesta' \in BOOLEAN
    BY <1>3, SMT DEF AsignaRespuesta
  <2>2. UNCHANGED <<varsPeticion, peticion, respSet, respStore, varsTabla,
                    mutexInst, varsCompactar, canales>> /\ hiloPlan' = "libre"
    BY <1>3, Zenon DEF AsignaRespuesta
  <2>3. QED
    BY <1>1, <2>1, <2>2 DEF CoordTypeOK, CanalesTypeOK, canales, PedidosEnCurso
<1>4. CASE ProcesarStatus
  <2> DEFINE k == Head(planACoord).clave
             i == PrimeraDe(tabla, ConClave(k))
             pedida == [tipo |-> "SOLICITAR_VALOR", clave |-> k, de |-> Nada]
  <2>1. pedida \in MensajesAInst
    <3>1. Head(planACoord) \in MensajesPlanACoord
      BY <1>4, HeadTailProperties DEF ProcesarStatus, CanalesTypeOK
    <3>2. k \in Claves
      BY <1>4, <3>1, SMT DEF ProcesarStatus, MensajesPlanACoord, RespuestasDelPlan
    <3>3. QED
      BY <3>2 DEF MensajesAInst
  <2>2. aInst' \in [Instancias -> Seq(MensajesAInst)]
    <3>1. aInst' \in {aInst, Enviado(aInst, i, pedida)}
      BY <1>4, Zenon DEF ProcesarStatus
    <3>2. aInst \in [Instancias -> Seq(MensajesAInst)]
      BY DEF CanalesTypeOK
    <3> HIDE DEF i, pedida
    <3>3. Enviado(aInst, i, pedida) \in [Instancias -> Seq(MensajesAInst)]
      BY <2>1, <3>2, EnviadoTipo
    <3>4. QED
      BY <3>1, <3>2, <3>3
  <2>3. CanalesTypeOK'
    <3>1. planACoord' \in Seq(MensajesPlanACoord)
      BY <1>4, HeadTailProperties DEF ProcesarStatus, CanalesTypeOK
    <3>2. UNCHANGED <<aEsi, deEsi, aCoord, coordAPlan, deInst>>
      BY <1>4, Zenon DEF ProcesarStatus
    <3>3. QED
      BY <2>2, <3>1, <3>2 DEF CanalesTypeOK
  <2>4. coordCaido' \in BOOLEAN
    BY <1>4, Zenon DEF ProcesarStatus
  <2>5. UNCHANGED <<varsPeticion, peticion, varsRespuesta, varsTabla, mutexInst,
                    compactadas, pasoInst, indice>>
    BY <1>4, Zenon DEF ProcesarStatus
  <2>6. QED
    BY <1>1, <2>3, <2>4, <2>5 DEF CoordTypeOK, PedidosEnCurso
<1>5. QED
  BY <1>2, <1>3, <1>4 DEF HiloDePlan, PasoHiloPlan

(* The threads of the instances, in the coordinator *)
LEMMA TiposHiloDeInst ==
  ASSUME Tipos, NEW i \in Instancias, HiloDeInst(i) PROVE Tipos'
<1> USE DEF Tipos, TypeOK
<1>1. /\ PlanTypeOK' /\ EsiTypeOK' /\ InstTypeOK' /\ ActualEnCurso'
  BY DEF HiloDeInst, PlanTypeOK, FlagsTypeOK, EsiTypeOK, InstTypeOK,
         ActualEnCurso, varsPlan, varsEsi, varsInst, tablas, flags
<1> USE DEF varsHiloEsi, varsPeticion, varsRespuesta, varsTabla, varsCompactar,
            canalesSinInst
<1>2. InstanciaSuelta(i) \in [Instancias -> Nat]
  BY DEF InstanciaSuelta, CoordTypeOK
<1>3. ASSUME SueltaPeticion PROVE peticion' \in Nat
  BY <1>3 DEF SueltaPeticion, CoordTypeOK
<1>4. ASSUME NEW t, LlegaTipo(i, t)
      PROVE  /\ deInst[i] # <<>> /\ Head(deInst[i]).tipo = t
             /\ Head(deInst[i]) \in MensajesDeInst
             /\ deInst' \in [Instancias -> Seq(MensajesDeInst)]
  BY <1>4, RecibidoTipo DEF LlegaTipo, CanalesTypeOK
<1>5. ASSUME NEW j, NEW msg \in MensajesAInst
      PROVE  /\ Enviado(aInst, j, msg) \in [Instancias -> Seq(MensajesAInst)]
             /\ EnviadoA(j, msg) \in [Instancias -> Seq(MensajesAInst)]
  <2>1. Enviado(aInst, j, msg) \in [Instancias -> Seq(MensajesAInst)]
    BY <1>5, EnviadoTipo DEF CanalesTypeOK
  <2>2. EnviadoA(j, msg) \in {aInst, Enviado(aInst, j, msg)}
    BY Zenon DEF EnviadoA
  <2>3. QED
    BY <2>1, <2>2 DEF CanalesTypeOK
<1>6. CASE RecibeNombreInstancia(i)
  <2>1. pasoInst' \in [Instancias -> PasosInst]
    BY <1>6 DEF RecibeNombreInstancia, CoordTypeOK, PasosInst
  <2>2. CanalesTypeOK'
    BY <1>4, <1>6 DEF RecibeNombreInstancia, CanalesTypeOK
  <2>3. tabla' \in Seq(Instancias)
    <3>1. tabla' \in {tabla, Append(tabla, i)}
      BY <1>6, Zenon DEF RecibeNombreInstancia
    <3>2. Append(tabla, i) \in Seq(Instancias)
      BY AppendProperties DEF CoordTypeOK
    <3>3. QED
      BY <3>1, <3>2 DEF CoordTypeOK
  <2>4. disponible' \in [Instancias -> BOOLEAN]
    BY <1>6 DEF RecibeNombreInstancia, CoordTypeOK
  <2>5. UNCHANGED <<varsPeticion, peticion, varsRespuesta, claves, trabajo, uso,
                    mutexInst, compactadas, indice, coordCaido>>
    BY <1>6, Zenon DEF RecibeNombreInstancia
  <2>6. QED
    BY <1>1, <2>1, <2>2, <2>3, <2>4, <2>5 DEF CoordTypeOK, PedidosEnCurso
<1>7. CASE RecibeSetOk(i)
  <2>1. CanalesTypeOK'
    BY <1>4, <1>7 DEF RecibeSetOk, CanalesTypeOK
  <2>2. claves' \in [Instancias -> Seq(Claves)]
    <3>1. CASE trabajo[i] = SinTrabajo
      BY <1>7, <3>1, Zenon DEF RecibeSetOk, CoordTypeOK
    <3>2. CASE trabajo[i] # SinTrabajo
      <4>1. trabajo[i].clave \in Claves
        BY <3>2 DEF CoordTypeOK
      <4>2. claves' = ClaveAgregada(i, trabajo[i].clave)
        BY <1>7, <3>2, Zenon DEF RecibeSetOk
      <4>3. QED
        BY <4>1, <4>2, AppendProperties DEF ClaveAgregada, CoordTypeOK
    <3>3. QED
      BY <3>1, <3>2
  <2>3. coordCaido' \in BOOLEAN
    BY <1>7, SMT DEF RecibeSetOk
  <2>4. peticion' \in Nat /\ mutexInst' \in [Instancias -> Nat]
    BY <1>2, <1>3, <1>7, Zenon DEF RecibeSetOk
  <2>5. UNCHANGED <<varsPeticion, varsRespuesta, tabla, disponible, trabajo, uso,
                    compactadas, pasoInst, indice>>
    BY <1>7, Zenon DEF RecibeSetOk
  <2>6. QED
    BY <1>1, <2>1, <2>2, <2>3, <2>4, <2>5 DEF CoordTypeOK, PedidosEnCurso
<1>8. CASE RecibeStoreOk(i)
  <2>1. CanalesTypeOK'
    BY <1>4, <1>8 DEF RecibeStoreOk, CanalesTypeOK
  <2>2. peticion' \in Nat /\ mutexInst' \in [Instancias -> Nat]
    BY <1>2, <1>3, <1>8, Zenon DEF RecibeStoreOk
  <2>3. UNCHANGED <<varsPeticion, varsRespuesta, varsTabla, varsCompactar>>
    BY <1>8, Zenon DEF RecibeStoreOk
  <2>4. QED
    BY <1>1, <2>1, <2>2, <2>3 DEF CoordTypeOK, PedidosEnCurso
<1>9. CASE RecibeClaveEliminada(i)
  <2>1. CanalesTypeOK'
    BY <1>4, <1>9 DEF RecibeClaveEliminada, CanalesTypeOK
  <2>2. claves' \in [Instancias -> Seq(Claves)]
    BY <1>9, RemoveFirstTipo DEF RecibeClaveEliminada, ClaveQuitada, CoordTypeOK
  <2>3. UNCHANGED <<varsPeticion, peticion, varsRespuesta, tabla, disponible,
                    trabajo, uso, mutexInst, varsCompactar>>
    BY <1>9, Zenon DEF RecibeClaveEliminada
  <2>4. QED
    BY <1>1, <2>1, <2>2, <2>3 DEF CoordTypeOK, PedidosEnCurso
<1>10. CASE RecibeEspacioInsuficiente(i)
  <2>1. CanalesTypeOK'
    BY <1>4, <1>10 DEF RecibeEspacioInsuficiente, CanalesTypeOK
  <2>2. pasoInst' \in [Instancias -> PasosInst] /\ indice' \in [Instancias -> Nat]
    BY <1>10 DEF RecibeEspacioInsuficiente, CoordTypeOK, PasosInst
  <2>3. mutexInst' \in [Instancias -> Nat]
    BY <1>2, <1>10, Zenon DEF RecibeEspacioInsuficiente
  <2>4. UNCHANGED <<varsPeticion, peticion, varsRespuesta, varsTabla, compactadas,
                    coordCaido>>
    BY <1>10, Zenon DEF RecibeEspacioInsuficiente
  <2>5. QED
    BY <1>1, <2>1, <2>2, <2>3, <2>4 DEF CoordTypeOK, PedidosEnCurso
<1>11. CASE BloqueaInstancia(i)
  <2> DEFINE j == tabla[indice[i]]
  <2>1. /\ mutexInst[j] > 0 /\ mutexInst' = [mutexInst EXCEPT ![j] = @ - 1]
        /\ UNCHANGED canales
    BY <1>11, Zenon DEF BloqueaInstancia
  <2>2. mutexInst' \in [Instancias -> Nat]
    <3>1. CASE j \in Instancias
      BY <2>1, <3>1 DEF CoordTypeOK
    <3>2. CASE j \notin Instancias
      BY <2>1, <3>2 DEF CoordTypeOK
    <3>3. QED
      BY <3>1, <3>2
  <2>3. /\ pasoInst' \in [Instancias -> PasosInst]
        /\ indice' \in [Instancias -> Nat] /\ compactadas' \in Int
    BY <1>11 DEF BloqueaInstancia, CoordTypeOK, PasosInst
  <2>4. UNCHANGED <<varsPeticion, peticion, varsRespuesta, varsTabla, coordCaido>>
    BY <1>11, Zenon DEF BloqueaInstancia
  <2>5. CanalesTypeOK'
    BY <2>1 DEF CanalesTypeOK, canales
  <2>6. QED
    BY <1>1, <2>2, <2>3, <2>4, <2>5 DEF CoordTypeOK, PedidosEnCurso
<1>12. CASE CompactaInstancia(i)
  <2>1. [tipo |-> "COMPACTAR", clave |-> Nada, de |-> Nada] \in MensajesAInst
    BY DEF MensajesAInst
  <2>2. CanalesTypeOK'
    BY <1>5, <1>12, <2>1 DEF CompactaInstancia, CanalesTypeOK
  <2>3. /\ pasoInst' \in [Instancias -> PasosInst]
        /\ indice' \in [Instancias -> Nat] /\ compactadas' \in Int
    BY <1>12 DEF CompactaInstancia, CoordTypeOK, PasosInst
  <2>4. UNCHANGED <<varsPeticion, peticion, varsRespuesta, varsTabla, mutexInst>>
    BY <1>12, Zenon DEF CompactaInstancia
  <2>5. coordCaido' \in BOOLEAN
    BY <1>12, Zenon DEF CompactaInstancia
  <2>6. QED
    BY <1>1, <2>2, <2>3, <2>4, <2>5 DEF CoordTypeOK, PedidosEnCurso
<1>13. CASE RecibeCompactar(i)
  <2> DEFINE w == TraerUltimaInstanciaUsada
             conTrabajo == w # Nada /\ trabajo[w] # SinTrabajo
             definitivo == [tipo |-> "SET_DEFINITIVO", clave |-> trabajo[w].clave,
                            de |-> trabajo[w].de]
  <2>1. w \in Instancias \cup {Nada}
    BY PlanificarInstanciaTipo
  <2> HIDE DEF w
  <2>2. ASSUME conTrabajo PROVE definitivo \in MensajesAInst
    BY <2>1, <2>2 DEF CoordTypeOK, MensajesAInst
  <2>3. aInst' \in [Instancias -> Seq(MensajesAInst)]
    <3>1. \/ aInst' = aInst
          \/ conTrabajo /\ aInst' = Enviado(aInst, i, definitivo)
      BY <1>13, Zenon DEF RecibeCompactar, w
    <3>2. QED
      BY <1>5, <2>2, <3>1 DEF CanalesTypeOK
  <2>4. /\ deInst' \in [Instancias -> Seq(MensajesDeInst)]
        /\ UNCHANGED canalesSinInst
    BY <1>4, <1>13, Zenon DEF RecibeCompactar
  <2>5. coordCaido' \in BOOLEAN
    <3>1. coordCaido' = coordCaido \/ coordCaido' = ~conTrabajo
      BY <1>13, Zenon DEF RecibeCompactar, w
    <3>2. coordCaido \in BOOLEAN
      BY DEF CoordTypeOK
    <3>3. QED
      BY <3>1, <3>2, Zenon
  <2>6. peticion' \in Nat
    BY <1>3, <1>13, Zenon DEF RecibeCompactar, CoordTypeOK
  <2>7. compactadas' \in Int
    BY <1>13 DEF RecibeCompactar, CoordTypeOK
  <2>8. mutexInst' \in [Instancias -> Nat]
    BY <1>2, <1>13, Zenon DEF RecibeCompactar
  <2>9. UNCHANGED <<varsPeticion, varsRespuesta, varsTabla, pasoInst, indice>>
    BY <1>13, Zenon DEF RecibeCompactar
  <2>10. CanalesTypeOK'
    BY <2>3, <2>4 DEF CanalesTypeOK
  <2>11. QED
    BY <1>1, <2>5, <2>6, <2>7, <2>8, <2>9, <2>10 DEF CoordTypeOK, PedidosEnCurso
<1>14. CASE RecibeSetDefinitivo(i)
  <2>1. CanalesTypeOK'
    BY <1>4, <1>14 DEF RecibeSetDefinitivo, CanalesTypeOK
  <2>2. mutexInst' \in [Instancias -> Nat]
    BY <1>14 DEF RecibeSetDefinitivo, CoordTypeOK
  <2>3. peticion' \in Nat
    BY <1>3, <1>14, Zenon DEF RecibeSetDefinitivo
  <2>4. UNCHANGED <<varsPeticion, varsRespuesta, varsTabla, varsCompactar>>
    BY <1>14, Zenon DEF RecibeSetDefinitivo
  <2>5. QED
    BY <1>1, <2>1, <2>2, <2>3, <2>4 DEF CoordTypeOK, PedidosEnCurso
<1>15. CASE DesconectaInstancia(i)
  <2>1. CanalesTypeOK'
    <3>1. aInst' \in [Instancias -> Seq(MensajesAInst)]
      BY <1>15 DEF DesconectaInstancia, CanalesTypeOK
    <3>2. QED
      BY <1>4, <1>15, <3>1 DEF DesconectaInstancia, CanalesTypeOK
  <2>2. mutexInst' \in [Instancias -> Nat]
    BY <1>2, <1>15, Zenon DEF DesconectaInstancia, SueltaSiTomada, CoordTypeOK
  <2>3. /\ disponible' \in [Instancias -> BOOLEAN]
        /\ cortadas' \subseteq ESIs /\ nulas' \subseteq ESIs
    BY <1>15 DEF DesconectaInstancia, CoordTypeOK
  <2>4. UNCHANGED <<varsHiloEsi, peticion, varsRespuesta, tabla, claves, trabajo,
                    uso, varsCompactar>>
    BY <1>15, Zenon DEF DesconectaInstancia
  <2>5. QED
    BY <1>1, <2>1, <2>2, <2>3, <2>4 DEF CoordTypeOK, PedidosEnCurso
<1>16. CASE RecibeRespuestaValor(i)
  <2>1. CanalesTypeOK'
    BY <1>4, <1>16 DEF RecibeRespuestaValor, CanalesTypeOK
  <2>2. UNCHANGED varsCoord
    BY <1>16, Zenon DEF RecibeRespuestaValor
  <2>3. QED
    BY <1>1, <2>1, <2>2 DEF CoordTypeOK, PedidosEnCurso, varsCoord
<1>17. CASE PresentaInstancia(i)
  <2>1. [tipo |-> "ENVIAR_INFO_INSTANCIA", clave |-> Range(claves[i]), de |-> Nada]
          \in MensajesAInst
    <3>1. Range(claves[i]) \in SUBSET Claves
      BY ElementOfSeq DEF Range, CoordTypeOK
    <3>2. QED
      BY <3>1 DEF MensajesAInst
  <2>2. CanalesTypeOK'
    BY <1>5, <1>17, <2>1 DEF PresentaInstancia, CanalesTypeOK
  <2>3. pasoInst' \in [Instancias -> PasosInst]
    BY <1>17 DEF PresentaInstancia, CoordTypeOK, PasosInst
  <2>4. UNCHANGED <<varsPeticion, peticion, varsRespuesta, varsTabla, mutexInst,
                    compactadas, indice, coordCaido>>
    BY <1>17, Zenon DEF PresentaInstancia
  <2>5. QED
    BY <1>1, <2>2, <2>3, <2>4 DEF CoordTypeOK, PedidosEnCurso
<1>18. QED
  BY <1>6, <1>7, <1>8, <1>9, <1>10, <1>11, <1>12, <1>13, <1>14, <1>15, <1>16, <1>17
  DEF HiloDeInst, PasoHiloInst

(* The Instancia processes *)
LEMMA TiposInstancia ==
  ASSUME Tipos, NEW i \in Instancias, ProcesoInstancia(i) \/ EntornoInstancia(i)
  PROVE  Tipos'
<1> USE DEF Tipos, TypeOK
<1>1. /\ PlanTypeOK' /\ EsiTypeOK' /\ CoordTypeOK'
      /\ PedidosEnCurso' /\ ActualEnCurso'
  BY DEF ProcesoInstancia, EntornoInstancia, PlanTypeOK, FlagsTypeOK, EsiTypeOK,
         CoordTypeOK, PedidosEnCurso, ActualEnCurso, varsPlan, varsEsi,
         varsCoord, tablas, flags
<1>2. ASSUME NEW t, LlegaPedido(i, t)
      PROVE  /\ aInst[i] # <<>> /\ Head(aInst[i]).tipo = t
             /\ Head(aInst[i]) \in MensajesAInst
             /\ aInst' \in [Instancias -> Seq(MensajesAInst)]
  BY <1>2, RecibidoTipo DEF LlegaPedido, CanalesTypeOK
<1>3. ASSUME NEW t, LlegaPedido(i, t), t \in {"SET", "SET_DEFINITIVO", "STORE"}
      PROVE  Head(aInst[i]).clave \in Claves
  BY <1>2, <1>3 DEF MensajesAInst
<1>4. ASSUME NEW ms \in Seq(MensajesDeInst), Contesta(i, ms)
      PROVE  deInst' \in [Instancias -> Seq(MensajesDeInst)]
  BY <1>4, ContestadoTipo DEF Contesta, CanalesTypeOK
<1>5. /\ <<Mensaje("SET_OK")>> \in Seq(MensajesDeInst)
      /\ <<Mensaje("ERROR_ESPACIO_INSUFICIENTE")>> \in Seq(MensajesDeInst)
      /\ <<Mensaje("SET_DEFINITIVO_OK")>> \in Seq(MensajesDeInst)
      /\ <<Mensaje("SET_DEFINITIVO_ERROR")>> \in Seq(MensajesDeInst)
      /\ <<Mensaje("STORE_OK")>> \in Seq(MensajesDeInst)
      /\ <<Mensaje("COMPACTAR")>> \in Seq(MensajesDeInst)
      /\ <<Mensaje("RESPUESTA_SOLICITAR_VALOR")>> \in Seq(MensajesDeInst)
      /\ <<Mensaje("ENVIAR_ERROR")>> \in Seq(MensajesDeInst)
      /\ Mensaje("ENVIAR_NOMBRE_INSTANCIA") \in MensajesDeInst
  BY DEF Mensaje, MensajesDeInst
<1>6. \A k \in Claves : Eliminada(k) \in MensajesDeInst
  BY DEF Eliminada, MensajesDeInst
<1>7. ASSUME Cae(i)
      PROVE  /\ viva' \in [Instancias -> BOOLEAN]
             /\ deInst' \in [Instancias -> Seq(MensajesDeInst)]
             /\ UNCHANGED <<contenido, archivos, listas, fragmentaciones>>
  BY <1>4, <1>5, <1>7 DEF Cae, InstTypeOK
<1> USE DEF canalesDeOtros
<1>8. CASE ProcesarEnviarInfoInstancia(i)
  BY <1>1, <1>2, <1>8 DEF ProcesarEnviarInfoInstancia, InstTypeOK, CanalesTypeOK
<1>9. CASE ProcesarSet(i)
  <2> DEFINE k == Head(aInst[i]).clave
             vieja == IF k \in contenido[i] THEN <<Eliminada(k)>> ELSE <<>>
             otras == IF i \in Reemplazan THEN contenido[i] \ {k} ELSE {}
  <2>1. k \in Claves /\ aInst' \in [Instancias -> Seq(MensajesAInst)]
    BY <1>2, <1>3, <1>9 DEF ProcesarSet
  <2>2. vieja \in Seq(MensajesDeInst)
    BY <1>6, <2>1
  <2>3. otras \in SUBSET Claves
    BY DEF InstTypeOK
  <2> HIDE DEF k, vieja, otras
  <2>4. PICK victimas \in SetToAllKPermutations(otras) :
          LET avisos == [p \in DOMAIN victimas |-> Eliminada(victimas[p])]
              quedan == contenido[i] \ (Range(victimas) \cup {k})
          IN \/ /\ contenido' = [contenido EXCEPT ![i] = quedan \cup {k}]
                /\ Contesta(i, vieja \o avisos \o <<Mensaje("SET_OK")>>)
                /\ UNCHANGED fragmentaciones
             \/ /\ i \in SinEspacio
                /\ fragmentaciones < MaxFragmentaciones
                /\ fragmentaciones' = fragmentaciones + 1
                /\ contenido' = [contenido EXCEPT ![i] = quedan]
                /\ Contesta(i, vieja \o avisos
                                 \o <<Mensaje("ERROR_ESPACIO_INSUFICIENTE")>>)
    BY <1>9, Zenon DEF ProcesarSet, k, vieja, otras
  <2> DEFINE avisos == [p \in DOMAIN victimas |-> Eliminada(victimas[p])]
             quedan == contenido[i] \ (Range(victimas) \cup {k})
  <2>5. avisos \in Seq(MensajesDeInst)
    <3>1. PICK S \in SUBSET otras : victimas \in [1..Cardinality(S) -> S]
      BY DEF SetToAllKPermutations, SetToSeqs
    <3>2. Cardinality(S) \in Nat
      <4>1. IsFiniteSet(S)
        BY <2>3, ClavesAssumption, FS_Subset
      <4>2. QED
        BY <4>1, FS_CardinalityType
    <3>3. avisos \in [1..Cardinality(S) -> MensajesDeInst]
      BY <1>6, <2>3, <3>1
    <3>4. QED
      BY <3>2, <3>3, IsASeq
  <2> HIDE DEF avisos, quedan
  <2>6. /\ vieja \o avisos \o <<Mensaje("SET_OK")>> \in Seq(MensajesDeInst)
        /\ vieja \o avisos \o <<Mensaje("ERROR_ESPACIO_INSUFICIENTE")>>
             \in Seq(MensajesDeInst)
    BY <1>5, <2>2, <2>5, ConcatProperties
  <2>7. deInst' \in [Instancias -> Seq(MensajesDeInst)]
    BY <1>4, <2>4, <2>6, Zenon DEF avisos, quedan
  <2>8. contenido' \in [Instancias -> SUBSET Claves]
    <3>1. /\ quedan \in SUBSET Claves
          /\ quedan \cup {k} \in SUBSET Claves
      BY <2>1 DEF quedan, InstTypeOK
    <3>2. \/ contenido' = [contenido EXCEPT ![i] = quedan \cup {k}]
          \/ contenido' = [contenido EXCEPT ![i] = quedan]
      BY <2>4, Zenon DEF quedan
    <3>3. QED
      BY <3>1, <3>2 DEF InstTypeOK
  <2>9. fragmentaciones' \in 0..MaxFragmentaciones
    <3>1. \/ fragmentaciones' = fragmentaciones
          \/ /\ fragmentaciones < MaxFragmentaciones
             /\ fragmentaciones' = fragmentaciones + 1
      BY <2>4, Zenon
    <3>2. QED
      BY <3>1, MaxFragmentacionesAssumption DEF InstTypeOK
  <2>10. UNCHANGED <<archivos, viva, listas, canalesDeOtros>>
    BY <1>9, Zenon DEF ProcesarSet
  <2>11. QED
    BY <1>1, <2>1, <2>7, <2>8, <2>9, <2>10 DEF InstTypeOK, CanalesTypeOK
<1>10. CASE ProcesarSetDefinitivo(i)
  <2>1. deInst' \in [Instancias -> Seq(MensajesDeInst)]
    BY <1>4, <1>5, <1>10, Zenon DEF ProcesarSetDefinitivo
  <2>2. /\ contenido' \in [Instancias -> SUBSET Claves]
        /\ aInst' \in [Instancias -> Seq(MensajesAInst)]
    BY <1>2, <1>3, <1>10 DEF ProcesarSetDefinitivo, InstTypeOK
  <2>3. UNCHANGED <<archivos, viva, listas, fragmentaciones, canalesDeOtros>>
    BY <1>10, Zenon DEF ProcesarSetDefinitivo
  <2>4. QED
    BY <1>1, <2>1, <2>2, <2>3 DEF InstTypeOK, CanalesTypeOK
<1>11. CASE ProcesarStore(i)
  <2> DEFINE k == Head(aInst[i]).clave
  <2>1. k \in Claves /\ aInst' \in [Instancias -> Seq(MensajesAInst)]
    BY <1>2, <1>3, <1>11 DEF ProcesarStore
  <2>2. CASE /\ archivos' = [archivos EXCEPT ![i] = @ \cup {k}]
             /\ Contesta(i, <<Mensaje("STORE_OK")>>)
             /\ UNCHANGED <<contenido, viva, listas, fragmentaciones>>
    BY <1>1, <1>4, <1>5, <1>11, <2>1, <2>2
    DEF ProcesarStore, InstTypeOK, CanalesTypeOK
  <2>3. CASE Cae(i)
    BY <1>1, <1>7, <1>11, <2>1, <2>3 DEF ProcesarStore, InstTypeOK, CanalesTypeOK
  <2>4. QED
    BY <1>11, <2>2, <2>3, Zenon DEF ProcesarStore
<1>12. CASE ProcesarCompactacion(i)
  BY <1>1, <1>2, <1>4, <1>5, <1>12
  DEF ProcesarCompactacion, varsInst, InstTypeOK, CanalesTypeOK
<1>13. CASE ConectarInstancia(i)
  <2>1. deInst' \in [Instancias -> Seq(MensajesDeInst)]
    BY <1>5, <1>13, EnviadoTipo DEF ConectarInstancia, CanalesTypeOK
  <2>2. QED
    BY <1>1, <1>13, <2>1 DEF ConectarInstancia, InstTypeOK, CanalesTypeOK
<1>14. CASE Dump(i)
  BY <1>1, <1>14 DEF Dump, InstTypeOK, CanalesTypeOK, canales
<1>15. CASE MatarInstancia(i)
  BY <1>1, <1>7, <1>15 DEF MatarInstancia, InstTypeOK, CanalesTypeOK
<1>16. CASE ProcesarSolicitudValor(i)
  <2>1. contenido' \in [Instancias -> SUBSET Claves]
    BY <1>1, <1>16, Zenon DEF ProcesarSolicitudValor, InstTypeOK
  <2>2. QED
    BY <1>1, <1>2, <1>4, <1>5, <1>16, <2>1
    DEF ProcesarSolicitudValor, InstTypeOK, CanalesTypeOK
<1>17. CASE AtenderSinTablas(i)
  BY <1>1, <1>2, <1>7, <1>17 DEF AtenderSinTablas, InstTypeOK, CanalesTypeOK
<1>18. QED
  BY <1>8, <1>9, <1>10, <1>11, <1>12, <1>13, <1>14, <1>15, <1>16, <1>17
  DEF ProcesoInstancia, PasoInstancia, EntornoInstancia

(* A step that changes nothing *)
LEMMA TiposQuieto == ASSUME Tipos, UNCHANGED vars PROVE Tipos'
BY DEF Tipos, TypeOK, PlanTypeOK, FlagsTypeOK, EsiTypeOK, CoordTypeOK, InstTypeOK,
       CanalesTypeOK, PedidosEnCurso, ActualEnCurso, vars, varsPlan, varsEsi,
       varsCoord, varsInst, canales, tablas, flags

(* Every step of the system preserves Tipos, one thread or process at a time. *)
LEMMA TiposNext == ASSUME Tipos, [Next]_vars PROVE Tipos'
<1>1. CASE HiloAlgoritmos
  BY <1>1, TiposAlgoritmos
<1>2. CASE HiloCoordinador
  BY <1>2, TiposCoordinador
<1>3. CASE HiloDePlan
  BY <1>3, TiposHiloDePlan
<1>4. ASSUME NEW e \in ESIs, PasoDeEsi(e) PROVE Tipos'
  BY <1>4, TiposServidor, TiposEsi, TiposHiloDeEsi DEF PasoDeEsi
<1>5. ASSUME NEW i \in Instancias, PasoDeInstancia(i) PROVE Tipos'
  BY <1>5, TiposHiloDeInst, TiposInstancia DEF PasoDeInstancia
<1>6. CASE UNCHANGED vars
  BY <1>6, TiposQuieto
<1>7. QED
  BY <1>1, <1>2, <1>3, <1>4, <1>5, <1>6 DEF Next

(* Tipos is an invariant.                                                    *)
LEMMA TiposSiempre == Spec => []Tipos
<1>1. Init => Tipos
  BY TiposInit
<1>2. Tipos /\ [Next]_vars => Tipos'
  BY TiposNext
<1>3. QED
  BY <1>1, <1>2, PTL DEF Spec

(***************************************************************************)
(* Every variable and every connection of the system keeps its type,       *)
(* whatever dies: no semaphore of the planner or of the coordinator goes   *)
(* below zero, and a packet is read by a process that knows it.            *)
(***************************************************************************)
THEOREM TiposCorrectos == Spec => []TypeOK
<1>1. Tipos => TypeOK
  BY DEF Tipos
<1>2. QED
  BY <1>1, TiposSiempre, PTL

-----------------------------------------------------------------------------
(* The tables of the planner *)

(* The steps that change g_bloq or g_clavesTomadas. *)
CambiaTablas ==
  \/ RecibeGET \/ RecibeSET \/ RecibeSTORE \/ RecibeError \/ Bloquea
  \/ \E e \in ESIs : DesconectaESI(e) \/ LiberaESI(e)

(* No other step of any process touches the tables of keys of the planner.   *)
LEMMA TablasQuietas ==
  ASSUME [Next]_vars PROVE CambiaTablas \/ UNCHANGED <<enBloq, cola, tomadas>>
<1>1. CASE HiloAlgoritmos
  BY <1>1, Zenon
  DEF HiloAlgoritmos, PasoAlgoritmos, TomaEntrada, Elige, Pide, EsperaContinua,
      Sale, Despide, Desaloja, DejaBloqueado, Cierra, CambiaTablas, tablas
<1>2. CASE HiloCoordinador
  BY <1>2, Zenon DEF HiloCoordinador, PasoCoordinador, CambiaTablas
<1>3. ASSUME NEW e \in ESIs, HiloServidor(e)
      PROVE  CambiaTablas \/ UNCHANGED <<enBloq, cola, tomadas>>
  BY <1>3, Zenon
  DEF HiloServidor, PasoServidor, RecibeNombre, RecibeTermino, CambiaTablas, tablas
<1>4. CASE UNCHANGED varsPlan
  BY <1>4, Zenon DEF varsPlan, tablas
<1>5. QED
  BY <1>1, <1>2, <1>3, <1>4, Zenon
  DEF Next, PasoDeEsi, PasoDeInstancia, HiloDePlan, ProcesoEsi, MuereEsi,
      EsiSinPlanificador, HiloDeEsi, HiloDeInst, ProcesoInstancia,
      EntornoInstancia, vars

(* Only a GET gives a key away, and only one that nobody has or waits for.  *)
LEMMA TomadasCrecenConGET ==
  ASSUME Tipos, CambiaTablas
  PROVE  \/ \A n \in Nombres : tomadas'[n] \subseteq tomadas[n]
         \/ \E n \in Nombres, k \in Claves :
              /\ ~ClaveOcupada(k, n)
              /\ tomadas' = [tomadas EXCEPT ![n] = @ \cup {k}]
              /\ UNCHANGED <<enBloq, cola>>
<1> USE DEF Tipos, TypeOK, PlanTypeOK
<1>1. NombresLeidos \subseteq Nombres
  BY DEF NombresLeidos, Nombres
<1>2. \A n, x \in Nombres : SinClaves(n)[x] \subseteq tomadas[x]
  BY DEF SinClaves
<1>3. \A n, x \in Nombres : \A k : ClaveLiberada(n, k)[x] \subseteq tomadas[x]
  BY DEF ClaveLiberada
<1>4. CASE RecibeGET
  <2>1. PICK n \in NombresLeidos :
          LET k == Head(coordAPlan).clave
          IN UNCHANGED tomadas \/ /\ ~ClaveOcupada(k, n)
                                  /\ tomadas' = [tomadas EXCEPT ![n] = @ \cup {k}]
    BY <1>4, Zenon DEF RecibeGET
  <2>2. Head(coordAPlan).clave \in Claves
    <3>1. Head(coordAPlan) \in MensajesCoordAPlan /\ Head(coordAPlan).op = "GET"
      BY <1>4, HeadTailProperties DEF RecibeGET, LlegaOp, CanalesTypeOK
    <3>2. QED
      BY <3>1 DEF MensajesCoordAPlan
  <2>3. UNCHANGED <<enBloq, cola>>
    BY <1>4, Zenon DEF RecibeGET
  <2>4. QED
    BY <1>1, <2>1, <2>2, <2>3
<1>5. CASE RecibeSET \/ RecibeSTORE \/ RecibeError
  <2>1. \/ tomadas' = tomadas
        \/ \E n \in NombresLeidos : \E k : tomadas' \in {SinClaves(n), ClaveLiberada(n, k)}
    BY <1>5, Zenon DEF RecibeSET, RecibeSTORE, RecibeError, Aborta
  <2>2. QED
    BY <1>1, <1>2, <1>3, <2>1
<1>6. CASE Bloquea
  BY <1>6, Zenon DEF Bloquea
<1>7. CASE \E e \in ESIs : DesconectaESI(e) \/ LiberaESI(e)
  <2>1. tomadas' = tomadas \/ \E n \in Nombres : tomadas' = SinClaves(n)
    <3>1. PICK e \in ESIs : DesconectaESI(e) \/ LiberaESI(e)
      BY <1>7
    <3>2. ESIs \subseteq Nombres
      BY DEF Nombres
    <3>3. QED
      BY <1>1, <3>1, <3>2, Zenon
      DEF DesconectaESI, LiberaESI, LiberaNombre, QuitaListo, QuitaDeLista,
          QuitaClave, LiberaClaves, tablas
  <2>2. QED
    BY <1>2, <2>1
<1>8. QED
  BY <1>4, <1>5, <1>6, <1>7 DEF CambiaTablas

(***************************************************************************)
(* A key is never in the hands of two ESIs, under either planning          *)
(* algorithm, with any number of ESIs, of keys, preset ones included, and  *)
(* of instances, whatever dies.                                            *)
(***************************************************************************)
THEOREM ExclusionSiempre == Spec => []ExclusionClaves
<1>1. Init => ExclusionClaves
  BY DEF Init, PlanInit, ExclusionClaves
<1>2. Tipos /\ ExclusionClaves /\ [Next]_vars => ExclusionClaves'
  <2> SUFFICES ASSUME Tipos, ExclusionClaves, [Next]_vars PROVE ExclusionClaves'
    OBVIOUS
  <2> USE DEF ExclusionClaves
  <2>1. CASE UNCHANGED tomadas
    BY <2>1
  <2>2. CASE \A n \in Nombres : tomadas'[n] \subseteq tomadas[n]
    BY <2>2
  <2>3. ASSUME NEW n \in Nombres, NEW k \in Claves, ~ClaveOcupada(k, n),
               tomadas' = [tomadas EXCEPT ![n] = @ \cup {k}]
        PROVE  ExclusionClaves'
    BY <2>3 DEF ClaveOcupada, TomadaPorOtro, Tipos, TypeOK, PlanTypeOK
  <2>4. QED
    BY <2>1, <2>2, <2>3, TablasQuietas, TomadasCrecenConGET
<1>3. QED
  BY <1>1, <1>2, TiposSiempre, PTL DEF Spec

(* The keys of g_bloq nobody waits for, but the one liberarESI will remove.  *)
Vacias == {k \in enBloq : cola[k] = <<>>}
Pendientes == Vacias \ {libera.vacia}

(* How g_bloq changes: a list is made longer, served, left, or removed.      *)
CambiaBloq ==
  \/ /\ \/ UNCHANGED <<enBloq, cola>>
        \/ \E k \in Claves, e \in ESIs :
             /\ cola' = [cola EXCEPT ![k] = Append(@, e)]
             /\ enBloq' = enBloq \cup {k}
        \/ \E k \in Claves : k \in enBloq /\ cola[k] # <<>> /\ DesbloqueaESI(k)
     /\ UNCHANGED libera
  \/ \E e \in ESIs : DesconectaESI(e) \/ LiberaESI(e)

(* Every step of the system changes it so, or not at all.                     *)
LEMMA CambiosDeBloq ==
  ASSUME Tipos, [Next]_vars
  PROVE  CambiaBloq \/ UNCHANGED <<enBloq, cola, libera>>
<1>1. CASE RecibeGET \/ RecibeSET \/ RecibeError
  BY <1>1, Zenon DEF RecibeGET, RecibeSET, RecibeError
<1>2. CASE RecibeSTORE
  <2>1. /\ \/ UNCHANGED <<enBloq, cola>>
           \/ \E k : k \in enBloq /\ cola[k] # <<>> /\ DesbloqueaESI(k)
        /\ UNCHANGED libera
    BY <1>2, Zenon DEF RecibeSTORE
  <2>2. enBloq \subseteq Claves
    BY DEF Tipos, TypeOK, PlanTypeOK
  <2>3. QED
    BY <2>1, <2>2 DEF CambiaBloq
<1>3. CASE HiloAlgoritmos
  <2>0. UNCHANGED libera
    BY <1>3, Zenon
    DEF HiloAlgoritmos, PasoAlgoritmos, TomaEntrada, Elige, Pide, EsperaContinua,
        Sale, Bloquea, Despide, Desaloja, DejaBloqueado, Cierra
  <2>1. CASE Bloquea /\ claveGET # Nada
    <3>1. /\ cola' = [cola EXCEPT ![claveGET] = Append(@, actual)]
          /\ enBloq' = enBloq \cup {claveGET}
      BY <2>1, Zenon DEF Bloquea, Encolado
    <3>2. claveGET \in Claves /\ actual \in ESIs
      BY <2>1 DEF Bloquea, Tipos, TypeOK, PlanTypeOK, ActualEnCurso
    <3>3. QED
      BY <2>0, <3>1, <3>2, Zenon DEF CambiaBloq
  <2>2. CASE ~(Bloquea /\ claveGET # Nada)
    <3>1. UNCHANGED <<enBloq, cola>>
      BY <1>3, <2>2, Zenon
      DEF HiloAlgoritmos, PasoAlgoritmos, TomaEntrada, Elige, Pide, EsperaContinua,
          Sale, Bloquea, Despide, Desaloja, DejaBloqueado, Cierra, tablas
    <3>2. QED
      BY <2>0, <3>1
  <2>3. QED
    BY <2>1, <2>2
<1>4. ASSUME NEW e \in ESIs, HiloServidor(e)
      PROVE  CambiaBloq \/ UNCHANGED <<enBloq, cola, libera>>
  BY <1>4, Zenon
  DEF HiloServidor, PasoServidor, RecibeNombre, RecibeTermino, CambiaBloq, tablas
<1>5. CASE UNCHANGED varsPlan
  BY <1>5, Zenon DEF varsPlan, tablas
<1>6. QED
  BY <1>1, <1>2, <1>3, <1>4, <1>5, Zenon
  DEF Next, HiloCoordinador, PasoCoordinador, PasoDeEsi, PasoDeInstancia,
      HiloDePlan, ProcesoEsi, MuereEsi, EsiSinPlanificador, HiloDeEsi, HiloDeInst,
      ProcesoInstancia, EntornoInstancia, vars

(* What is left of the list of a key when liberarESI goes through it.        *)
LEMMA BloqAlLiberar ==
  ASSUME Tipos, SinBloqSinCola, NEW e \in ESIs, DesconectaESI(e) \/ LiberaESI(e)
  PROVE  SinBloqSinCola' /\ Pendientes' \subseteq Pendientes
<1> USE DEF SinBloqSinCola, Vacias, Pendientes
<1>0. cola \in [Claves -> Seq(ESIs)] /\ enBloq \subseteq Claves
      /\ libera \in Liberaciones
  BY DEF Tipos, TypeOK, PlanTypeOK
<1>1. CASE DesconectaESI(e) \/ LiberaNombre(e) \/ QuitaListo(e) \/ LiberaClaves(e)
  <2>1. UNCHANGED <<enBloq, cola>>
    BY <1>1, Zenon DEF DesconectaESI, LiberaNombre, QuitaListo, LiberaClaves, tablas
  <2>2. libera.vacia = Nada
    <3>1. ASSUME libera = Ocioso PROVE libera.vacia = Nada
      BY <3>1 DEF Ocioso, Liberacion
    <3>2. ASSUME libera.paso \in {"listo", "quita"} PROVE libera.vacia = Nada
      <4>1. libera # Ocioso
        BY <3>2 DEF Ocioso, Liberacion
      <4>2. libera \notin [paso: {"bloqueados"}, esi: ESIs, quedan: SUBSET Claves,
                           vacia: Claves \cup {Nada}, hallado: BOOLEAN]
        BY <3>2
      <4>3. libera \in [paso: {"listo", "quita"}, esi: ESIs, quedan: {{}},
                        vacia: {Nada}, hallado: {TRUE}]
        BY <1>0, <4>1, <4>2, Zenon DEF Liberaciones
      <4>4. QED
        BY <4>3
    <3>3. QED
      BY <1>1, <3>1, <3>2
      DEF DesconectaESI, LiberaNombre, QuitaListo, LiberaClaves
  <2>3. Nada \notin Claves
    BY NadaAssumption
  <2>4. QED
    BY <1>0, <2>1, <2>2, <2>3
<1>2. ASSUME NEW k \in Claves, QuitaDeLista(e, k)
      PROVE  SinBloqSinCola' /\ Pendientes' \subseteq Pendientes
  <2>1. libera.vacia = Nada /\ enBloq' = enBloq
    BY <1>2, Zenon DEF QuitaDeLista
  <2>2. Pendientes = Vacias
    BY <1>0, <2>1, NadaAssumption
  <2>3. CASE cola' = cola
    BY <1>0, <2>1, <2>2, <2>3
  <2>4. CASE /\ k \in enBloq
             /\ cola' = [cola EXCEPT ![k] = RemoveFirst(@, e)]
             /\ libera'.vacia = IF RemoveFirst(cola[k], e) = <<>> THEN k ELSE Nada
    BY <1>0, <2>1, <2>2, <2>4
  <2>5. ASSUME k \in enBloq,
               libera' = [libera EXCEPT
                !.quedan = @ \ {k},
                !.vacia = IF RemoveFirst(cola[k], e) = <<>> THEN k ELSE Nada,
                !.hallado = @ \/ e \in Range(cola[k])]
        PROVE  libera'.vacia = IF RemoveFirst(cola[k], e) = <<>> THEN k ELSE Nada
    <3>1. DOMAIN libera = {"paso", "esi", "quedan", "vacia", "hallado"}
      BY <1>0 DEF Liberaciones, Ocioso, Liberacion
    <3>2. QED
      BY <2>5, <3>1
  <2>6. QED
    BY <1>2, <2>3, <2>4, <2>5, Zenon DEF QuitaDeLista
<1>3. CASE QuitaClave(e)
  <2>1. /\ enBloq' = enBloq \ {libera.vacia}
        /\ cola' = [cola EXCEPT ![libera.vacia] = <<>>]
    BY <1>3, Zenon DEF QuitaClave, SinLista
  <2>2. QED
    BY <1>0, <2>1
<1>4. QED
  BY <1>1, <1>2, <1>3 DEF LiberaESI

(* No list is left empty in g_bloq, and none is kept out of it.              *)
LEMMA BloqEnOrden ==
  ASSUME Tipos, SinBloqSinCola, CambiaBloq \/ UNCHANGED <<enBloq, cola, libera>>
  PROVE  SinBloqSinCola' /\ Pendientes' \subseteq Pendientes
<1> USE DEF SinBloqSinCola, Vacias, Pendientes
<1>0. cola \in [Claves -> Seq(ESIs)] /\ enBloq \subseteq Claves
  BY DEF Tipos, TypeOK, PlanTypeOK
<1>1. CASE UNCHANGED <<enBloq, cola, libera>>
  BY <1>1
<1>2. ASSUME NEW k \in Claves, NEW e \in ESIs, UNCHANGED libera,
             cola' = [cola EXCEPT ![k] = Append(@, e)], enBloq' = enBloq \cup {k}
      PROVE  SinBloqSinCola' /\ Pendientes' \subseteq Pendientes
  <2>1. Append(cola[k], e) # <<>>
    BY <1>0, AppendProperties
  <2>2. QED
    BY <1>0, <1>2, <2>1
<1>3. ASSUME NEW k \in Claves, k \in enBloq, cola[k] # <<>>, DesbloqueaESI(k),
             UNCHANGED libera
      PROVE  SinBloqSinCola' /\ Pendientes' \subseteq Pendientes
  <2>1. /\ cola' = [cola EXCEPT ![k] = Tail(@)]
        /\ enBloq' = IF Len(cola[k]) = 1 THEN enBloq \ {k} ELSE enBloq
    BY <1>3, Zenon DEF DesbloqueaESI
  <2>2. Tail(cola[k]) = <<>> <=> Len(cola[k]) = 1
    <3> DEFINE s == cola[k]
    <3>1. s \in Seq(ESIs) /\ s # <<>>
      BY <1>0, <1>3
    <3> HIDE DEF s
    <3>2. Tail(s) \in Seq(ESIs) /\ Len(Tail(s)) = Len(s) - 1 /\ Len(s) \in Nat
      BY <3>1, HeadTailProperties, LenProperties
    <3>3. Tail(s) = <<>> <=> Len(Tail(s)) = 0
      BY <3>2, EmptySeq
    <3>4. QED
      BY <3>2, <3>3 DEF s
  <2>3. QED
    BY <1>0, <1>3, <2>1, <2>2
<1>4. QED
  BY <1>1, <1>2, <1>3, BloqAlLiberar DEF CambiaBloq

(* What VacioSoloDePaso says, by its parts.                                  *)
LEMMA VacioPorPartes ==
  VacioSoloDePaso <=>
    /\ SinBloqSinCola
    /\ \A k \in Claves, n \in Nombres : ~(k \in Pendientes /\ k \in tomadas[n])
BY DEF VacioSoloDePaso, TomadaConLista, Vacias, Pendientes

(* Between two ends of ESIs, or with none, DesbloqueoSeguro follows.         *)
LEMMA SinLiberarEsSeguro ==
  ASSUME VacioSoloDePaso, libera.vacia \notin Claves PROVE DesbloqueoSeguro
BY DEF VacioSoloDePaso, DesbloqueoSeguro

(* Every step of the system keeps it.                                        *)
LEMMA VacioNext ==
  ASSUME Tipos, VacioSoloDePaso, [Next]_vars PROVE VacioSoloDePaso'
<1>1. /\ SinBloqSinCola
      /\ \A k \in Claves, n \in Nombres : ~(k \in Pendientes /\ k \in tomadas[n])
  BY VacioPorPartes
<1>2. SinBloqSinCola' /\ Pendientes' \subseteq Pendientes
  BY <1>1, CambiosDeBloq, BloqEnOrden
<1>3. \A k \in Claves, n \in Nombres : ~(k \in Pendientes' /\ k \in tomadas'[n])
  <2>1. CASE \A n \in Nombres : tomadas'[n] \subseteq tomadas[n]
    BY <1>1, <1>2, <2>1
  <2>2. ASSUME NEW n \in Nombres, NEW k \in Claves, ~ClaveOcupada(k, n),
               tomadas' = [tomadas EXCEPT ![n] = @ \cup {k}]
        PROVE  \A l \in Claves, m \in Nombres :
                 ~(l \in Pendientes' /\ l \in tomadas'[m])
    <3>1. k \notin Pendientes
      BY <2>2 DEF ClaveOcupada, Vacias, Pendientes
    <3>2. QED
      BY <1>1, <1>2, <2>2, <3>1 DEF Tipos, TypeOK, PlanTypeOK
  <2>3. QED
    BY <2>1, <2>2, TablasQuietas, TomadasCrecenConGET
<1>4. QED
  BY <1>2, <1>3 DEF VacioSoloDePaso, TomadaConLista, SinBloqSinCola, Vacias, Pendientes

(***************************************************************************)
(* The list of a key that is held and in g_bloq is empty only of the key   *)
(* liberarESI is about to remove: nobody else, whatever dies, can leave    *)
(* desbloquearESI a list to dereference NULL on.                           *)
(***************************************************************************)
THEOREM VacioSoloDePasoSiempre == Spec => []VacioSoloDePaso
<1>1. Init => VacioSoloDePaso
  BY DEF Init, PlanInit, VacioSoloDePaso, TomadaConLista, SinBloqSinCola
<1>2. Tipos /\ VacioSoloDePaso /\ [Next]_vars => VacioSoloDePaso'
  BY VacioNext
<1>3. QED
  BY <1>1, <1>2, TiposSiempre, PTL DEF Spec
=============================================================================
