---------------------------- MODULE VistaPruebas ----------------------------
(***************************************************************************)
(* Theorems about the coordinator and the instances while every SET finds  *)
(* room and nobody kills an instance: the list of keys of an instance is   *)
(* exactly what it has, and no STORE ends its process.                     *)
(***************************************************************************)
EXTENDS CoordinadorPruebas

(* Only what the program does ends the process of an instance, and all are  *)
(* connected before the first ESI.                                          *)
NadieMata == Mortales = {}
InstanciasListas == Instancias \subseteq Range(TablaInicial)

-----------------------------------------------------------------------------
(* The inductive invariant, on top of Protocolo *)

(* An instance that is listed a key has it or its eviction is on the way;   *)
(* the key of a SET that was done is not listed twice; a STORE is on its    *)
(* way only to an instance that has the key, which therefore never dies.    *)
VistaDe(a, d, c, l, t) ==
  /\ \A p \in DOMAIN d : d[p].tipo # "ENVIAR_ERROR"
  /\ IsInjective(l)
  /\ \A k \in Range(l) : k \in c \/ Avisada(d, k)
  /\ Hay(d, {"SET_OK"}) => t \in c /\ (t \in Range(l) => Avisada(d, t))
  /\ \A p \in DOMAIN a : a[p].tipo = "STORE" => a[p].clave \in c

Vista(i) ==
  VistaDe(aInst[i], deInst[i], contenido[i], claves[i], trabajo[i].clave)

(* No instance comes or goes.                                               *)
Conectadas ==
  /\ nulas = {}
  /\ \A i \in Instancias :
       viva[i] = TRUE /\ i \in listas /\ Presentandose(i) = FALSE

StoreConClave ==
  \A e \in ESIs : paso[e] = "enviaSTORE" => pedido[e].clave \in contenido[elegida[e]]

EnVista == StoreConClave /\ \A i \in Instancias : Vista(i)

Vistas == Conectadas /\ EnVista

-----------------------------------------------------------------------------
(* One packet at a time *)

(* What was announced still is, once the first packet is read.              *)
LEMMA AvisoSigue ==
  ASSUME NEW d \in Seq(MensajesDeInst), d # <<>>, NEW k, Avisada(d, k)
  PROVE  Avisada(Tail(d), k) \/ Head(d) = Eliminada(k)
<1> DEFINE b == Tail(d)
<1>1. /\ d[1] = Head(d)
      /\ \A p \in DOMAIN d :
           p = 1 \/ \E q \in DOMAIN b : p = q + 1 /\ d[p] = b[q]
  BY SinElPrimero
<1> HIDE DEF b
<1>2. Avisada(b, k) \/ Head(d) = Eliminada(k)
  BY <1>1 DEF Avisada
<1>3. QED
  BY <1>2 DEF b

(* Nothing is in the rest that was not in the queue.                        *)
LEMMA QuedaMenos ==
  ASSUME NEW d \in Seq(MensajesDeInst), d # <<>>
  PROVE  /\ \A tipos : Hay(Tail(d), tipos) => Hay(d, tipos)
         /\ \A p \in DOMAIN Tail(d) : \E q \in DOMAIN d : Tail(d)[p] = d[q]
<1> DEFINE b == Tail(d)
<1>1. \A p \in DOMAIN b : p + 1 \in DOMAIN d /\ b[p] = d[p + 1]
  BY SinElPrimero
<1> HIDE DEF b
<1>2. \A p \in DOMAIN b : \E q \in DOMAIN d : b[p] = d[q]
  BY <1>1
<1>3. \A tipos : Hay(b, tipos) => Hay(d, tipos)
  BY <1>2 DEF Hay
<1>4. QED
  BY <1>2, <1>3 DEF b

(* The coordinator reads STORE_OK.                                          *)
LEMMA VistaTrasOtro ==
  ASSUME NEW a, NEW d \in Seq(MensajesDeInst), NEW c, NEW l, NEW t,
         VistaDe(a, d, c, l, t), d # <<>>,
         Head(d).tipo \notin {"SET_OK", "ENVIAR_CLAVE_ELIMINADA"}
  PROVE  VistaDe(a, Tail(d), c, l, t)
<1> DEFINE r == Tail(d)
<1>1. /\ \A tipos : Hay(r, tipos) => Hay(d, tipos)
      /\ \A p \in DOMAIN r : \E q \in DOMAIN d : r[p] = d[q]
  BY QuedaMenos
<1>2. \A k : Avisada(d, k) => Avisada(r, k)
  BY AvisoSigue DEF Eliminada
<1> HIDE DEF r
<1>3. VistaDe(a, r, c, l, t)
  BY <1>1, <1>2 DEF VistaDe
<1>4. QED
  BY <1>3 DEF r

(* SET_OK: the key of the job was not listed yet.                           *)
LEMMA VistaTrasSetOk ==
  ASSUME NEW a \in Seq(MensajesAInst), NEW d \in Seq(MensajesDeInst),
         NEW v, NEW s, NEW c, NEW l \in Seq(Claves), NEW t \in Claves,
         EnlaceEnOrden(a, d, v, s, c, l, t), VistaDe(a, d, c, l, t),
         d # <<>>, Head(d).tipo = "SET_OK"
  PROVE  VistaDe(a, Tail(d), c, Append(l, t), t)
<1> DEFINE r == Tail(d)
           l2 == Append(l, t)
<1>1. /\ 1 \in DOMAIN d /\ d[1] = Head(d)
      /\ \A p \in DOMAIN d : p \in Nat \ {0}
  BY SinElPrimero, LenProperties
<1>2. Hay(d, {"SET_OK"})
  BY <1>1 DEF Hay
<1>3. \A p \in DOMAIN d : d[p].tipo \in DeRespuesta => p = 1
  BY <1>1 DEF EnlaceEnOrden, PaquetesBien, UnaVez, DeRespuesta
<1>4. \A k : ~Avisada(d, k)
  <2>1. SUFFICES ASSUME NEW p \in DOMAIN d, d[p].tipo = "ENVIAR_CLAVE_ELIMINADA"
                 PROVE  FALSE
    BY DEF Avisada, Eliminada
  <2>2. PICK q \in DOMAIN d : d[q].tipo = "SET_OK" /\ p < q
    BY <2>1 DEF EnlaceEnOrden, TrabajoBien
  <2>3. q = 1 /\ p \in Nat \ {0}
    BY <1>1, <1>3, <2>2 DEF DeRespuesta
  <2>4. QED
    BY <2>2, <2>3
<1>5. t \in c /\ t \notin Range(l) /\ \A k \in Range(l) : k \in c
  BY <1>2, <1>4 DEF VistaDe
<1>6. Range(l2) = Range(l) \cup {t}
  BY RangoConUno
<1>7. IsInjective(l2)
  <2>1. /\ Len(l2) \in DOMAIN l2 /\ l2[Len(l2)] = t
        /\ \A p \in DOMAIN l2 : p = Len(l2) \/ (p \in DOMAIN l /\ l2[p] = l[p])
    BY ConUnoAlFinal
  <2>2. \A p \in DOMAIN l : l[p] # t
    BY <1>5 DEF Range
  <2> HIDE DEF l2
  <2>3. QED
    BY <2>1, <2>2 DEF VistaDe, IsInjective
<1>8. /\ \A tipos : Hay(r, tipos) => Hay(d, tipos)
      /\ \A p \in DOMAIN r : \E q \in DOMAIN d : r[p] = d[q]
  BY QuedaMenos
<1>9. ~Hay(r, {"SET_OK"})
  <2>1. \A p \in DOMAIN r : p \in Nat \ {0} /\ p + 1 \in DOMAIN d /\ r[p] = d[p + 1]
    BY SinElPrimero
  <2> HIDE DEF r
  <2>2. QED
    BY <1>3, <2>1 DEF Hay, DeRespuesta
<1> HIDE DEF r, l2
<1>10. VistaDe(a, r, c, l2, t)
  BY <1>5, <1>6, <1>7, <1>8, <1>9 DEF VistaDe
<1>11. QED
  BY <1>10 DEF r, l2

(* ENVIAR_CLAVE_ELIMINADA takes the key off the list.                       *)
LEMMA VistaTrasEliminada ==
  ASSUME NEW a, NEW d \in Seq(MensajesDeInst), NEW c, NEW l \in Seq(Claves),
         NEW t, VistaDe(a, d, c, l, t), d # <<>>,
         Head(d).tipo = "ENVIAR_CLAVE_ELIMINADA"
  PROVE  VistaDe(a, Tail(d), c, RemoveFirst(l, Head(d).clave), t)
<1> DEFINE r == Tail(d)
           k == Head(d).clave
           l2 == RemoveFirst(l, k)
<1>1. Range(l2) \subseteq Range(l) /\ IsInjective(l2) /\ k \notin Range(l2)
  <2>1. /\ Range(l2) \subseteq Range(l)
        /\ IsInjective(l) => IsInjective(l2) /\ k \notin Range(l2)
    BY RangoSinUno
  <2>2. QED
    BY <2>1 DEF VistaDe
<1>2. \A x : Avisada(d, x) => Avisada(r, x) \/ x = k
  BY AvisoSigue DEF Eliminada
<1>3. /\ \A tipos : Hay(r, tipos) => Hay(d, tipos)
      /\ \A p \in DOMAIN r : \E q \in DOMAIN d : r[p] = d[q]
  BY QuedaMenos
<1> HIDE DEF r, k, l2
<1>4. VistaDe(a, r, c, l2, t)
  BY <1>1, <1>2, <1>3 DEF VistaDe
<1>5. QED
  BY <1>4 DEF r, k, l2

(* The instance takes a packet; what it still has to read it already had.   *)
LEMMA VistaSinPedido ==
  ASSUME NEW a \in Seq(MensajesAInst), a # <<>>
  PROVE  \A p \in DOMAIN Tail(a) : \E q \in DOMAIN a : q # 1 /\ Tail(a)[p] = a[q]
<1> DEFINE b == Tail(a)
<1>1. \A p \in DOMAIN b : p \in Nat \ {0} /\ p + 1 \in DOMAIN a /\ b[p] = a[p + 1]
  BY SinElPrimero
<1> HIDE DEF b
<1>2. \A p \in DOMAIN b : \E q \in DOMAIN a : q # 1 /\ b[p] = a[q]
  BY <1>1
<1>3. QED
  BY <1>2 DEF b

(* SET: the keys that go are announced; its own key will be listed again.   *)
LEMMA VistaTrasSet ==
  ASSUME NEW a \in Seq(MensajesAInst), NEW c, NEW l, NEW t,
         VistaDe(a, <<>>, c, l, t), a # <<>>, Head(a).tipo = "SET",
         Head(a).clave = t, UnaVez(a, DeSentencia), NEW quedan \in SUBSET c,
         t \notin quedan, NEW ms, RespuestaDeSet(ms, c, quedan)
  PROVE  VistaDe(Tail(a), ms, quedan \cup {t}, l, t)
<1> DEFINE b == Tail(a)
<1>1. 1 \in DOMAIN a /\ a[1] = Head(a)
  BY SinElPrimero
<1>2. \A p \in DOMAIN b : \E q \in DOMAIN a : q # 1 /\ b[p] = a[q]
  BY VistaSinPedido
<1> HIDE DEF b
<1>3. \A p \in DOMAIN b : b[p].tipo # "STORE"
  BY <1>1, <1>2 DEF UnaVez, DeSentencia
<1>4. \A p \in DOMAIN ms : ms[p].tipo # "ENVIAR_ERROR"
  BY DEF RespuestaDeSet, Mensaje, Eliminada
<1>5. \A x \in c \ quedan : Avisada(ms, x)
  BY DEF RespuestaDeSet
<1>6. \A x \in Range(l) : x \in c
  BY DEF VistaDe, Avisada
<1>7. IsInjective(l)
  BY DEF VistaDe
<1>8. VistaDe(b, ms, quedan \cup {t}, l, t)
  BY <1>3, <1>4, <1>5, <1>6, <1>7 DEF VistaDe
<1>9. QED
  BY <1>8 DEF b

(* STORE: the instance has the key, and says so.                            *)
LEMMA VistaTrasStore ==
  ASSUME NEW a \in Seq(MensajesAInst), NEW c, NEW l, NEW t,
         VistaDe(a, <<>>, c, l, t), a # <<>>, Head(a).tipo = "STORE"
  PROVE  /\ Head(a).clave \in c
         /\ VistaDe(Tail(a), <<Mensaje("STORE_OK")>>, c, l, t)
<1> DEFINE d == <<Mensaje("STORE_OK")>>
<1>1. 1 \in DOMAIN a /\ a[1] = Head(a)
  BY SinElPrimero
<1>2. \A p \in DOMAIN Tail(a) : \E q \in DOMAIN a : Tail(a)[p] = a[q]
  BY VistaSinPedido
<1>3. DOMAIN d = {1} /\ d[1].tipo = "STORE_OK"
  BY DEF Mensaje
<1> HIDE DEF d
<1>4. VistaDe(Tail(a), d, c, l, t)
  BY <1>2, <1>3 DEF VistaDe, Avisada, Hay
<1>5. QED
  BY <1>1, <1>4 DEF VistaDe, d

-----------------------------------------------------------------------------
(* The whole system, one process or thread at a time *)

(* Nothing is listed, and nothing is in memory, at first.                   *)
LEMMA VistasIniciales == InstanciasListas /\ Init => Vistas
<1> SUFFICES ASSUME InstanciasListas, Init PROVE Vistas
  OBVIOUS
<1>1. ASSUME NEW i \in Instancias PROVE Vista(i)
  <2>1. /\ aInst[i] = <<>> /\ deInst[i] = <<>> /\ contenido[i] = {}
        /\ claves[i] = <<>>
    BY <1>1 DEF Init, CanalesInit, CoordInit, InstInit
  <2>2. DOMAIN <<>> = {}
    OBVIOUS
  <2>3. QED
    BY <2>1, <2>2 DEF Vista, VistaDe, IsInjective, Range, Hay
<1>2. \A e \in ESIs : paso[e] # "enviaSTORE"
  BY DEF Init, CoordInit
<1>3. Conectadas
  <2>1. /\ nulas = {} /\ listas = Range(TablaInicial)
        /\ pasoInst = [i \in Instancias |-> "libre"]
        /\ viva = [i \in Instancias |-> i \in Range(TablaInicial)]
    BY Zenon DEF Init, CoordInit, InstInit
  <2>2. \A i \in Instancias : i \in Range(TablaInicial)
    BY DEF InstanciasListas
  <2>3. QED
    BY <2>1, <2>2 DEF Conectadas, Presentandose
<1>4. QED
  BY <1>1, <1>2, <1>3 DEF Vistas, EnVista, StoreConClave

(* The step is on one connection, and a STORE that was decided still can be *)
(* sent: an instance that is in the middle of a statement has none to wait. *)
LEMMA VistasEnUna ==
  ASSUME Tipos, Protocolo, Vistas, NEW i \in Instancias, Vista(i)',
         \A j \in Instancias \ {i} :
           /\ aInst'[j] = aInst[j] /\ deInst'[j] = deInst[j]
           /\ viva'[j] = viva[j] /\ contenido'[j] = contenido[j]
           /\ claves'[j] = claves[j],
         UNCHANGED <<trabajo, paso, pedido, elegida>>,
         contenido[i] \subseteq contenido'[i] \/ Ocupada(i)
  PROVE  EnVista'
<1>1. \A j \in Instancias \ {i} : Vista(j)'
  BY DEF Vistas, EnVista, Vista
<1>2. ASSUME NEW e \in ESIs, paso'[e] = "enviaSTORE"
      PROVE  pedido'[e].clave \in contenido'[elegida'[e]]
  <2>1. /\ paso[e] = "enviaSTORE" /\ pedido'[e] = pedido[e]
        /\ elegida'[e] = elegida[e]
    BY <1>2
  <2>2. elegida[e] \in Instancias
    BY <2>1 DEF Tipos, PedidosEnCurso
  <2>3. ~Ocupada(i)
    BY <2>1 DEF Protocolo, UnDueno
  <2>4. pedido[e].clave \in contenido[elegida[e]]
    BY <2>1 DEF Vistas, EnVista, StoreConClave
  <2>5. \A j \in Instancias : contenido[j] \subseteq contenido'[j]
    BY <2>3
  <2>6. QED
    BY <2>1, <2>2, <2>4, <2>5
<1>3. QED
  BY <1>1, <1>2 DEF EnVista, StoreConClave

(* Nothing Vistas speaks of changes, but for the threads of the ESIs.       *)
LEMMA VistasQuietas ==
  ASSUME Vistas, UNCHANGED varsProtocolo PROVE EnVista'
BY DEF Vistas, EnVista, Vista, StoreConClave, varsProtocolo, varsEnlaces

(* No instance is coming, or gone.                                          *)
LEMMA NadieVieneNiVa ==
  ASSUME Tipos, Protocolo, Vistas, NEW i \in Instancias
  PROVE  /\ ~RecibeNombreInstancia(i) /\ ~PresentaInstancia(i)
         /\ ~DesconectaInstancia(i) /\ ~ProcesarEnviarInfoInstancia(i)
         /\ ~AtenderSinTablas(i) /\ ~ConectarInstancia(i)
<1>1. /\ deInst[i] \in Seq(MensajesDeInst) /\ aInst[i] \in Seq(MensajesAInst)
      /\ viva[i] = TRUE /\ (i \in listas) = TRUE /\ Presentandose(i) = FALSE
      /\ Enlace(i) /\ Vista(i)
  BY TiposDeEnlace DEF Protocolo, Vistas, EnVista, Conectadas
<1>2. ~Hay(aInst[i], DeInfo) /\ ~Hay(deInst[i], DeNombre)
  BY <1>1 DEF Enlace, Presentada
<1>3. ASSUME NEW t, LlegaTipo(i, t) PROVE t \notin DeNombre \cup {"ENVIAR_ERROR"}
  <2>1. 1 \in DOMAIN deInst[i] /\ deInst[i][1].tipo = t
    BY <1>1, <1>3, SinElPrimero DEF LlegaTipo
  <2>2. QED
    BY <1>1, <1>2, <2>1 DEF Vista, VistaDe, Hay
<1>4. ASSUME NEW t, LlegaPedido(i, t) PROVE t \notin DeInfo
  <2>1. 1 \in DOMAIN aInst[i] /\ aInst[i][1].tipo = t
    BY <1>1, <1>4, SinElPrimero DEF LlegaPedido
  <2>2. QED
    BY <1>2, <2>1 DEF Hay
<1>5. ~RecibeNombreInstancia(i)
  BY <1>3 DEF RecibeNombreInstancia, DeNombre
<1>6. ~PresentaInstancia(i)
  BY <1>1 DEF PresentaInstancia
<1>7. ~DesconectaInstancia(i)
  BY <1>3 DEF DesconectaInstancia
<1>8. ~ProcesarEnviarInfoInstancia(i)
  BY <1>4 DEF ProcesarEnviarInfoInstancia, DeInfo
<1>9. ~AtenderSinTablas(i) /\ ~ConectarInstancia(i)
  BY <1>1, Zenon DEF AtenderSinTablas, ConectarInstancia
<1>10. QED
  BY <1>5, <1>6, <1>7, <1>8, <1>9

(* No statement goes to an instance without a connection.                   *)
LEMMA ConConexion ==
  ASSUME Vistas, NEW e \in ESIs PROVE ~EnviaSinConexion(e)
BY DEF Vistas, Conectadas, EnviaSinConexion

(* The threads of the instances                                             *)
LEMMA VistasHiloDeInst ==
  ASSUME Tipos, Protocolo, Vistas, NEW i \in Instancias, HiloDeInst(i)
  PROVE  EnVista'
<1>1. /\ aInst[i] \in Seq(MensajesAInst) /\ deInst[i] \in Seq(MensajesDeInst)
      /\ claves[i] \in Seq(Claves)
  BY TiposDeEnlace
<1>2. UNCHANGED <<contenido, viva>> /\ Enlace(i) /\ Vista(i)
  BY DEF HiloDeInst, varsInst, Protocolo, Vistas, EnVista
<1>3. CASE RecibeSetOk(i)
  <2>1. LlegaTipo(i, "SET_OK")
    BY <1>3 DEF RecibeSetOk
  <2>2. /\ deInst[i] # <<>> /\ Head(deInst[i]).tipo = "SET_OK"
        /\ deInst'[i] = Tail(deInst[i])
        /\ \A j \in Instancias \ {i} : deInst'[j] = deInst[j]
    BY <2>1, TomaElPrimero
  <2>3. trabajo[i].clave \in Claves
    BY <1>1, <1>2, <2>2, EnlaceTrasSetOk DEF Enlace
  <2>4. trabajo[i] # SinTrabajo
    BY <2>3, NadaAssumption DEF SinTrabajo
  <2>5. /\ claves' = ClaveAgregada(i, trabajo[i].clave)
        /\ UNCHANGED <<paso, pedido, elegida, trabajo, aInst>>
    BY <1>3, <2>4, Zenon DEF RecibeSetOk, varsPeticion, varsHiloEsi
  <2>6. /\ claves'[i] = Append(claves[i], trabajo[i].clave)
        /\ \A j \in Instancias \ {i} : claves'[j] = claves[j]
    BY <2>5 DEF ClaveAgregada, Tipos, TypeOK, CoordTypeOK
  <2>7. VistaDe(aInst[i], Tail(deInst[i]), contenido[i],
                Append(claves[i], trabajo[i].clave), trabajo[i].clave)
    BY <1>1, <1>2, <2>2, <2>3, VistaTrasSetOk DEF Enlace, Vista
  <2>8. Vista(i)'
    BY <1>2, <2>2, <2>5, <2>6, <2>7 DEF Vista
  <2>9. QED
    BY <1>2, <2>2, <2>5, <2>6, <2>8, VistasEnUna
<1>4. CASE RecibeStoreOk(i)
  <2>1. LlegaTipo(i, "STORE_OK")
    BY <1>4 DEF RecibeStoreOk
  <2>2. /\ deInst[i] # <<>> /\ Head(deInst[i]).tipo = "STORE_OK"
        /\ deInst'[i] = Tail(deInst[i])
        /\ \A j \in Instancias \ {i} : deInst'[j] = deInst[j]
    BY <2>1, TomaElPrimero
  <2>3. UNCHANGED <<paso, pedido, elegida, claves, trabajo, aInst>>
    BY <1>4, Zenon DEF RecibeStoreOk, varsPeticion, varsHiloEsi, varsTabla
  <2>4. VistaDe(aInst[i], Tail(deInst[i]), contenido[i], claves[i],
                trabajo[i].clave)
    BY <1>1, <1>2, <2>2, VistaTrasOtro DEF Vista
  <2>5. Vista(i)'
    BY <1>2, <2>2, <2>3, <2>4 DEF Vista
  <2>6. QED
    BY <1>2, <2>2, <2>3, <2>5, VistasEnUna
<1>5. CASE RecibeClaveEliminada(i)
  <2> DEFINE k == Head(deInst[i]).clave
  <2>1. LlegaTipo(i, "ENVIAR_CLAVE_ELIMINADA")
    BY <1>5 DEF RecibeClaveEliminada
  <2>2. /\ deInst[i] # <<>> /\ Head(deInst[i]).tipo = "ENVIAR_CLAVE_ELIMINADA"
        /\ deInst'[i] = Tail(deInst[i])
        /\ \A j \in Instancias \ {i} : deInst'[j] = deInst[j]
    BY <2>1, TomaElPrimero
  <2>3. /\ claves' = ClaveQuitada(i, k)
        /\ UNCHANGED <<paso, pedido, elegida, trabajo, aInst>>
    BY <1>5, Zenon DEF RecibeClaveEliminada, varsPeticion, varsHiloEsi
  <2>4. VistaDe(aInst[i], Tail(deInst[i]), contenido[i],
                RemoveFirst(claves[i], k), trabajo[i].clave)
    BY <1>1, <1>2, <2>2, VistaTrasEliminada DEF Vista
  <2> HIDE DEF k
  <2>5. /\ claves'[i] = RemoveFirst(claves[i], k)
        /\ \A j \in Instancias \ {i} : claves'[j] = claves[j]
    BY <2>3 DEF ClaveQuitada, Tipos, TypeOK, CoordTypeOK
  <2>6. Vista(i)'
    BY <1>2, <2>2, <2>3, <2>4, <2>5 DEF Vista
  <2>7. QED
    BY <1>2, <2>2, <2>3, <2>5, <2>6, VistasEnUna
<1>6. QED
  BY <1>3, <1>4, <1>5, NadieVieneNiVa, LlegaAlHilo

(* An instance that takes a packet has answered all the others.             *)
LEMMA NadaPendiente ==
  ASSUME Tipos, NEW i \in Instancias, Enlace(i), viva[i], i \in listas, aInst[i] # <<>>
  PROVE  deInst[i] = <<>>
<1> DEFINE a == aInst[i]
           d == deInst[i]
           v == viva[i]
           s == disponible[i]
           c == contenido[i]
           l == claves[i]
           t == trabajo[i].clave
<1>1. /\ EnlaceEnOrden(a, d, v, s, c, l, t) /\ v /\ a # <<>>
      /\ a \in Seq(MensajesAInst) /\ d \in Seq(MensajesDeInst)
  BY TiposDeEnlace DEF Enlace
<1>2. ~Hay(a, DeInfo)
  BY DEF Enlace, Presentada
<1> HIDE DEF a, d, v, s, c, l, t
<1>3. PICK p \in DOMAIN a : a[p].tipo \notin DeInfo
  BY <1>1, <1>2, SinElPrimero DEF Hay
<1>4. d = <<>>
  BY <1>1, <1>3, TodoContestado
<1>5. QED
  BY <1>4 DEF d

(* The instance processes                                                   *)
LEMMA VistasProcesoInstancia ==
  ASSUME Tipos, SinCompactaciones, Protocolo, Vistas, NEW i \in Instancias,
         ProcesoInstancia(i)
  PROVE  EnVista' /\ UNCHANGED <<viva, listas>>
<1>1. /\ aInst[i] \in Seq(MensajesAInst) /\ deInst[i] \in Seq(MensajesDeInst)
      /\ claves[i] \in Seq(Claves)
  BY TiposDeEnlace
<1>2. /\ UNCHANGED <<disponible, claves, trabajo, paso, pedido, elegida>>
      /\ Enlace(i) /\ Vista(i) /\ i \in listas
  BY DEF ProcesoInstancia, varsCoord, Protocolo, Vistas, EnVista, Conectadas
<1>3. CASE ProcesarSet(i)
  <2> DEFINE k == Head(aInst[i]).clave
  <2>1. LlegaPedido(i, "SET") /\ k \in Claves
    BY <1>3, HaceSet
  <2>2. PICK quedan \in SUBSET contenido[i], ms \in Seq(MensajesDeInst) :
          /\ k \notin quedan
          /\ RespuestaDeSet(ms, contenido[i], quedan)
          /\ contenido' = [contenido EXCEPT ![i] = quedan \cup {k}]
          /\ Contesta(i, ms)
    BY <1>3, HaceSet
  <2>3. UNCHANGED <<viva, listas>>
    BY <1>3, Zenon DEF ProcesarSet
  <2>4. /\ viva[i] /\ aInst[i] # <<>> /\ Head(aInst[i]).tipo = "SET"
        /\ aInst'[i] = Tail(aInst[i])
        /\ \A j \in Instancias \ {i} : aInst'[j] = aInst[j]
    BY <2>1, TomaElPedido
  <2>5. /\ Hay(aInst[i], DeSentencia) /\ UnaVez(aInst[i], DeSentencia)
        /\ k = trabajo[i].clave
    <3>1. 1 \in DOMAIN aInst[i] /\ aInst[i][1] = Head(aInst[i])
      BY <1>1, <2>4, SinElPrimero
    <3>2. QED
      BY <1>2, <2>4, <3>1
      DEF Enlace, EnlaceEnOrden, PaquetesBien, TrabajoBien, Hay, DeSentencia
  <2>6. Ocupada(i)
    BY <2>5 DEF Ocupada, Ocupa
  <2>7. deInst[i] = <<>>
    BY <1>2, <2>4, NadaPendiente
  <2>8. VistaDe(Tail(aInst[i]), ms, quedan \cup {k}, claves[i],
                trabajo[i].clave)
    <3> DEFINE a == aInst[i]
               c == contenido[i]
               l == claves[i]
               t == trabajo[i].clave
    <3>1. /\ a \in Seq(MensajesAInst) /\ VistaDe(a, <<>>, c, l, t)
          /\ a # <<>> /\ Head(a).tipo = "SET" /\ Head(a).clave = t
          /\ UnaVez(a, DeSentencia) /\ quedan \in SUBSET c /\ t \notin quedan
          /\ RespuestaDeSet(ms, c, quedan)
      BY <1>1, <1>2, <2>2, <2>4, <2>5, <2>7 DEF Vista
    <3>2. k = t
      BY <2>5
    <3> HIDE DEF a, c, l, t, k
    <3>3. VistaDe(Tail(a), ms, quedan \cup {t}, l, t)
      BY <3>1, VistaTrasSet
    <3>4. QED
      BY <3>2, <3>3 DEF a, c, l, t
  <2> HIDE DEF k
  <2>9. /\ contenido'[i] = quedan \cup {k}
        /\ \A j \in Instancias \ {i} : contenido'[j] = contenido[j]
    BY <2>2 DEF Tipos, TypeOK, InstTypeOK
  <2>10. /\ deInst'[i] = ms
         /\ \A j \in Instancias \ {i} : deInst'[j] = deInst[j]
    BY <2>2, <2>7, ContestaEn, ContestaTrasNada
  <2>11. Vista(i)'
    BY <1>2, <2>3, <2>4, <2>8, <2>9, <2>10 DEF Vista
  <2>12. QED
    BY <1>2, <2>3, <2>4, <2>6, <2>9, <2>10, <2>11, VistasEnUna
<1>4. CASE ProcesarStore(i)
  <2>1. LlegaPedido(i, "STORE")
    BY <1>4, Zenon DEF ProcesarStore
  <2>2. /\ viva[i] /\ aInst[i] # <<>> /\ Head(aInst[i]).tipo = "STORE"
        /\ aInst'[i] = Tail(aInst[i])
        /\ \A j \in Instancias \ {i} : aInst'[j] = aInst[j]
    BY <2>1, TomaElPedido
  <2>3. deInst[i] = <<>>
    BY <1>2, <2>2, NadaPendiente
  <2>4. /\ Head(aInst[i]).clave \in contenido[i]
        /\ VistaDe(Tail(aInst[i]), <<Mensaje("STORE_OK")>>,
                   contenido[i], claves[i], trabajo[i].clave)
    <3> DEFINE a == aInst[i]
               c == contenido[i]
               l == claves[i]
               t == trabajo[i].clave
    <3>1. /\ a \in Seq(MensajesAInst) /\ VistaDe(a, <<>>, c, l, t)
          /\ a # <<>> /\ Head(a).tipo = "STORE"
      BY <1>1, <1>2, <2>2, <2>3 DEF Vista
    <3> HIDE DEF a, c, l, t
    <3>2. /\ Head(a).clave \in c
          /\ VistaDe(Tail(a), <<Mensaje("STORE_OK")>>, c, l, t)
      BY <3>1, VistaTrasStore
    <3>3. QED
      BY <3>2 DEF a, c, l, t
  <2>5. /\ Contesta(i, <<Mensaje("STORE_OK")>>)
        /\ UNCHANGED <<contenido, viva, listas>>
    BY <1>4, <2>4 DEF ProcesarStore
  <2>6. <<Mensaje("STORE_OK")>> \in Seq(MensajesDeInst)
    BY DEF Mensaje, MensajesDeInst
  <2>7. /\ deInst'[i] = <<Mensaje("STORE_OK")>>
        /\ \A j \in Instancias \ {i} : deInst'[j] = deInst[j]
    BY <2>3, <2>5, <2>6, ContestaEn, ContestaTrasNada
  <2>8. Vista(i)'
    BY <1>2, <2>2, <2>4, <2>5, <2>7 DEF Vista
  <2>9. QED
    BY <1>2, <2>2, <2>5, <2>7, <2>8, VistasEnUna
<1>5. QED
  BY <1>3, <1>4, NadieVieneNiVa, LlegaALaInstancia

(* They dump; nobody kills them.                                            *)
LEMMA VistasEntornoInstancia ==
  ASSUME Tipos, NadieMata, Protocolo, Vistas, NEW i \in Instancias,
         EntornoInstancia(i)
  PROVE  EnVista' /\ UNCHANGED <<viva, listas>>
<1>1. Dump(i) /\ UNCHANGED varsCoord
  <2>1. ~MatarInstancia(i) /\ ~ConectarInstancia(i)
    BY NadieVieneNiVa DEF MatarInstancia, NadieMata
  <2>2. QED
    BY <2>1 DEF EntornoInstancia
<1>2. UNCHANGED <<contenido, viva, listas, aInst, deInst>>
  BY <1>1, Zenon DEF Dump, canales
<1>3. UNCHANGED varsProtocolo
  BY <1>1, <1>2 DEF varsCoord, varsProtocolo, varsEnlaces
<1>4. QED
  BY <1>2, <1>3, VistasQuietas

-----------------------------------------------------------------------------
(* The threads of the ESIs *)

(* What a search of the table finds is what it searched for.                *)
LEMMA PrimeraDeEsUna ==
  ASSUME NEW T, NEW lista \in Seq(T), NEW S
  PROVE  PrimeraDe(lista, S) \in S \cup {Nada}
<1>1. CASE PosicionesDe(lista, S) = {}
  BY <1>1, Zenon DEF PrimeraDe
<1>2. QED
  BY <1>1, PrimeraDeAlguna

(* The other threads of the ESIs have nothing under way.                    *)
LEMMA VistasEnSuTurno ==
  ASSUME Tipos, Protocolo, NEW e \in ESIs, peticion > 0 \/ paso[e] # "libre",
         \A f \in ESIs \ {e} : paso'[f] = paso[f],
         paso'[e] = "enviaSTORE" => pedido'[e].clave \in contenido'[elegida'[e]],
         \A i \in Instancias : Vista(i)'
  PROVE  EnVista'
<1>1. \A f \in ESIs : f # e => paso[f] = "libre"
  BY SuTurno
<1>2. \A f \in ESIs : paso'[f] = "enviaSTORE" => f = e
  BY <1>1
<1>3. StoreConClave'
  BY <1>2 DEF StoreConClave
<1>4. QED
  BY <1>3 DEF EnVista

(* While no statement is in an instance, it has the keys it is listed.      *)
LEMMA ListadaEstaEn ==
  ASSUME NEW i \in Instancias, Enlace(i), Vista(i), ~Ocupada(i),
         NEW k \in Range(claves[i])
  PROVE  k \in contenido[i]
<1>1. ~Hay(deInst[i], DeRespuesta)
  BY DEF Ocupada, Ocupa
<1>2. ~Avisada(deInst[i], k)
  BY <1>1
  DEF Enlace, EnlaceEnOrden, TrabajoBien, Hay, DeRespuesta, Avisada, Eliminada
<1>3. QED
  BY <1>2 DEF Vista, VistaDe

(* EnviaAInstancia: a STORE goes to an instance that has the key.           *)
LEMMA VistasEnvia ==
  ASSUME Tipos, Protocolo, Vistas, NEW e \in ESIs, EnviaAInstancia(e), HiloDeEsi(e)
  PROVE  EnVista'
<1>1. paso[e] \in {"enviaSET", "enviaSTORE"}
  BY DEF EnviaAInstancia
<1>2. elegida[e] \in Instancias /\ pedido[e] \in [op : {"SET", "STORE"}, clave : Claves]
  BY <1>1 DEF Tipos, PedidosEnCurso
<1>3. PICK i \in Instancias : i = elegida[e]
  BY <1>2
<1>4. PICK m \in MensajesAInst :
        m = [tipo |-> pedido[e].op, clave |-> pedido[e].clave, de |-> e]
  BY <1>2 DEF MensajesAInst
<1>5. /\ aInst' \in {EnviadoA(i, m), aInst}
      /\ LibreOtraVez(e)
      /\ UNCHANGED <<claves, trabajo, deInst, contenido, viva>>
  <2>1. aInst' \in {EnviadoA(i, m), aInst}
    BY <1>3, <1>4 DEF EnviaAInstancia
  <2>2. LibreOtraVez(e) /\ UNCHANGED <<claves, trabajo, deInst, contenido, viva>>
    BY Zenon DEF EnviaAInstancia, HiloDeEsi, varsTabla, varsInst
  <2>3. QED
    BY <2>1, <2>2
<1>6. m.tipo = "STORE" => m.clave \in contenido[i]
  <2>1. m.tipo = "STORE" => paso[e] = "enviaSTORE"
    BY <1>1, <1>4 DEF Protocolo, PedidoDelPaso
  <2>2. QED
    BY <1>3, <1>4, <2>1 DEF Vistas, EnVista, StoreConClave
<1>7. /\ \A j \in Instancias \ {i} : aInst'[j] = aInst[j]
      /\ aInst'[i] = aInst[i] \/ aInst'[i] = Append(aInst[i], m)
  BY <1>5 DEF EnviadoA, Enviado, Tipos, TypeOK, CanalesTypeOK
<1>8. Vista(i)'
  <2>1. CASE aInst'[i] = aInst[i]
    BY <1>5, <2>1 DEF Vistas, EnVista, Vista
  <2>2. CASE aInst'[i] = Append(aInst[i], m)
    <3> DEFINE b == Append(aInst[i], m)
    <3>1. \A p \in DOMAIN b :
            \/ b[p] = m
            \/ p \in DOMAIN aInst[i] /\ b[p] = aInst[i][p]
      BY TiposDeEnlace, ConUnoAlFinal
    <3>2. aInst'[i] = b
      BY <2>2
    <3> HIDE DEF b
    <3>3. VistaDe(b, deInst[i], contenido[i], claves[i], trabajo[i].clave)
      BY <1>6, <3>1 DEF Vistas, EnVista, Vista, VistaDe
    <3>4. QED
      BY <1>5, <3>2, <3>3 DEF Vista
  <2>3. QED
    BY <1>7, <2>1, <2>2
<1>9. \A j \in Instancias : Vista(j)'
  BY <1>5, <1>7, <1>8 DEF Vistas, EnVista, Vista
<1>10. paso'[e] = "libre" /\ \A f \in ESIs \ {e} : paso'[f] = paso[f]
  BY <1>5 DEF LibreOtraVez, Tipos, TypeOK, CoordTypeOK
<1>11. QED
  BY <1>1, <1>9, <1>10, VistasEnSuTurno

(* The thread of an ESI, while it has the request lock.                     *)
LEMMA VistasHiloDeEsi ==
  ASSUME Tipos, Protocolo, Vistas, NEW e \in ESIs, HiloDeEsi(e) PROVE EnVista'
<1>1. UNCHANGED <<contenido, viva, listas>>
  BY DEF HiloDeEsi, varsInst
<1>2. ASSUME UNCHANGED <<aInst, deInst, claves, trabajo>>
      PROVE  \A i \in Instancias : Vista(i)'
  BY <1>1, <1>2 DEF Vistas, EnVista, Vista
<1>3. ASSUME peticion > 0 \/ paso[e] # "libre",
             UNCHANGED <<aInst, deInst, claves, trabajo>>,
             \A f \in ESIs \ {e} : paso'[f] = paso[f], paso'[e] # "enviaSTORE"
      PROVE  EnVista'
  BY <1>2, <1>3, VistasEnSuTurno
<1>4. ASSUME paso[e] # "libre", LibreOtraVez(e),
             UNCHANGED <<aInst, deInst, claves, trabajo>>
      PROVE  EnVista'
  <2>1. paso'[e] = "libre" /\ \A f \in ESIs \ {e} : paso'[f] = paso[f]
    BY <1>4 DEF LibreOtraVez, Tipos, TypeOK, CoordTypeOK
  <2>2. QED
    BY <1>3, <1>4, <2>1
<1>5. CASE TomaGET(e) \/ TomaErrorTamanio(e)
  <2>1. UNCHANGED varsProtocolo
    BY <1>1, <1>5
    DEF TomaGET, TomaErrorTamanio, varsRespuesta, varsTabla, varsCompactar,
        varsCoord, canalesDeInst, varsProtocolo, varsEnlaces
  <2>2. QED
    BY <2>1, VistasQuietas
<1>6. CASE TomaSET(e)
  <2>1. /\ peticion > 0 /\ paso[e] = "libre"
        /\ UNCHANGED <<aInst, deInst, claves, trabajo>>
    BY <1>6, Zenon DEF TomaSET, TrasRetardo, varsTabla, canalesDeInst
  <2>2. UNCHANGED paso \/ paso' = [paso EXCEPT ![e] = "esperaSET"]
    BY <1>6, Zenon DEF TomaSET
  <2>3. paso'[e] # "enviaSTORE" /\ \A f \in ESIs \ {e} : paso'[f] = paso[f]
    BY <2>1, <2>2 DEF Tipos, TypeOK, CoordTypeOK
  <2>4. QED
    BY <1>3, <2>1, <2>3
<1>7. CASE TomaSTORE(e)
  <2>1. /\ peticion > 0 /\ paso' = [paso EXCEPT ![e] = "esperaSTORE"]
        /\ UNCHANGED <<aInst, deInst, claves, trabajo>>
    BY <1>7, Zenon DEF TomaSTORE, TrasRetardo, varsTabla, canalesDeInst
  <2>2. paso'[e] # "enviaSTORE" /\ \A f \in ESIs \ {e} : paso'[f] = paso[f]
    BY <2>1 DEF Tipos, TypeOK, CoordTypeOK
  <2>3. QED
    BY <1>3, <2>1, <2>2
<1>8. CASE DecideSET(e)
  <2>1. paso[e] = "esperaSET" /\ UNCHANGED <<aInst, deInst, claves>>
    BY <1>8, Zenon DEF DecideSET, canalesDeInst
  <2>2. /\ LibreOtraVez(e) \/ (\E x \in {"planificaKE", "enviaSET"} :
                                 paso' = [paso EXCEPT ![e] = x])
    BY <1>8, Zenon DEF DecideSET
  <2>3. paso'[e] # "enviaSTORE" /\ \A f \in ESIs \ {e} : paso'[f] = paso[f]
    BY <2>2 DEF LibreOtraVez, Tipos, TypeOK, CoordTypeOK
  <2>4. ASSUME NEW i \in Instancias PROVE Vista(i)'
    <3>1. ~Hay(deInst[i], {"SET_OK"})
      BY <2>1, SuTurno DEF Ocupada, Ocupa, Hay, DeRespuesta
    <3>2. VistaDe(aInst[i], deInst[i], contenido[i], claves[i],
                  trabajo'[i].clave)
      BY <3>1 DEF Vistas, EnVista, Vista, VistaDe
    <3>3. QED
      BY <1>1, <2>1, <3>2 DEF Vista
  <2>5. QED
    BY <2>1, <2>3, <2>4, VistasEnSuTurno
<1>9. CASE DecideSTORE(e)
  <2> DEFINE k == pedido[e].clave
             i == IF Duena(k) # Nada THEN Duena(k)
                                     ELSE PrimeraDe(tabla, ConClave(k))
  <2>1. /\ paso[e] = "esperaSTORE" /\ UNCHANGED <<aInst, deInst, claves, trabajo>>
    BY <1>9, Zenon DEF DecideSTORE, varsTabla, canalesDeInst
  <2>2. CASE LibreOtraVez(e)
    BY <1>4, <2>1, <2>2
  <2>3. CASE /\ i # Nada
             /\ elegida' = [elegida EXCEPT ![e] = i]
             /\ paso' = [paso EXCEPT ![e] = "enviaSTORE"]
             /\ UNCHANGED pedido
    <3>1. i \in Instancias /\ k \in Range(claves[i])
      <4>1. tabla \in Seq(Instancias)
        BY DEF Tipos, TypeOK, CoordTypeOK
      <4>2. /\ Duena(k) \in ConClave(k) \cup {Nada}
            /\ PrimeraDe(tabla, ConClave(k)) \in ConClave(k) \cup {Nada}
        BY <4>1, PrimeraDeEsUna DEF Duena
      <4>3. i \in ConClave(k)
        BY <2>3, <4>2
      <4>4. QED
        BY <4>3 DEF ConClave
    <3>2. k \in contenido[i]
      BY <2>1, <3>1, SuTurno, ListadaEstaEn DEF Protocolo, Vistas, EnVista
    <3> HIDE DEF i
    <3>3. /\ paso'[e] = "enviaSTORE" /\ elegida'[e] = i /\ pedido'[e] = pedido[e]
          /\ \A f \in ESIs \ {e} : paso'[f] = paso[f]
      BY <2>3 DEF Tipos, TypeOK, CoordTypeOK
    <3>4. pedido'[e].clave \in contenido'[elegida'[e]]
      BY <1>1, <3>2, <3>3
    <3>5. QED
      BY <1>2, <2>1, <3>3, <3>4, VistasEnSuTurno
  <2>4. QED
    BY <1>9, <2>2, <2>3, Zenon DEF DecideSTORE
<1>10. QED
  BY <1>5, <1>6, <1>7, <1>8, <1>9, VistasEnvia, ConConexion DEF HiloDeEsi, PasoHiloEsi

-----------------------------------------------------------------------------
(* What follows *)

(* No connection is missing, and nobody comes.                              *)
LEMMA ConectadasNext ==
  ASSUME SinCompactaciones, NadieMata, Tipos, Protocolo, Vistas, [Next]_vars
  PROVE  Conectadas' /\ UNCHANGED <<viva, tabla, disponible>>
<1>1. ASSUME UNCHANGED <<nulas, viva, listas, pasoInst, tabla, disponible>>
      PROVE  Conectadas' /\ UNCHANGED <<viva, tabla, disponible>>
  BY <1>1 DEF Vistas, Conectadas, Presentandose
<1>2. ASSUME UNCHANGED varsCoord, UNCHANGED <<viva, listas>>
      PROVE  Conectadas' /\ UNCHANGED <<viva, tabla, disponible>>
  BY <1>1, <1>2 DEF varsCoord
<1>3. ASSUME NEW i \in Instancias, HiloDeInst(i)
      PROVE  Conectadas' /\ UNCHANGED <<viva, tabla, disponible>>
  <2>1. RecibeSetOk(i) \/ RecibeStoreOk(i) \/ RecibeClaveEliminada(i)
    BY <1>3, NadieVieneNiVa, LlegaAlHilo
  <2>2. UNCHANGED <<nulas, pasoInst, tabla, disponible>>
    BY <2>1, Zenon
    DEF RecibeSetOk, RecibeStoreOk, RecibeClaveEliminada, varsPeticion, varsTabla,
        varsCompactar
  <2>3. UNCHANGED <<viva, listas>>
    BY <1>3 DEF HiloDeInst, varsInst
  <2>4. QED
    BY <1>1, <2>2, <2>3
<1>4. ASSUME NEW i \in Instancias, ProcesoInstancia(i) \/ EntornoInstancia(i)
      PROVE  Conectadas' /\ UNCHANGED <<viva, tabla, disponible>>
  <2>1. UNCHANGED varsCoord
    BY <1>4, Zenon DEF ProcesoInstancia, EntornoInstancia
  <2>2. QED
    BY <1>2, <1>4, <2>1, VistasProcesoInstancia, VistasEntornoInstancia
<1>5. ASSUME NEW e \in ESIs, HiloDeEsi(e)
      PROVE  Conectadas' /\ UNCHANGED <<viva, tabla, disponible>>
  <2>1. UNCHANGED <<viva, listas>>
    BY <1>5 DEF HiloDeEsi, varsInst
  <2>2. UNCHANGED <<pasoInst, tabla, disponible>>
    BY <1>5, ConConexion, Zenon
    DEF HiloDeEsi, PasoHiloEsi, TomaGET, TomaSET, TomaSTORE, TomaErrorTamanio,
        DecideSET, DecideSTORE, EnviaAInstancia, varsCompactar, varsTabla, varsCoord
  <2>3. UNCHANGED nulas
    <3>1. CASE DecideSET(e)
      <4> DEFINE k == pedido[e].clave
                 i == InstanciaParaSET(k)
      <4>1. i \in Instancias \cup {Nada}
        <5>1. Duena(k) \in Instancias \cup {Nada}
          BY PrimeraDeTipo DEF Tipos, TypeOK, CoordTypeOK, Duena
        <5>2. QED
          BY <5>1, PlanificarInstanciaTipo, Zenon DEF InstanciaParaSET, Tipos, TypeOK
      <4>2. UNCHANGED nulas \/ (i # Nada /\ ConexionLeida(e, i))
        BY <3>1, Zenon DEF DecideSET
      <4> HIDE DEF i
      <4>3. QED
        BY <4>1, <4>2 DEF ConexionLeida, Vistas, Conectadas
    <3>2. CASE DecideSTORE(e)
      <4> DEFINE k == pedido[e].clave
                 i == IF Duena(k) # Nada THEN Duena(k)
                                         ELSE PrimeraDe(tabla, ConClave(k))
      <4>1. i \in Instancias \cup {Nada}
        <5>1. /\ Duena(k) \in Instancias \cup {Nada}
              /\ PrimeraDe(tabla, ConClave(k)) \in Instancias \cup {Nada}
          BY PrimeraDeTipo DEF Tipos, TypeOK, CoordTypeOK, Duena
        <5>2. QED
          BY <5>1
      <4>2. UNCHANGED nulas \/ (i # Nada /\ ConexionLeida(e, i))
        BY <3>2, Zenon DEF DecideSTORE
      <4> HIDE DEF i
      <4>3. QED
        BY <4>1, <4>2 DEF ConexionLeida, Vistas, Conectadas
    <3>3. CASE ~DecideSET(e) /\ ~DecideSTORE(e)
      BY <1>5, <3>3, ConConexion, Zenon
      DEF HiloDeEsi, PasoHiloEsi, TomaGET, TomaSET, TomaSTORE, TomaErrorTamanio,
          EnviaAInstancia, varsPeticion, varsCoord
    <3>4. QED
      BY <3>1, <3>2, <3>3
  <2>4. QED
    BY <1>1, <2>1, <2>2, <2>3
<1>6. ASSUME PasoAjeno
      PROVE  Conectadas' /\ UNCHANGED <<viva, tabla, disponible>>
  <2>1. UNCHANGED <<viva, listas, pasoInst>>
    BY <1>6, FueraDeLosEnlaces DEF varsProtocolo, varsEnlaces
  <2>2. CASE HiloDePlan
    <3>1. UNCHANGED <<nulas, tabla, disponible>>
      BY <2>2, Zenon
      DEF HiloDePlan, PasoHiloPlan, RecibeRespuesta, AsignaRespuesta,
          ProcesarStatus, varsPeticion, varsTabla
    <3>2. QED
      BY <1>1, <2>1, <3>1
  <2>3. CASE ~HiloDePlan
    <3>1. UNCHANGED varsCoord
      BY <1>6, <2>3, Zenon
      DEF PasoAjeno, HiloCoordinador, HiloAlgoritmos, HiloServidor, ProcesoEsi,
          MuereEsi, EsiSinPlanificador, vars
    <3>2. QED
      BY <1>2, <2>1, <3>1
  <2>4. QED
    BY <2>2, <2>3
<1>7. QED
  BY <1>3, <1>4, <1>5, <1>6 DEF Next, PasoDeEsi, PasoDeInstancia, PasoAjeno

(* No step of the system kills an instance, and the lists stay faithful.    *)
LEMMA VistasNext ==
  ASSUME SinCompactaciones, NadieMata, Tipos, Protocolo, Vistas, [Next]_vars
  PROVE  Vistas' /\ UNCHANGED <<viva, tabla, disponible>>
<1>1. ASSUME NEW i \in Instancias, PasoDeInstancia(i) PROVE EnVista'
  BY <1>1, VistasHiloDeInst, VistasProcesoInstancia, VistasEntornoInstancia
  DEF PasoDeInstancia
<1>2. ASSUME NEW e \in ESIs, HiloDeEsi(e) PROVE EnVista'
  BY <1>2, VistasHiloDeEsi
<1>3. ASSUME PasoAjeno PROVE EnVista'
  BY <1>3, FueraDeLosEnlaces, VistasQuietas
<1>4. QED
  BY <1>1, <1>2, <1>3, ConectadasNext DEF Next, PasoDeEsi, PasoAjeno, Vistas

(* Vistas is an invariant while no compaction starts and nobody kills.      *)
LEMMA VistasSiempre ==
  ASSUME SinCompactaciones, NadieMata, InstanciasListas
  PROVE  Spec => [](Tipos /\ Protocolo /\ Vistas)
<1>1. Init => Tipos /\ Protocolo /\ Vistas
  BY TiposInit, ProtocoloInicial, VistasIniciales
<1>2. Tipos /\ Protocolo /\ Vistas /\ [Next]_vars => Tipos' /\ Protocolo' /\ Vistas'
  BY TiposNext, ProtocoloNext, VistasNext
<1>3. QED
  BY <1>1, <1>2, PTL DEF Spec

(***************************************************************************)
(* With nothing on the way, the coordinator lists for an instance exactly  *)
(* the keys of its tablaEntradas, and each once, although SET_OK always    *)
(* appends the key of the job: the overwritten key was taken off before.   *)
(***************************************************************************)
THEOREM VistaSiempreFiel ==
  ASSUME SinCompactaciones, NadieMata, InstanciasListas PROVE Spec => []VistaFiel
<1>1. Tipos /\ Protocolo /\ Vistas => VistaFiel
  <2> SUFFICES ASSUME Protocolo, Vistas, NEW i \in Instancias,
                      aInst[i] = <<>>, deInst[i] = <<>>, viva[i]
               PROVE  Range(claves[i]) = contenido[i] /\ IsInjective(claves[i])
    BY DEF VistaFiel
  <2>1. /\ ListaCubre(deInst[i], contenido[i], claves[i], trabajo[i].clave)
        /\ VistaDe(aInst[i], deInst[i], contenido[i], claves[i], trabajo[i].clave)
    BY DEF Protocolo, Enlace, EnlaceEnOrden, Vistas, EnVista, Vista
  <2>2. ~Hay(deInst[i], {"SET_OK"}) /\ \A k : ~Avisada(deInst[i], k)
    BY DEF Hay, Avisada
  <2>3. QED
    BY <2>1, <2>2 DEF ListaCubre, VistaDe
<1>2. QED
  BY <1>1, VistasSiempre, PTL

(* The process of an instance goes on.                                      *)
NingunaCae == [][\A i \in Instancias : viva[i] => viva'[i]]_vars

(***************************************************************************)
(* No step of the program ends an instance that was connected before the   *)
(* ESIs: procesarStore never looks up a key the instance does not have,    *)
(* since the coordinator sends a STORE only where the key is listed and no *)
(* eviction can overtake it.                                               *)
(***************************************************************************)
THEOREM NingunaInstanciaCae ==
  ASSUME SinCompactaciones, NadieMata, InstanciasListas PROVE Spec => NingunaCae
<1>1. Tipos /\ Protocolo /\ Vistas /\ [Next]_vars
        => [\A i \in Instancias : viva[i] => viva'[i]]_vars
  BY VistasNext
<1>2. QED
  BY <1>1, VistasSiempre, PTL DEF Spec, NingunaCae

(***************************************************************************)
(* With every instance connected before the ESIs, neither the coordinator  *)
(* nor an instance dereferences NULL: the part of SinCaidas that is theirs.*)
(* One that connects later may make both do it.                            *)
(***************************************************************************)
THEOREM AlmacenSiempreEnPie ==
  ASSUME SinCompactaciones, NadieMata, InstanciasListas PROVE Spec => []AlmacenEnPie
<1>1. Init => CoordinadorEnPie
  BY DEF Init, CoordInit, CoordinadorEnPie
<1>2. Tipos /\ Protocolo /\ Vistas /\ CoordinadorEnPie /\ [Next]_vars
        => CoordinadorEnPie'
  BY CoordinadorSigue, ConConexion DEF CoordinadorEnPie
<1>3. CoordinadorEnPie /\ Vistas => AlmacenEnPie
  BY DEF AlmacenEnPie, Vistas, Conectadas
<1>4. QED
  BY <1>1, <1>2, <1>3, VistasSiempre, PTL DEF Spec
=============================================================================
