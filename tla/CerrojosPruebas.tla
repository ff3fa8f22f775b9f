-------------------------- MODULE CerrojosPruebas --------------------------
(***************************************************************************)
(* Theorems about the queues of g_bloq: an ESI is never in two places, and *)
(* the tables of keys implement Cerrojos.  EnUnLugar is the inductive      *)
(* strengthening: an ESI the planner has not read the name of is nowhere,  *)
(* and its name arrives once.                                              *)
(***************************************************************************)
EXTENDS SistemaPruebas

-----------------------------------------------------------------------------
(* Queues *)

(* An ESI waits in a queue when it is at a position of it.                   *)
LEMMA EnColaTienePosicion ==
  ASSUME NEW e
  PROVE  EnAlgunaCola(e) <=> \E k \in Claves : \E p \in DOMAIN cola[k] : cola[k][p] = e
BY DEF EnAlgunaCola, Range

(* What is left of s without its m-th element, and from where.               *)
LEMMA SinUnoDe ==
  ASSUME NEW S, NEW s \in Seq(S), NEW m \in 1..Len(s), NEW t,
         t = SubSeq(s, 1, m - 1) \o SubSeq(s, m + 1, Len(s))
  PROVE  /\ t \in Seq(S)
         /\ Len(t) = Len(s) - 1
         /\ \A p \in 1..Len(t) : t[p] = s[IF p < m THEN p ELSE p + 1]
<1> DEFINE a == SubSeq(s, 1, m - 1)
           b == SubSeq(s, m + 1, Len(s))
<1>1. Len(s) \in Nat
  BY LenProperties
<1>2. /\ a \in Seq(S) /\ Len(a) = m - 1
      /\ \A p \in 1..(m - 1) : a[p] = s[p]
  BY <1>1, SubSeqProperties
<1>3. /\ b \in Seq(S) /\ Len(b) = Len(s) - m
      /\ \A p \in 1..(Len(s) - m) : b[p] = s[m + p]
  BY <1>1, SubSeqProperties
<1> HIDE DEF a, b
<1>4. /\ a \o b \in Seq(S) /\ Len(a \o b) = Len(a) + Len(b)
      /\ \A p \in 1..(Len(a) + Len(b)) :
           (a \o b)[p] = IF p <= Len(a) THEN a[p] ELSE b[p - Len(a)]
  BY <1>2, <1>3, ConcatProperties
<1>5. t = a \o b
  BY DEF a, b
<1> DEFINE largo == Len(s)
<1>6. largo \in Nat /\ m \in 1..largo /\ m \in Nat
  BY <1>1
<1>7. Len(a) + Len(b) = largo - 1
  <2> DEFINE la == Len(a)
             lb == Len(b)
  <2>1. la = m - 1 /\ lb = largo - m
    BY <1>2, <1>3
  <2> HIDE DEF la, lb, largo
  <2>2. la + lb = largo - 1
    BY <1>6, <2>1
  <2>3. QED
    BY <2>2 DEF la, lb
<1>8. ASSUME NEW p \in 1..Len(t) PROVE t[p] = s[IF p < m THEN p ELSE p + 1]
  <2>1. p \in 1..(Len(s) - 1) /\ p \in 1..(Len(a) + Len(b))
    BY <1>7, <1>4, <1>5
  <2>2. CASE p < m
    BY <1>1, <1>2, <1>4, <1>5, <2>1, <2>2
  <2>3. CASE ~(p < m)
    <3>1. p - (m - 1) \in 1..(Len(s) - m) /\ ~(p <= m - 1)
      BY <1>1, <2>1, <2>3
    <3>2. t[p] = b[p - (m - 1)]
      BY <1>2, <1>4, <1>5, <2>1, <3>1
    <3>3. b[p - (m - 1)] = s[m + (p - (m - 1))]
      BY <1>3, <3>1
    <3>4. m + (p - (m - 1)) = p + 1
      BY <1>1, <2>1
    <3>5. QED
      BY <2>3, <3>2, <3>3, <3>4
  <2>4. QED
    BY <2>2, <2>3
<1>9. QED
  BY <1>4, <1>5, <1>8, <1>7

(* RemoveFirst takes each of the elements it leaves from one place of s.     *)
LEMMA RemoveFirstDeDonde ==
  ASSUME NEW S, NEW s \in Seq(S), NEW e
  PROVE  \E m \in Nat :
           /\ RemoveFirst(s, e) \in Seq(S)
           /\ \A p \in DOMAIN RemoveFirst(s, e) :
                /\ (IF p < m THEN p ELSE p + 1) \in DOMAIN s
                /\ RemoveFirst(s, e)[p] = s[IF p < m THEN p ELSE p + 1]
<1> DEFINE t == RemoveFirst(s, e)
<1>0. Len(s) \in Nat /\ DOMAIN s = 1..Len(s)
  BY LenProperties
<1>1. CASE t = s
  <2>1. Len(s) + 1 \in Nat
    BY <1>0
  <2>2. \A p \in 1..Len(s) : p < Len(s) + 1
    BY <1>0
  <2>3. QED
    BY <1>0, <1>1, <2>1, <2>2
<1>2. ASSUME NEW m \in 1..Len(s),
             t = SubSeq(s, 1, m - 1) \o SubSeq(s, m + 1, Len(s))
      PROVE  \E n \in Nat :
               /\ t \in Seq(S)
               /\ \A p \in DOMAIN t :
                    /\ (IF p < n THEN p ELSE p + 1) \in DOMAIN s
                    /\ t[p] = s[IF p < n THEN p ELSE p + 1]
  <2>1. /\ t \in Seq(S) /\ Len(t) = Len(s) - 1
        /\ \A p \in 1..Len(t) : t[p] = s[IF p < m THEN p ELSE p + 1]
    <3> HIDE DEF t
    <3>1. QED
      BY <1>2, SinUnoDe
  <2>2. DOMAIN t = 1..Len(t)
    BY <2>1, LenProperties
  <2>3. \A p \in 1..Len(t) : (IF p < m THEN p ELSE p + 1) \in 1..Len(s)
    BY <1>0, <2>1
  <2>4. m \in Nat
    BY <1>0
  <2> HIDE DEF t
  <2>5. \A p \in DOMAIN t : (IF p < m THEN p ELSE p + 1) \in DOMAIN s
    BY <1>0, <2>2, <2>3, Zenon
  <2>6. \A p \in DOMAIN t : t[p] = s[IF p < m THEN p ELSE p + 1]
    BY <2>1, <2>2
  <2>7. QED
    BY <2>1, <2>4, <2>5, <2>6
<1>3. QED
  BY <1>1, <1>2, RemoveFirstQuita

(***************************************************************************)
(* A step that only takes elements out of the queues: each of those it     *)
(* leaves in cola[k] was in it, at the same place or the next.             *)
(***************************************************************************)
Antes(p, m) == IF p < m THEN p ELSE p + 1

ColasMenguan ==
  \A k \in Claves :
    /\ DOMAIN cola'[k] \subseteq Nat
    /\ \E m \in Nat : \A p \in DOMAIN cola'[k] :
         Antes(p, m) \in DOMAIN cola[k] /\ cola'[k][p] = cola[k][Antes(p, m)]

(* Nobody waits twice after it, and nobody waits who did not.                *)
LEMMA MenguarNoRepite ==
  ASSUME EsperasUnicas, ColasMenguan
  PROVE  EsperasUnicas' /\ \A e : EnAlgunaCola(e)' => EnAlgunaCola(e)
<1>1. EsperasUnicas'
  <2> SUFFICES ASSUME NEW k \in Claves, NEW l \in Claves,
                      NEW p \in DOMAIN cola'[k], NEW q \in DOMAIN cola'[l],
                      cola'[k][p] = cola'[l][q]
               PROVE  k = l /\ p = q
    BY DEF EsperasUnicas
  <2>1. PICK m \in Nat : \A x \in DOMAIN cola'[k] :
          Antes(x, m) \in DOMAIN cola[k] /\ cola'[k][x] = cola[k][Antes(x, m)]
    BY DEF ColasMenguan
  <2>2. PICK n \in Nat : \A x \in DOMAIN cola'[l] :
          Antes(x, n) \in DOMAIN cola[l] /\ cola'[l][x] = cola[l][Antes(x, n)]
    BY DEF ColasMenguan
  <2>3. k = l
    BY <2>1, <2>2 DEF EsperasUnicas
  <2>4. cola[k][Antes(p, m)] = cola[k][Antes(q, m)]
    BY <2>1, <2>3
  <2>5. Antes(p, m) = Antes(q, m)
    BY <2>1, <2>3, <2>4 DEF EsperasUnicas
  <2>6. p \in Nat /\ q \in Nat
    BY DEF ColasMenguan
  <2>7. QED
    BY <2>3, <2>5, <2>6 DEF Antes
<1>2. ASSUME NEW e, EnAlgunaCola(e)' PROVE EnAlgunaCola(e)
  <2>1. PICK k \in Claves : \E p \in DOMAIN cola'[k] : cola'[k][p] = e
    BY <1>2 DEF EnAlgunaCola, Range
  <2>2. \E p \in DOMAIN cola[k] : cola[k][p] = e
    BY <2>1 DEF ColasMenguan
  <2>3. QED
    BY <2>2, EnColaTienePosicion
<1>3. QED
  BY <1>1, <1>2

(* liberarESI only takes out of a list.                                      *)
LEMMA QuitarMengua ==
  ASSUME NEW e, cola \in [Claves -> Seq(ESIs)], NEW l \in Claves,
         cola' = [cola EXCEPT ![l] = RemoveFirst(@, e)]
  PROVE  ColasMenguan
<1> SUFFICES ASSUME NEW k \in Claves
             PROVE  /\ DOMAIN cola'[k] \subseteq Nat
                    /\ \E m \in Nat : \A p \in DOMAIN cola'[k] :
                         Antes(p, m) \in DOMAIN cola[k] /\ cola'[k][p] = cola[k][Antes(p, m)]
  BY DEF ColasMenguan
<1>1. cola[k] \in Seq(ESIs)
  OBVIOUS
<1>2. CASE k = l
  <2>1. cola'[k] = RemoveFirst(cola[k], e)
    BY <1>2
  <2>2. PICK m \in Nat :
          /\ cola'[k] \in Seq(ESIs)
          /\ \A p \in DOMAIN cola'[k] :
               Antes(p, m) \in DOMAIN cola[k] /\ cola'[k][p] = cola[k][Antes(p, m)]
    <3> DEFINE s == cola[k]
               t == RemoveFirst(s, e)
    <3>1. s \in Seq(ESIs) /\ cola'[k] = t
      BY <1>1, <2>1
    <3> HIDE DEF s
    <3>2. \E m \in Nat :
            /\ t \in Seq(ESIs)
            /\ \A p \in DOMAIN t :
                 Antes(p, m) \in DOMAIN s /\ t[p] = s[Antes(p, m)]
      BY <3>1, RemoveFirstDeDonde DEF Antes
    <3> HIDE DEF t
    <3>3. QED
      BY <3>1, <3>2 DEF s
  <2>3. DOMAIN cola'[k] \subseteq Nat
    BY <2>2, LenProperties
  <2>4. QED
    BY <2>2, <2>3
<1>3. CASE k # l
  <2>1. cola'[k] = cola[k] /\ DOMAIN cola[k] = 1..Len(cola[k]) /\ Len(cola[k]) \in Nat
    BY <1>1, <1>3, LenProperties
  <2>2. /\ Len(cola[k]) + 1 \in Nat
        /\ \A p \in DOMAIN cola'[k] : Antes(p, Len(cola[k]) + 1) = p
    BY <2>1 DEF Antes
  <2>3. DOMAIN cola'[k] \subseteq Nat
    BY <2>1
  <2>4. QED
    BY <2>1, <2>2, <2>3
<1>4. QED
  BY <1>2, <1>3

(* The list of a key that is removed goes whole.                             *)
LEMMA VaciarMengua ==
  ASSUME cola \in [Claves -> Seq(ESIs)], NEW v, cola' = [cola EXCEPT ![v] = <<>>]
  PROVE  ColasMenguan
<1> SUFFICES ASSUME NEW k \in Claves
             PROVE  /\ DOMAIN cola'[k] \subseteq Nat
                    /\ \E m \in Nat : \A p \in DOMAIN cola'[k] :
                         Antes(p, m) \in DOMAIN cola[k] /\ cola'[k][p] = cola[k][Antes(p, m)]
  BY DEF ColasMenguan
<1>1. cola[k] \in Seq(ESIs) /\ cola'[k] = IF k = v THEN <<>> ELSE cola[k]
  OBVIOUS
<1>2. CASE k = v
  <2>1. cola'[k] = <<>> /\ DOMAIN <<>> = {}
    BY <1>1, <1>2
  <2>2. 0 \in Nat
    OBVIOUS
  <2>3. QED
    BY <2>1, <2>2
<1>3. CASE k # v
  <2>1. cola'[k] = cola[k] /\ DOMAIN cola[k] = 1..Len(cola[k]) /\ Len(cola[k]) \in Nat
    BY <1>1, <1>3, LenProperties
  <2>2. /\ Len(cola[k]) + 1 \in Nat
        /\ \A p \in DOMAIN cola'[k] : Antes(p, Len(cola[k]) + 1) = p
    BY <2>1 DEF Antes
  <2>3. DOMAIN cola'[k] \subseteq Nat
    BY <2>1
  <2>4. QED
    BY <2>1, <2>2, <2>3
<1>4. QED
  BY <1>2, <1>3

(* So does desbloquearESI, and the one it takes waits no more.               *)
LEMMA DesbloquearMengua ==
  ASSUME cola \in [Claves -> Seq(ESIs)], EsperasUnicas,
         NEW k \in Claves, cola[k] # <<>>, cola' = [cola EXCEPT ![k] = Tail(@)],
         NEW h, h = Head(cola[k])
  PROVE  /\ ColasMenguan
         /\ h \in ESIs /\ EnAlgunaCola(h) /\ ~EnAlgunaCola(h)'
<1> DEFINE s == cola[k]
<1>1. s \in Seq(ESIs) /\ s # <<>> /\ \A l \in Claves : cola[l] \in Seq(ESIs)
  OBVIOUS
<1>2. /\ 1 \in DOMAIN s /\ h = s[1] /\ h \in ESIs
      /\ Tail(s) \in Seq(ESIs)
      /\ DOMAIN Tail(s) = 1..(Len(s) - 1)
      /\ \A p \in 1..(Len(s) - 1) : Tail(s)[p] = s[p + 1]
      /\ DOMAIN s = 1..Len(s) /\ Len(s) \in Nat
  <2>1. h = Head(s)
    OBVIOUS
  <2> HIDE DEF s
  <2>2. /\ Head(s) \in ESIs /\ Tail(s) \in Seq(ESIs)
        /\ Len(Tail(s)) = Len(s) - 1
        /\ \A p \in 1..Len(Tail(s)) : Tail(s)[p] = s[p + 1]
    BY <1>1, HeadTailProperties
  <2>3. DOMAIN s = 1..Len(s) /\ Len(s) \in Nat /\ DOMAIN Tail(s) = 1..Len(Tail(s))
    BY <1>1, <2>2, LenProperties
  <2>4. Len(s) # 0 /\ Head(s) = s[1]
    BY <1>1, EmptySeq
  <2>5. QED
    BY <2>1, <2>2, <2>3, <2>4
<1>3. ASSUME NEW l \in Claves, NEW p \in DOMAIN cola'[l]
      PROVE  /\ p \in Nat
             /\ IF l = k THEN p + 1 \in DOMAIN s /\ cola'[l][p] = s[p + 1]
                         ELSE p \in DOMAIN cola[l] /\ cola'[l][p] = cola[l][p]
  <2>1. CASE l = k
    BY <1>2, <2>1
  <2>2. CASE l # k
    <3>1. cola'[l] = cola[l] /\ cola[l] \in Seq(ESIs)
      BY <2>2
    <3>2. DOMAIN cola[l] = 1..Len(cola[l]) /\ Len(cola[l]) \in Nat
      BY <3>1, LenProperties
    <3>3. QED
      BY <2>2, <3>1, <3>2
  <2>3. QED
    BY <2>1, <2>2
<1>4. ColasMenguan
  <2> SUFFICES ASSUME NEW l \in Claves
               PROVE  \E m \in Nat : \A p \in DOMAIN cola'[l] :
                        Antes(p, m) \in DOMAIN cola[l] /\ cola'[l][p] = cola[l][Antes(p, m)]
    BY <1>3 DEF ColasMenguan
  <2>1. CASE l = k
    <3>1. \A p \in DOMAIN cola'[l] : Antes(p, 0) = p + 1
      BY <1>3 DEF Antes
    <3>2. QED
      BY <1>3, <2>1, <3>1
  <2>2. CASE l # k
    <3>1. Len(cola[l]) + 1 \in Nat /\ DOMAIN cola[l] = 1..Len(cola[l])
      BY <1>1, LenProperties
    <3>2. \A p \in DOMAIN cola'[l] : p \in DOMAIN cola[l] /\ cola'[l][p] = cola[l][p]
      BY <1>3, <2>2
    <3>3. \A p \in DOMAIN cola'[l] : Antes(p, Len(cola[l]) + 1) = p
      BY <3>1, <3>2 DEF Antes
    <3>4. QED
      BY <3>1, <3>2, <3>3
  <2>3. QED
    BY <2>1, <2>2
<1>5. EnAlgunaCola(h)
  BY <1>2, EnColaTienePosicion
<1>6. ASSUME EnAlgunaCola(h)' PROVE FALSE
  <2>1. PICK l \in Claves : \E p \in DOMAIN cola'[l] : cola'[l][p] = h
    BY <1>6 DEF EnAlgunaCola, Range
  <2>2. PICK p \in DOMAIN cola'[l] : cola'[l][p] = h
    BY <2>1
  <2>3. CASE l = k
    BY <1>2, <1>3, <2>2, <2>3 DEF EsperasUnicas
  <2>4. CASE l # k
    BY <1>2, <1>3, <2>2, <2>4 DEF EsperasUnicas
  <2>5. QED
    BY <2>3, <2>4
<1>7. QED
  BY <1>2, <1>4, <1>5, <1>6

(* bloquear adds one who did not wait.                                       *)
LEMMA EncolarNoRepite ==
  ASSUME cola \in [Claves -> Seq(ESIs)], EsperasUnicas,
         NEW k \in Claves, NEW e \in ESIs, ~EnAlgunaCola(e),
         cola' = [cola EXCEPT ![k] = Append(@, e)]
  PROVE  EsperasUnicas' /\ \A f : EnAlgunaCola(f)' => EnAlgunaCola(f) \/ f = e
<1>1. ASSUME NEW l \in Claves, NEW p \in DOMAIN cola'[l]
      PROVE  \/ p \in DOMAIN cola[l] /\ cola'[l][p] = cola[l][p]
             \/ l = k /\ p = Len(cola[k]) + 1 /\ cola'[l][p] = e
  <2>1. CASE l = k
    <3>1. cola'[l] = Append(cola[k], e) /\ cola[k] \in Seq(ESIs)
      BY <2>1
    <3> DEFINE s == cola[k]
    <3>2. s \in Seq(ESIs)
      BY <3>1
    <3> HIDE DEF s
    <3>3. /\ DOMAIN Append(s, e) = 1..(Len(s) + 1)
          /\ \A x \in 1..Len(s) : Append(s, e)[x] = s[x]
          /\ Append(s, e)[Len(s) + 1] = e
          /\ Len(s) \in Nat /\ DOMAIN s = 1..Len(s)
      BY <3>2, AppendProperties, LenProperties
    <3>4. p \in 1..Len(s) \/ p = Len(s) + 1
      BY <3>1, <3>3 DEF s
    <3>5. QED
      BY <2>1, <3>1, <3>3, <3>4 DEF s
  <2>2. CASE l # k
    BY <2>2
  <2>3. QED
    BY <2>1, <2>2
<1>2. \A l \in Claves : \A p \in DOMAIN cola[l] : cola[l][p] # e
  BY EnColaTienePosicion
<1>3. EsperasUnicas'
  BY <1>1, <1>2 DEF EsperasUnicas
<1>4. ASSUME NEW f, EnAlgunaCola(f)' PROVE EnAlgunaCola(f) \/ f = e
  <2>1. PICK l \in Claves : \E p \in DOMAIN cola'[l] : cola'[l][p] = f
    BY <1>4 DEF EnAlgunaCola, Range
  <2>2. QED
    BY <1>1, <2>1, EnColaTienePosicion
<1>5. QED
  BY <1>3, <1>4

-----------------------------------------------------------------------------
(* The places of an ESI *)

EnNingunLugar(e) == e \notin listos /\ ~EnSuTurno(e) /\ ~EnAlgunaCola(e)

(* The planner has nowhere an ESI that has not connected, or whose name is   *)
(* still to be read; the name is the first packet, and only the first.       *)
NombresPendientes ==
  \A e \in ESIs :
    /\ vida[e] = "nueva" => deEsi[e] = <<>> /\ EnNingunLugar(e)
    /\ \A p \in DOMAIN deEsi[e] :
         deEsi[e][p] = "ENVIAR_NOMBRE_ESI" => p = 1 /\ EnNingunLugar(e)

EnUnLugar == NuncaEnDosLugares /\ NombresPendientes

(* A step that leaves the connections from the ESIs alone keeps              *)
(* NombresPendientes when it puts nobody in a place who was in none.         *)
LEMMA NombresSiguen ==
  ASSUME NombresPendientes, UNCHANGED <<vida, deEsi>>,
         \A e \in ESIs : EnNingunLugar(e) => EnNingunLugar(e)'
  PROVE  NombresPendientes'
BY DEF NombresPendientes

(* hiloAlgoritmos                                                            *)
LEMMA LugaresAlgoritmos ==
  ASSUME Tipos, EnUnLugar, HiloAlgoritmos PROVE EnUnLugar'
<1> DEFINE Sigue == \A e \in ESIs : EnNingunLugar(e) => EnNingunLugar(e)'
<1>1. UNCHANGED <<vida, deEsi>>
  BY Zenon
  DEF HiloAlgoritmos, PasoAlgoritmos, TomaEntrada, Elige, Pide, EsperaContinua,
      Sale, Bloquea, Despide, Desaloja, DejaBloqueado, Cierra, varsEsi, canales,
      canalesSinAEsi
<1>2. NuncaEnDosLugares' /\ Sigue
  <2> USE DEF EnUnLugar, NuncaEnDosLugares, EnNingunLugar, EnSuTurno
  <2>1. ASSUME UNCHANGED cola
        PROVE  /\ EsperasUnicas'
               /\ \A e : EnAlgunaCola(e)' <=> EnAlgunaCola(e)
    BY <2>1 DEF EsperasUnicas, EnAlgunaCola
  <2>2. CASE TomaEntrada
    BY <2>1, <2>2 DEF TomaEntrada, tablas
  <2>3. CASE Elige
    BY <2>1, <2>3 DEF Elige
  <2>4. CASE Pide
    BY <2>1, <2>4 DEF Pide, tablas
  <2>5. CASE EsperaContinua
    BY <2>1, <2>5 DEF EsperaContinua, tablas
  <2>6. CASE Sale
    BY <2>1, <2>6 DEF Sale, tablas
  <2>7. CASE Bloquea
    <3>1. /\ actual \in ESIs /\ EnSuTurno(actual)
          /\ pc' = "salidaBloq" /\ UNCHANGED <<listos, actual>>
      BY <2>7 DEF Bloquea, Tipos, ActualEnCurso
    <3>2. EsperasUnicas' /\ \A f : EnAlgunaCola(f)' => EnAlgunaCola(f) \/ f = actual
      <4>1. CASE claveGET = Nada
        BY <2>1, <2>7, <4>1 DEF Bloquea
      <4>2. CASE claveGET # Nada
        <5>1. cola' = [cola EXCEPT ![claveGET] = Append(@, actual)]
          BY <2>7, <4>2, Zenon DEF Bloquea, Encolado
        <5>2. claveGET \in Claves /\ cola \in [Claves -> Seq(ESIs)]
          BY <4>2 DEF Tipos, TypeOK, PlanTypeOK
        <5>3. ~EnAlgunaCola(actual) /\ EsperasUnicas
          BY <3>1
        <5> DEFINE e == actual
                   k == claveGET
        <5>4. /\ e \in ESIs /\ k \in Claves /\ ~EnAlgunaCola(e)
              /\ cola' = [cola EXCEPT ![k] = Append(@, e)]
          BY <3>1, <5>1, <5>2, <5>3
        <5> HIDE DEF e, k
        <5>5. EsperasUnicas' /\ \A f : EnAlgunaCola(f)' => EnAlgunaCola(f) \/ f = e
          BY <5>2, <5>3, <5>4, EncolarNoRepite
        <5>6. QED
          BY <5>5 DEF e
      <4>3. QED
        BY <4>1, <4>2
    <3>3. QED
      BY <3>1, <3>2
  <2>8. CASE Despide
    BY <2>1, <2>8 DEF Despide, tablas
  <2>9. CASE Desaloja
    BY <2>1, <2>9 DEF Desaloja
  <2>10. CASE DejaBloqueado
    BY <2>1, <2>10 DEF DejaBloqueado, tablas
  <2>11. CASE Cierra
    BY <2>1, <2>11 DEF Cierra, tablas
  <2>12. QED
    BY <2>2, <2>3, <2>4, <2>5, <2>6, <2>7, <2>8, <2>9, <2>10, <2>11
    DEF HiloAlgoritmos, PasoAlgoritmos
<1>3. QED
  BY <1>1, <1>2, NombresSiguen DEF EnUnLugar

(* desbloquearESI(k) takes the first of the queue to g_listos.               *)
LEMMA LugaresDesbloqueo ==
  ASSUME Tipos, NuncaEnDosLugares, NEW k \in Claves, cola[k] # <<>>,
         DesbloqueaESI(k), UNCHANGED <<actual, pc>>
  PROVE  NuncaEnDosLugares' /\ \A e \in ESIs : EnNingunLugar(e) => EnNingunLugar(e)'
<1> USE DEF NuncaEnDosLugares, EnNingunLugar, EnSuTurno
<1>1. cola' = [cola EXCEPT ![k] = Tail(@)] /\ cola \in [Claves -> Seq(ESIs)]
  BY DEF DesbloqueaESI, Tipos, TypeOK, PlanTypeOK
<1>2. PICK h : h = Head(cola[k])
  OBVIOUS
<1>3. ColasMenguan /\ h \in ESIs /\ EnAlgunaCola(h) /\ ~EnAlgunaCola(h)'
  BY <1>1, <1>2, DesbloquearMengua
<1>4. EsperasUnicas' /\ \A e : EnAlgunaCola(e)' => EnAlgunaCola(e)
  BY <1>3, MenguarNoRepite
<1>5. listos' = listos \cup {h}
  BY <1>2 DEF DesbloqueaESI
<1>6. QED
  BY <1>3, <1>4, <1>5

(* hiloCoordinador                                                           *)
LEMMA LugaresCoordinador ==
  ASSUME Tipos, EnUnLugar, HiloCoordinador PROVE EnUnLugar'
<1>1. UNCHANGED <<vida, deEsi, actual, pc>>
  BY Zenon
  DEF HiloCoordinador, PasoCoordinador, RecibeGET, RecibeSET, RecibeSTORE,
      RecibeError, varsEsi
<1>2. \/ UNCHANGED <<listos, cola>>
      \/ \E k \in Claves : cola[k] # <<>> /\ DesbloqueaESI(k)
  <2>1. \/ UNCHANGED <<listos, cola>>
        \/ \E k : k \in enBloq /\ cola[k] # <<>> /\ DesbloqueaESI(k)
    BY Zenon
    DEF HiloCoordinador, PasoCoordinador, RecibeGET, RecibeSET, RecibeSTORE, RecibeError
  <2>2. QED
    BY <2>1 DEF Tipos, TypeOK, PlanTypeOK
<1>3. NuncaEnDosLugares' /\ \A e \in ESIs : EnNingunLugar(e) => EnNingunLugar(e)'
  <2>1. CASE UNCHANGED <<listos, cola>>
    BY <1>1, <2>1
    DEF EnUnLugar, NuncaEnDosLugares, EnNingunLugar, EnSuTurno, EsperasUnicas,
        EnAlgunaCola
  <2>2. CASE \E k \in Claves : cola[k] # <<>> /\ DesbloqueaESI(k)
    BY <1>1, <2>2, LugaresDesbloqueo DEF EnUnLugar
  <2>3. QED
    BY <1>2, <2>1, <2>2
<1>4. QED
  BY <1>1, <1>3, NombresSiguen DEF EnUnLugar

(* A packet of the ESI e is read, and nobody is put in a place but e by its  *)
(* name.                                                                     *)
LEMMA NombreLeido ==
  ASSUME Tipos, NombresPendientes, NEW e \in ESIs, deEsi[e] # <<>>,
         deEsi' = Recibido(deEsi, e), UNCHANGED vida,
         \A f \in ESIs :
           EnNingunLugar(f) /\ (f = e => Head(deEsi[e]) # "ENVIAR_NOMBRE_ESI")
             => EnNingunLugar(f)'
  PROVE  NombresPendientes'
<1> DEFINE s == deEsi[e]
<1>1. deEsi \in [ESIs -> Seq(MensajesDeEsi)] /\ s \in Seq(MensajesDeEsi) /\ s # <<>>
  BY DEF Tipos, TypeOK, CanalesTypeOK
<1>2. deEsi'[e] = Tail(s) /\ \A f \in ESIs \ {e} : deEsi'[f] = deEsi[f]
  BY <1>1 DEF Recibido
<1>3. /\ DOMAIN Tail(s) = 1..(Len(s) - 1) /\ Len(s) \in Nat
      /\ DOMAIN s = 1..Len(s)
      /\ \A p \in 1..(Len(s) - 1) : Tail(s)[p] = s[p + 1]
  <2> HIDE DEF s
  <2>1. /\ Tail(s) \in Seq(MensajesDeEsi) /\ Len(Tail(s)) = Len(s) - 1
        /\ \A p \in 1..Len(Tail(s)) : Tail(s)[p] = s[p + 1]
    BY <1>1, HeadTailProperties
  <2>2. QED
    BY <1>1, <2>1, LenProperties
<1>4. \A p \in DOMAIN deEsi'[e] : deEsi'[e][p] # "ENVIAR_NOMBRE_ESI"
  <2> SUFFICES ASSUME NEW p \in DOMAIN deEsi'[e], deEsi'[e][p] = "ENVIAR_NOMBRE_ESI"
               PROVE  FALSE
    OBVIOUS
  <2>1. p + 1 \in DOMAIN s /\ s[p + 1] = "ENVIAR_NOMBRE_ESI" /\ p \in Nat \ {0}
    BY <1>2, <1>3
  <2>2. QED
    BY <2>1 DEF NombresPendientes
<1>5. vida[e] # "nueva"
  BY <1>1 DEF NombresPendientes
<1>6. QED
  BY <1>2, <1>4, <1>5 DEF NombresPendientes

(* hiloServidor                                                              *)
LEMMA LugaresServidor ==
  ASSUME Tipos, EnUnLugar, NEW e \in ESIs, HiloServidor(e) PROVE EnUnLugar'
<1> USE DEF EnUnLugar
<1> DEFINE Sigue(f) == EnNingunLugar(f) => EnNingunLugar(f)'
<1>1. /\ UNCHANGED <<vida, actual, pc>>
      /\ ~LiberaESI(e) => deEsi' = Recibido(deEsi, e) /\ deEsi[e] # <<>>
  BY Zenon
  DEF HiloServidor, PasoServidor, RecibeNombre, RecibeTermino, DesconectaESI,
      LiberaESI, LiberaNombre, QuitaListo, QuitaDeLista, QuitaClave, LiberaClaves,
      sinLiberar, varsEsi, Llega
<1>2. ASSUME UNCHANGED cola
      PROVE  /\ EsperasUnicas'
             /\ \A f : EnAlgunaCola(f)' <=> EnAlgunaCola(f)
  BY <1>2 DEF NuncaEnDosLugares, EsperasUnicas, EnAlgunaCola
<1>3. ASSUME RecibeNombre(e) PROVE EnUnLugar'
  <2>1. /\ deEsi[e] # <<>> /\ Head(deEsi[e]) = "ENVIAR_NOMBRE_ESI"
        /\ deEsi' = Recibido(deEsi, e)
        /\ listos' = listos \cup {e} /\ UNCHANGED cola
    BY <1>3 DEF RecibeNombre, Llega
  <2>2. EnNingunLugar(e)
    <3> DEFINE s == deEsi[e]
    <3>1. s \in Seq(MensajesDeEsi) /\ s # <<>> /\ Head(s) = "ENVIAR_NOMBRE_ESI"
      BY <2>1 DEF Tipos, TypeOK, CanalesTypeOK
    <3>2. 1 \in DOMAIN s /\ s[1] = "ENVIAR_NOMBRE_ESI"
      <4> HIDE DEF s
      <4>1. QED
        BY <3>1, EmptySeq, LenProperties
    <3>3. QED
      BY <3>2 DEF NombresPendientes
  <2>3. NuncaEnDosLugares'
    BY <1>1, <1>2, <2>1, <2>2 DEF NuncaEnDosLugares, EnNingunLugar, EnSuTurno
  <2>4. \A f \in ESIs : f # e => Sigue(f)
    BY <1>1, <1>2, <2>1 DEF EnNingunLugar, EnSuTurno
  <2>5. QED
    BY <1>1, <2>1, <2>3, <2>4, NombreLeido
<1>4. ASSUME RecibeTermino(e) \/ DesconectaESI(e) PROVE EnUnLugar'
  <2>1. /\ UNCHANGED <<listos, cola>>
        /\ deEsi[e] # <<>> /\ deEsi' = Recibido(deEsi, e)
    BY <1>4, Zenon DEF RecibeTermino, DesconectaESI, Llega, tablas
  <2>2. NuncaEnDosLugares' /\ \A f \in ESIs : Sigue(f)
    BY <1>1, <1>2, <2>1 DEF NuncaEnDosLugares, EnNingunLugar, EnSuTurno
  <2>3. QED
    BY <1>1, <2>1, <2>2, NombreLeido
<1>5. ASSUME LiberaESI(e) PROVE EnUnLugar'
  <2>1. UNCHANGED deEsi
    BY <1>5, Zenon
    DEF LiberaESI, LiberaNombre, QuitaListo, QuitaDeLista, QuitaClave, LiberaClaves,
        sinLiberar, canales
  <2>2. /\ listos' \in {listos, listos \ {e}}
        /\ \/ UNCHANGED cola
           \/ \E k \in Claves : cola' = [cola EXCEPT ![k] = RemoveFirst(@, e)]
           \/ cola' = [cola EXCEPT ![libera.vacia] = <<>>]
    BY <1>5, Zenon
    DEF LiberaESI, LiberaNombre, QuitaListo, QuitaDeLista, QuitaClave, LiberaClaves,
        tablas
  <2>3. EsperasUnicas' /\ \A f : EnAlgunaCola(f)' => EnAlgunaCola(f)
    <3>1. cola \in [Claves -> Seq(ESIs)] /\ EsperasUnicas
      BY DEF Tipos, TypeOK, PlanTypeOK, NuncaEnDosLugares
    <3>2. CASE UNCHANGED cola
      BY <1>2, <3>2
    <3>3. CASE \E k \in Claves : cola' = [cola EXCEPT ![k] = RemoveFirst(@, e)]
      BY <3>1, <3>3, QuitarMengua, MenguarNoRepite
    <3>4. CASE cola' = [cola EXCEPT ![libera.vacia] = <<>>]
      <4>1. PICK v : v = libera.vacia
        OBVIOUS
      <4>2. cola' = [cola EXCEPT ![v] = <<>>]
        BY <3>4, <4>1
      <4>3. QED
        BY <3>1, <4>2, VaciarMengua, MenguarNoRepite
    <3>5. QED
      BY <2>2, <3>2, <3>3, <3>4
  <2>4. NuncaEnDosLugares' /\ \A f \in ESIs : Sigue(f)
    BY <1>1, <2>2, <2>3 DEF NuncaEnDosLugares, EnNingunLugar, EnSuTurno
  <2>5. QED
    BY <1>1, <2>1, <2>4, NombresSiguen
<1>6. QED
  BY <1>3, <1>4, <1>5 DEF HiloServidor, PasoServidor

(* The ESI processes: an ESI sends its name once, before anything else.      *)
LEMMA LugaresEsi ==
  ASSUME Tipos, EnUnLugar, NEW e \in ESIs,
         ProcesoEsi(e) \/ MuereEsi(e) \/ EsiSinPlanificador(e)
  PROVE  EnUnLugar'
<1>1. UNCHANGED varsPlan
  BY Zenon DEF ProcesoEsi, MuereEsi, EsiSinPlanificador
<1>2. NuncaEnDosLugares' /\ \A f \in ESIs : EnNingunLugar(f) => EnNingunLugar(f)'
  BY <1>1
  DEF EnUnLugar, NuncaEnDosLugares, EnNingunLugar, EnSuTurno, EsperasUnicas,
      EnAlgunaCola, varsPlan, tablas
<1>3. deEsi \in [ESIs -> Seq(MensajesDeEsi)] /\ vida \in [ESIs -> {"nueva", "conectada", "terminada"}]
  BY DEF Tipos, TypeOK, CanalesTypeOK, EsiTypeOK
<1>4. CASE ConectarEsi(e)
  <2>1. /\ vida[e] = "nueva" /\ vida' = [vida EXCEPT ![e] = "conectada"]
        /\ deEsi' = [deEsi EXCEPT ![e] = Append(@, "ENVIAR_NOMBRE_ESI")]
    BY <1>4 DEF ConectarEsi, Enviado
  <2>2. deEsi[e] = <<>> /\ EnNingunLugar(e)
    BY <2>1 DEF EnUnLugar, NombresPendientes
  <2>3. deEsi'[e] = <<"ENVIAR_NOMBRE_ESI">>
    BY <1>3, <2>1, <2>2
  <2>4. \A f \in ESIs \ {e} : deEsi'[f] = deEsi[f] /\ vida'[f] = vida[f]
    BY <1>3, <2>1
  <2>5. vida'[e] # "nueva" /\ \A p \in DOMAIN deEsi'[e] : p = 1
    BY <1>3, <2>1, <2>3
  <2>6. QED
    BY <1>2, <2>2, <2>4, <2>5 DEF EnUnLugar, NombresPendientes
<1>5. CASE ~ConectarEsi(e)
  <2>1. PICK ms \in Seq(MensajesDeEsi \ {"ENVIAR_NOMBRE_ESI"}) :
          /\ deEsi' = [deEsi EXCEPT ![e] = @ \o ms]
          /\ vida[e] = "conectada"
          /\ vida' = vida \/ vida' = [vida EXCEPT ![e] = "terminada"]
    <3> DEFINE M == MensajesDeEsi \ {"ENVIAR_NOMBRE_ESI"}
    <3>1. <<>> \in Seq(M) /\ <<"TERMINO_ESI">> \in Seq(M) /\ <<"ENVIAR_ERROR">> \in Seq(M)
      BY DEF MensajesDeEsi
    <3>2. \A a \in {<<>>, <<"TERMINO_ESI">>} : a \o <<"ENVIAR_ERROR">> \in Seq(M)
      BY <3>1, ConcatProperties
    <3>3. ASSUME NEW a \in {<<>>, <<"TERMINO_ESI">>}, Termina(e, a)
          PROVE  \E ms \in Seq(M) : /\ deEsi' = [deEsi EXCEPT ![e] = @ \o ms]
                                    /\ vida' = [vida EXCEPT ![e] = "terminada"]
      <4>1. deEsi[e] \in Seq(MensajesDeEsi)
        BY <1>3
      <4>2. deEsi[e] \o a \o <<"ENVIAR_ERROR">> = deEsi[e] \o (a \o <<"ENVIAR_ERROR">>)
        <5> DEFINE fin == <<"ENVIAR_ERROR">>
        <5>1. /\ <<>> \in Seq(MensajesDeEsi) /\ <<"TERMINO_ESI">> \in Seq(MensajesDeEsi)
              /\ fin \in Seq(MensajesDeEsi)
          BY DEF MensajesDeEsi
        <5>2. a \in Seq(MensajesDeEsi)
          BY <5>1, Zenon
        <5> HIDE DEF fin
        <5>3. \A s, t, u \in Seq(MensajesDeEsi) : (s \o t) \o u = s \o (t \o u)
          BY ConcatAssociative
        <5>4. QED
          BY <4>1, <5>1, <5>2, <5>3, Zenon DEF fin
      <4>3. deEsi' = [deEsi EXCEPT ![e] = @ \o (a \o <<"ENVIAR_ERROR">>)]
        BY <3>3, <4>2 DEF Termina
      <4>4. QED
        BY <3>2, <3>3, <4>3 DEF Termina
    <3>4. CASE ProcesarSolicitudEjecucion(e)
      <4> DEFINE avisos == IF EsUltima(e) THEN <<"TERMINO_ESI">> ELSE <<>>
      <4>1. avisos \in {<<>>, <<"TERMINO_ESI">>} /\ avisos \in Seq(M)
        BY <3>1
      <4>2. vida[e] = "conectada"
        BY <3>4 DEF ProcesarSolicitudEjecucion
      <4>3. \/ deEsi' = [deEsi EXCEPT ![e] = @ \o avisos] /\ vida' = vida
            \/ Termina(e, avisos)
        BY <3>4, Zenon DEF ProcesarSolicitudEjecucion
      <4> HIDE DEF avisos
      <4>4. QED
        BY <3>3, <4>1, <4>2, <4>3
    <3>5. CASE ProcesarSolicitudAnterior(e)
      <4>1. vida[e] = "conectada" /\ UNCHANGED <<vida, deEsi>>
        BY <3>5 DEF ProcesarSolicitudAnterior
      <4>2. deEsi[e] \o <<>> = deEsi[e]
        BY <1>3, ConcatEmptySeq
      <4>3. deEsi' = [deEsi EXCEPT ![e] = @ \o <<>>]
        BY <1>3, <4>1, <4>2
      <4>4. QED
        BY <3>1, <4>1, <4>3
    <3>6. CASE ProcesarRespuestaSolicitud(e) \/ Matar(e) \/ ProcesarError(e)
      <4>1. vida[e] = "conectada" /\ Termina(e, <<>>)
        BY <3>6, Zenon DEF ProcesarRespuestaSolicitud, Matar, ProcesarError
      <4>2. QED
        BY <3>3, <4>1
    <3>7. QED
      BY <1>5, <3>4, <3>5, <3>6
      DEF ProcesoEsi, PasoEsi, MuereEsi, EsiSinPlanificador
  <2>2. \A f \in ESIs \ {e} : deEsi'[f] = deEsi[f] /\ vida'[f] = vida[f]
    BY <1>3, <2>1
  <2>3. vida'[e] # "nueva"
    BY <1>3, <2>1
  <2>4. ASSUME NEW p \in DOMAIN deEsi'[e], deEsi'[e][p] = "ENVIAR_NOMBRE_ESI"
        PROVE  p \in DOMAIN deEsi[e] /\ deEsi[e][p] = "ENVIAR_NOMBRE_ESI"
    <3> DEFINE s == deEsi[e]
               t == deEsi'[e]
    <3>1. s \in Seq(MensajesDeEsi) /\ ms \in Seq(MensajesDeEsi) /\ t = s \o ms
      BY <1>3, <2>1
    <3>2. \A q \in 1..Len(ms) : ms[q] # "ENVIAR_NOMBRE_ESI"
      BY <2>1, ElementOfSeq
    <3>3. p \in DOMAIN t /\ t[p] = "ENVIAR_NOMBRE_ESI"
      BY <2>4
    <3> HIDE DEF s, t
    <3>4. /\ DOMAIN t = 1..(Len(s) + Len(ms)) /\ DOMAIN s = 1..Len(s)
          /\ Len(s) \in Nat /\ Len(ms) \in Nat
          /\ \A q \in 1..(Len(s) + Len(ms)) :
               t[q] = IF q <= Len(s) THEN s[q] ELSE ms[q - Len(s)]
      BY <3>1, ConcatProperties, LenProperties
    <3>5. CASE p <= Len(s)
      BY <3>3, <3>4, <3>5 DEF s
    <3>6. CASE ~(p <= Len(s))
      BY <3>2, <3>3, <3>4, <3>6
    <3>7. QED
      BY <3>5, <3>6
  <2>5. QED
    BY <1>2, <2>2, <2>3, <2>4 DEF EnUnLugar, NombresPendientes
<1>6. QED
  BY <1>4, <1>5

(* The threads of the coordinator and the instances                          *)
LEMMA LugaresDeLosDemas ==
  ASSUME EnUnLugar, UNCHANGED <<varsPlan, vida, deEsi>> PROVE EnUnLugar'
<1>1. NuncaEnDosLugares' /\ \A f \in ESIs : EnNingunLugar(f) => EnNingunLugar(f)'
  BY DEF EnUnLugar, NuncaEnDosLugares, EnNingunLugar, EnSuTurno, EsperasUnicas,
         EnAlgunaCola, varsPlan, tablas
<1>2. QED
  BY <1>1, NombresSiguen DEF EnUnLugar

(* They read nothing from the ESIs on behalf of the planner.                 *)
LEMMA NoTocanDeEsi ==
  ASSUME \/ HiloDePlan
         \/ \E e \in ESIs : HiloDeEsi(e)
         \/ \E i \in Instancias : PasoDeInstancia(i)
  PROVE  UNCHANGED <<varsPlan, vida, deEsi>>
<1>1. UNCHANGED <<varsPlan, varsEsi>>
  BY Zenon
  DEF HiloDePlan, HiloDeEsi, PasoDeInstancia, HiloDeInst, ProcesoInstancia,
      EntornoInstancia
<1>2. ASSUME HiloDePlan PROVE UNCHANGED deEsi
  BY <1>2, Zenon
  DEF HiloDePlan, PasoHiloPlan, RecibeRespuesta, AsignaRespuesta, ProcesarStatus,
      canalesSinPlanACoord, canales
<1>3. ASSUME NEW e \in ESIs, HiloDeEsi(e) PROVE UNCHANGED deEsi
  BY <1>3, Zenon
  DEF HiloDeEsi, PasoHiloEsi, TomaGET, TomaSET, TomaSTORE, TomaErrorTamanio,
      DecideSET, EnviaAInstancia, EnviaSinConexion, DecideSTORE, canalesDeInst, canales
<1>4. ASSUME NEW i \in Instancias, HiloDeInst(i) PROVE UNCHANGED deEsi
  BY <1>4, Zenon
  DEF HiloDeInst, PasoHiloInst, RecibeNombreInstancia, PresentaInstancia,
      RecibeSetOk, RecibeStoreOk, RecibeClaveEliminada, RecibeEspacioInsuficiente,
      BloqueaInstancia,
      CompactaInstancia, RecibeCompactar, RecibeSetDefinitivo, RecibeRespuestaValor,
      DesconectaInstancia, canalesSinInst, canales
<1>5. ASSUME NEW i \in Instancias, ProcesoInstancia(i) \/ EntornoInstancia(i)
      PROVE  UNCHANGED deEsi
  BY <1>5, Zenon
  DEF ProcesoInstancia, EntornoInstancia, PasoInstancia, ConectarInstancia,
      ProcesarEnviarInfoInstancia, ProcesarSet, ProcesarSetDefinitivo, ProcesarStore,
      ProcesarCompactacion, ProcesarSolicitudValor, AtenderSinTablas, Dump,
      MatarInstancia, canalesDeOtros, canales
<1>6. UNCHANGED vida
  BY <1>1 DEF varsEsi
<1>7. QED
  BY <1>1, <1>2, <1>3, <1>4, <1>5, <1>6, Zenon DEF PasoDeInstancia, canalesSinPlanACoord

(* Every step keeps each ESI in one place at most.                           *)
LEMMA LugaresNext == ASSUME Tipos, EnUnLugar, [Next]_vars PROVE EnUnLugar'
<1>1. CASE HiloAlgoritmos
  BY <1>1, LugaresAlgoritmos
<1>2. CASE HiloCoordinador
  BY <1>2, LugaresCoordinador
<1>3. CASE HiloDePlan
  BY <1>3, NoTocanDeEsi, LugaresDeLosDemas
<1>4. ASSUME NEW e \in ESIs, PasoDeEsi(e) PROVE EnUnLugar'
  <2>1. CASE HiloServidor(e)
    BY <2>1, LugaresServidor
  <2>2. CASE ProcesoEsi(e) \/ MuereEsi(e) \/ EsiSinPlanificador(e)
    BY <2>2, LugaresEsi
  <2>3. CASE HiloDeEsi(e)
    BY <2>3, NoTocanDeEsi, LugaresDeLosDemas
  <2>4. QED
    BY <1>4, <2>1, <2>2, <2>3 DEF PasoDeEsi
<1>5. ASSUME NEW i \in Instancias, PasoDeInstancia(i) PROVE EnUnLugar'
  BY <1>5, NoTocanDeEsi, LugaresDeLosDemas
<1>6. CASE UNCHANGED vars
  <2>1. UNCHANGED <<varsPlan, vida, deEsi>>
    BY <1>6 DEF vars, varsEsi, canales
  <2>2. QED
    BY <2>1, LugaresDeLosDemas
<1>7. QED
  BY <1>1, <1>2, <1>3, <1>4, <1>5, <1>6 DEF Next

(* Nobody is in a place at the start.                                        *)
LEMMA EnUnLugarInicial == Init => EnUnLugar
<1> SUFFICES ASSUME Init PROVE EnUnLugar
  OBVIOUS
<1>1. /\ listos = {} /\ actual = Nada /\ \A k \in Claves : cola[k] = <<>>
      /\ \A e \in ESIs : deEsi[e] = <<>>
  BY DEF Init, PlanInit, CanalesInit
<1>2. \A e \in ESIs : EnNingunLugar(e)
  <2>1. \A e : ~EnAlgunaCola(e)
    BY <1>1 DEF EnAlgunaCola, Range
  <2>2. QED
    BY <1>1, <2>1, NadaAssumption DEF EnNingunLugar, EnSuTurno
<1>3. EsperasUnicas
  BY <1>1 DEF EsperasUnicas
<1>4. QED
  BY <1>1, <1>2, <1>3 DEF EnUnLugar, NuncaEnDosLugares, NombresPendientes, EnNingunLugar

(* EnUnLugar is an invariant.                                                *)
LEMMA EnUnLugarSiempre == Spec => []EnUnLugar
<1>1. Init => EnUnLugar
  BY EnUnLugarInicial
<1>2. Tipos /\ EnUnLugar /\ [Next]_vars => EnUnLugar'
  BY LugaresNext
<1>3. QED
  BY <1>1, <1>2, TiposSiempre, PTL DEF Spec

(***************************************************************************)
(* An ESI is never planned while it waits for a key, nor waits for two     *)
(* keys or twice for one, nor is ready while its turn goes on: under       *)
(* either planning algorithm and whatever dies.                            *)
(***************************************************************************)
THEOREM NuncaEnDosLugaresSiempre == Spec => []NuncaEnDosLugares
<1>1. EnUnLugar => NuncaEnDosLugares
  BY DEF EnUnLugar
<1>2. QED
  BY <1>1, EnUnLugarSiempre, PTL

-----------------------------------------------------------------------------
(* The tables of keys implement Cerrojos *)

(* g_bloq and g_clavesTomadas start empty but for the preset keys.           *)
LEMMA InicioDeCerrojos == Init => LosCerrojos!Inicio
BY DEF Init, PlanInit, LosCerrojos!Inicio

(* Waiting, as Cerrojos says it.                                             *)
LEMMA EsperaEsCola ==
  ASSUME NEW e
  PROVE  EnAlgunaCola(e) <=> \E k \in Claves : LosCerrojos!Espera(e, cola[k])
BY DEF EnAlgunaCola, Range, LosCerrojos!Espera

MisTablas == <<tomadas, cola, liberados>>

(* hiloCoordinador: a GET takes a free key, a STORE gives one back, and an   *)
(* abort all of them.                                                        *)
LEMMA CerrojosCoordinador ==
  ASSUME Tipos, SinBloqSinCola, HiloCoordinador
  PROVE  [LosCerrojos!Paso]_MisTablas
<1> USE DEF MisTablas
<1>1. /\ tomadas \in [Nombres -> SUBSET Claves] /\ cola \in [Claves -> Seq(ESIs)]
      /\ NombresLeidos \subseteq Nombres
  BY DEF Tipos, TypeOK, PlanTypeOK, NombresLeidos, Nombres
<1>2. ASSUME NEW k, k = Head(coordAPlan).clave,
             coordAPlan # <<>>, Head(coordAPlan).op \in Operaciones
      PROVE  k \in Claves
  <2>1. Head(coordAPlan) \in MensajesCoordAPlan
    BY <1>2, HeadTailProperties DEF Tipos, TypeOK, CanalesTypeOK
  <2>2. QED
    BY <1>2, <2>1 DEF MensajesCoordAPlan, Operaciones
<1>3. ASSUME NEW n \in NombresLeidos, tomadas' = SinClaves(n), UNCHANGED <<cola, liberados>>
      PROVE  LosCerrojos!Paso
  BY <1>1, <1>3, Zenon DEF SinClaves, LosCerrojos!Paso, LosCerrojos!DevuelveTodo
<1>4. CASE RecibeGET
  <2>1. PICK n \in NombresLeidos :
          LET k == Head(coordAPlan).clave
          IN UNCHANGED tomadas \/ /\ ~ClaveOcupada(k, n) /\ k \notin tomadas[n]
                                  /\ tomadas' = [tomadas EXCEPT ![n] = @ \cup {k}]
    BY <1>4, Zenon DEF RecibeGET
  <2>2. PICK k : k = Head(coordAPlan).clave
    OBVIOUS
  <2>3. k \in Claves /\ UNCHANGED <<cola, liberados>>
    BY <1>2, <1>4, <2>2 DEF RecibeGET, LlegaOp, Operaciones
  <2>4. CASE UNCHANGED tomadas
    BY <2>3, <2>4
  <2>5. CASE /\ ~ClaveOcupada(k, n) /\ k \notin tomadas[n]
             /\ tomadas' = [tomadas EXCEPT ![n] = @ \cup {k}]
    <3>1. \A m \in Nombres : k \notin tomadas[m]
      BY <2>5 DEF ClaveOcupada, TomadaPorOtro
    <3>2. cola[k] = <<>>
      BY <2>3, <2>5 DEF ClaveOcupada, SinBloqSinCola
    <3>3. LosCerrojos!Toma(n, k)
      BY <2>3, <2>5, <3>1, <3>2 DEF LosCerrojos!Toma, LosCerrojos!SinDueno
    <3>4. QED
      BY <1>1, <2>3, <3>3, Zenon DEF LosCerrojos!Paso
  <2>6. QED
    BY <2>1, <2>2, <2>4, <2>5
<1>5. CASE RecibeSET \/ RecibeError
  <2>1. /\ UNCHANGED <<cola, liberados>>
        /\ tomadas' = tomadas \/ \E n \in NombresLeidos : tomadas' = SinClaves(n)
    BY <1>5, Zenon DEF RecibeSET, RecibeError, Aborta
  <2>2. QED
    BY <1>3, <2>1
<1>6. CASE RecibeSTORE
  <2>1. PICK k : k = Head(coordAPlan).clave
    OBVIOUS
  <2>2. k \in Claves /\ UNCHANGED liberados
    BY <1>2, <1>6, <2>1 DEF RecibeSTORE, LlegaOp, Operaciones
  <2>3. PICK n \in NombresLeidos :
          \/ /\ k \in tomadas[n] /\ tomadas' = ClaveLiberada(n, k)
             /\ IF k \in enBloq /\ cola[k] # <<>> THEN DesbloqueaESI(k) ELSE UNCHANGED cola
          \/ tomadas' = SinClaves(n) /\ UNCHANGED cola
    BY <1>6, <2>1, Zenon DEF RecibeSTORE, Aborta, TieneClave
  <2>4. CASE tomadas' = SinClaves(n) /\ UNCHANGED cola
    BY <1>3, <2>2, <2>4
  <2>5. CASE /\ k \in tomadas[n] /\ tomadas' = ClaveLiberada(n, k)
             /\ IF k \in enBloq /\ cola[k] # <<>> THEN DesbloqueaESI(k) ELSE UNCHANGED cola
    <3>1. cola' = [cola EXCEPT ![k] = IF @ = <<>> THEN @ ELSE Tail(@)]
      <4>1. CASE k \in enBloq /\ cola[k] # <<>>
        BY <2>5, <4>1 DEF DesbloqueaESI
      <4>2. CASE ~(k \in enBloq /\ cola[k] # <<>>)
        <5>1. cola[k] = <<>>
          BY <2>2, <4>2 DEF SinBloqSinCola
        <5>2. QED
          BY <1>1, <2>2, <2>5, <4>2, <5>1
      <4>3. QED
        BY <4>1, <4>2
    <3>2. LosCerrojos!Devuelve(n, k)
      BY <2>2, <2>5, <3>1, Zenon DEF LosCerrojos!Devuelve, ClaveLiberada
    <3>3. QED
      BY <1>1, <2>2, <3>2, Zenon DEF LosCerrojos!Paso
  <2>6. QED
    BY <2>3, <2>4, <2>5
<1>7. QED
  BY <1>4, <1>5, <1>6 DEF HiloCoordinador, PasoCoordinador

(* hiloAlgoritmos: who is blocked waits for its key and for no other.        *)
LEMMA CerrojosAlgoritmos ==
  ASSUME Tipos, EnUnLugar, HiloAlgoritmos
  PROVE  [LosCerrojos!Paso]_MisTablas
<1> USE DEF MisTablas
<1>1. CASE Bloquea
  <2>1. /\ actual \in ESIs /\ EnSuTurno(actual) /\ UNCHANGED <<tomadas, liberados>>
    BY <1>1 DEF Bloquea, Tipos, ActualEnCurso, EnSuTurno
  <2>2. CASE claveGET = Nada
    BY <1>1, <2>1, <2>2 DEF Bloquea
  <2>3. CASE claveGET # Nada
    <3>1. cola' = [cola EXCEPT ![claveGET] = Append(@, actual)]
      BY <1>1, <2>3, Zenon DEF Bloquea, Encolado
    <3>2. claveGET \in Claves
      BY <2>3 DEF Tipos, TypeOK, PlanTypeOK
    <3>3. \A l \in Claves : ~LosCerrojos!Espera(actual, cola[l])
      BY <2>1, EsperaEsCola DEF EnUnLugar, NuncaEnDosLugares
    <3>4. LosCerrojos!SeEncola(actual, claveGET)
      BY <2>1, <3>1, <3>3, Zenon DEF LosCerrojos!SeEncola
    <3>5. actual \in Nombres
      BY <2>1 DEF Nombres
    <3>6. QED
      BY <3>2, <3>4, <3>5, Zenon DEF LosCerrojos!Paso
  <2>4. QED
    BY <2>2, <2>3
<1>2. CASE Cierra
  <2>1. LosCerrojos!Despide(actual) /\ actual \in Nombres
    BY <1>2 DEF Cierra, tablas, LosCerrojos!Despide, Tipos, TypeOK, PlanTypeOK
  <2>2. QED
    BY <2>1, Zenon DEF LosCerrojos!Paso
<1>3. CASE ~Bloquea /\ ~Cierra
  BY <1>3, Zenon
  DEF HiloAlgoritmos, PasoAlgoritmos, TomaEntrada, Elige, Pide, EsperaContinua,
      Sale, Despide, Desaloja, DejaBloqueado, tablas
<1>4. QED
  BY <1>1, <1>2, <1>3

(* What RemoveFirst does is what Cerrojos says of who goes.                  *)
LEMMA QuitarEsSinEse ==
  ASSUME NEW e, NEW s \in Seq(ESIs)
  PROVE  LosCerrojos!SinEse(s, RemoveFirst(s, e), e)
<1>1. DOMAIN s = 1..Len(s)
  BY LenProperties
<1>2. QED
  BY <1>1, RemoveFirstQuita DEF LosCerrojos!SinEse, LosCerrojos!Espera

(* hiloServidor: who goes leaves its queue and then its keys.               *)
LEMMA CerrojosServidor ==
  ASSUME Tipos, EnUnLugar, NEW e \in ESIs, HiloServidor(e)
  PROVE  [LosCerrojos!Paso \/ PierdeLista]_MisTablas
<1> USE DEF MisTablas
<1>1. /\ tomadas \in [Nombres -> SUBSET Claves] /\ cola \in [Claves -> Seq(ESIs)]
      /\ NombresLeidos \subseteq Nombres /\ e \in Nombres
  BY DEF Tipos, TypeOK, PlanTypeOK, NombresLeidos, Nombres
<1>2. ASSUME NEW n \in Nombres, tomadas' = SinClaves(n), UNCHANGED <<cola, liberados>>
      PROVE  LosCerrojos!Paso
  BY <1>2, Zenon DEF SinClaves, LosCerrojos!Paso, LosCerrojos!DevuelveTodo
<1>3. CASE RecibeNombre(e) \/ RecibeTermino(e)
  BY <1>3, Zenon DEF RecibeNombre, RecibeTermino, tablas
<1>4. CASE DesconectaESI(e)
  <2>1. /\ UNCHANGED <<cola, liberados>>
        /\ UNCHANGED tomadas \/ \E n \in NombresLeidos : tomadas' = SinClaves(n)
    BY <1>4, Zenon DEF DesconectaESI
  <2>2. QED
    BY <1>1, <1>2, <2>1
<1>5. CASE LiberaNombre(e)
  <2>1. /\ UNCHANGED <<cola, tomadas>>
        /\ UNCHANGED liberados \/ liberados' = liberados \cup {e}
    BY <1>5, Zenon DEF LiberaNombre, tablas
  <2>2. CASE liberados' = liberados \cup {e}
    BY <1>1, <2>1, <2>2, Zenon DEF LosCerrojos!Paso, LosCerrojos!Despide
  <2>3. QED
    BY <2>1, <2>2
<1>6. CASE QuitaListo(e) \/ LiberaClaves(e)
  <2>1. /\ UNCHANGED <<cola, liberados>>
        /\ UNCHANGED tomadas \/ \E n \in Nombres : tomadas' = SinClaves(n)
    BY <1>1, <1>6, Zenon DEF QuitaListo, LiberaClaves
  <2>2. QED
    BY <1>2, <2>1
<1>7. ASSUME NEW k \in Claves, QuitaDeLista(e, k)
      PROVE  [LosCerrojos!Paso \/ PierdeLista]_MisTablas
  <2>1. UNCHANGED tomadas
    BY <1>7, Zenon DEF QuitaDeLista
  <2>2. CASE UNCHANGED <<cola, liberados>>
    BY <2>1, <2>2
  <2>3. CASE /\ cola' = [cola EXCEPT ![k] = RemoveFirst(@, e)]
             /\ liberados' = IF e \in Range(cola[k]) THEN liberados \cup {e} ELSE liberados
    <3>1. cola[k] \in Seq(ESIs) /\ DOMAIN cola[k] = 1..Len(cola[k])
      BY <1>1, LenProperties
    <3>2. CASE e \notin Range(cola[k])
      <4>1. RemoveFirst(cola[k], e) = cola[k]
        <5> DEFINE s == cola[k]
        <5>1. s \in Seq(ESIs) /\ DOMAIN s = 1..Len(s) /\ \A p \in 1..Len(s) : s[p] # e
          BY <3>1, <3>2 DEF Range
        <5> HIDE DEF s
        <5>2. RemoveFirst(s, e) = s
          BY <5>1, RemoveFirstQuita
        <5>3. QED
          BY <5>2 DEF s
      <4>2. cola' = cola
        BY <1>1, <2>3, <4>1
      <4>3. QED
        BY <2>1, <2>3, <3>2, <4>2
    <3>3. CASE e \in Range(cola[k])
      <4>1. \A l \in Claves \ {k} : ~LosCerrojos!Espera(e, cola[l])
        BY <3>3 DEF EnUnLugar, NuncaEnDosLugares, EsperasUnicas, Range,
                    LosCerrojos!Espera
      <4>2. \A l \in Claves : LosCerrojos!SinEse(cola[l], cola'[l], e)
        <5>1. LosCerrojos!SinEse(cola[k], cola'[k], e)
          BY <1>1, <2>3, QuitarEsSinEse
        <5>2. \A l \in Claves \ {k} : cola'[l] = cola[l]
          BY <1>1, <2>3
        <5>3. QED
          BY <4>1, <5>1, <5>2 DEF LosCerrojos!SinEse
      <4>3. DOMAIN cola' = Claves
        BY <1>1, <2>3
      <4>4. liberados' = liberados \cup {e}
        BY <2>3, <3>3
      <4>5. LosCerrojos!Abandona(e)
        BY <2>1, <4>2, <4>3, <4>4, Zenon DEF LosCerrojos!Abandona
      <4>6. QED
        BY <1>1, <4>5, Zenon DEF LosCerrojos!Paso
    <3>4. QED
      BY <3>2, <3>3
  <2>4. QED
    BY <1>7, <2>2, <2>3, Zenon DEF QuitaDeLista
<1>8. CASE QuitaClave(e)
  BY <1>8, Zenon DEF QuitaClave, PierdeLista
<1>9. QED
  BY <1>3, <1>4, <1>5, <1>6, <1>7, <1>8 DEF HiloServidor, PasoServidor, LiberaESI

(* Every step of the system is a step of Cerrojos, or none, but the removal  *)
(* of a key with its list.                                                   *)
LEMMA CerrojosNext ==
  ASSUME Tipos, EnUnLugar, SinBloqSinCola, [Next]_vars
  PROVE  [LosCerrojos!Paso \/ PierdeLista]_MisTablas
<1>1. CASE UNCHANGED varsPlan
  BY <1>1 DEF varsPlan, tablas, MisTablas
<1>2. CASE HiloAlgoritmos
  BY <1>2, CerrojosAlgoritmos
<1>3. CASE HiloCoordinador
  BY <1>3, CerrojosCoordinador
<1>4. ASSUME NEW e \in ESIs, HiloServidor(e)
      PROVE  [LosCerrojos!Paso \/ PierdeLista]_MisTablas
  BY <1>4, CerrojosServidor
<1>5. \/ HiloAlgoritmos \/ HiloCoordinador \/ UNCHANGED varsPlan
      \/ \E e \in ESIs : HiloServidor(e)
  BY Zenon
  DEF Next, PasoDeEsi, PasoDeInstancia, HiloDePlan, ProcesoEsi, MuereEsi,
      EsiSinPlanificador, HiloDeEsi, HiloDeInst, ProcesoInstancia,
      EntornoInstancia, vars
<1>6. QED
  BY <1>1, <1>2, <1>3, <1>4, <1>5

(***************************************************************************)
(* The planner's tables are a lock and a fair queue for each key: with any *)
(* number of ESIs, keys and instances, under either planning algorithm and *)
(* whatever dies, a key is only given away when nobody has it or waits for *)
(* it, and a STORE serves the queue in order.  The one way to lose a place *)
(* in a queue is to join it while liberarESI removes its key.              *)
(***************************************************************************)
THEOREM SonCerrojosSinLaListaSiempre == Spec => SonCerrojosSinLaLista
<1>1. Init => LosCerrojos!Inicio
  BY InicioDeCerrojos
<1>2. Tipos /\ EnUnLugar /\ VacioSoloDePaso /\ [Next]_vars
        => [LosCerrojos!Paso \/ PierdeLista]_<<tomadas, cola, liberados>>
  BY CerrojosNext DEF MisTablas, VacioSoloDePaso
<1>3. QED
  BY <1>1, <1>2, TiposSiempre, EnUnLugarSiempre, VacioSoloDePasoSiempre, PTL
  DEF Spec, SonCerrojosSinLaLista
=============================================================================
