-------------------------- MODULE CoordinadorPruebas --------------------------
(***************************************************************************)
(* Theorems about the coordinator and the instances while every SET finds  *)
(* room: the request lock and the lock of an instance are never released   *)
(* twice, and the list of keys of an instance covers what it has, whatever *)
(* dies.  What the connection with one instance may hold is said, and      *)
(* proved of each packet, about any two queues (EnlaceEnOrden, of four     *)
(* parts); Protocolo says it of every instance, and that a statement has   *)
(* one owner.                                                              *)
(***************************************************************************)
EXTENDS CerrojosPruebas

(* A SET always finds room, after its evictions: no compaction starts.      *)
SinCompactaciones == SinEspacio = {}

-----------------------------------------------------------------------------
(* The inductive invariant *)

DeSentencia == {"SET", "STORE"}
DeRespuesta == {"SET_OK", "STORE_OK"}

Hay(s, tipos) == \E p \in DOMAIN s : s[p].tipo \in tipos
UnaVez(s, tipos) ==
  \A p, q \in DOMAIN s : s[p].tipo \in tipos /\ s[q].tipo \in tipos => p = q

(* A statement is in the instance with the queues a to it and d from it.    *)
Ocupa(a, d) == Hay(a, DeSentencia) \/ Hay(d, DeRespuesta)

(* No packet of a compaction or of a status, and one statement at most.     *)
PaquetesBien(a, d) ==
  /\ \A p \in DOMAIN a : a[p].tipo \in {"SET", "STORE", "ENVIAR_INFO_INSTANCIA"}
  /\ \A p \in DOMAIN d :
       d[p].tipo \in {"ENVIAR_NOMBRE_INSTANCIA", "SET_OK", "STORE_OK",
                      "ENVIAR_CLAVE_ELIMINADA", "ENVIAR_ERROR"}
  /\ UnaVez(a, DeSentencia) /\ UnaVez(d, DeRespuesta)
  /\ ~(Hay(a, DeSentencia) /\ Hay(d, DeRespuesta))

(* The end of the socket is read last and only of an instance that is gone; *)
(* one that connects starts with nothing on the way and nothing in memory.  *)
EnlaceBien(a, d, v, s, c, l) ==
  /\ \A p \in DOMAIN d : d[p].tipo = "ENVIAR_ERROR" => ~v /\ p = Len(d)
  /\ s => v \/ Hay(d, {"ENVIAR_ERROR"})
  /\ ~s => a = <<>>
  /\ \A p \in DOMAIN d : d[p].tipo = "ENVIAR_NOMBRE_INSTANCIA" =>
       /\ p = 1 /\ ~s /\ c = {}
       /\ v \/ Hay(d, {"ENVIAR_ERROR"})
       /\ \A q \in DOMAIN d : q # p => d[q].tipo = "ENVIAR_ERROR"

(* The job recorded for an instance is the SET it has; the keys it evicted  *)
(* are named before the SET is answered.                                    *)
TrabajoBien(a, d, t) ==
  /\ \A p \in DOMAIN a : a[p].tipo = "SET" => a[p].clave = t
  /\ Hay(d, {"SET_OK"}) => t \in Claves
  /\ \A p \in DOMAIN d : d[p].tipo = "ENVIAR_CLAVE_ELIMINADA" =>
       \E q \in DOMAIN d : d[q].tipo = "SET_OK" /\ p < q

(* A key in memory is listed and its eviction is not on the way, or it is   *)
(* the key of the SET that will be answered.                                *)
Avisada(d, k) == \E p \in DOMAIN d : d[p] = Eliminada(k)

ListaCubre(d, c, l, t) ==
  \A k \in c : \/ Hay(d, {"SET_OK"}) /\ t = k
               \/ k \in Range(l) /\ ~Avisada(d, k)

(* Until the instance has its tables (r) it has no key and answers nothing, *)
(* and ENVIAR_INFO_INSTANCIA, which the thread that presents it (z) has     *)
(* still to send, names no key that is not listed; then it comes no more.   *)
DeInfo == {"ENVIAR_INFO_INSTANCIA"}
DeNombre == {"ENVIAR_NOMBRE_INSTANCIA"}
DeLista == {"SET_OK", "STORE_OK", "ENVIAR_CLAVE_ELIMINADA"}

Presentada(a, d, s, c, l, r, z) ==
  /\ z => s
  /\ UnaVez(a, DeInfo)
  /\ IF r THEN ~z /\ ~Hay(a, DeInfo) /\ ~Hay(d, DeNombre)
          ELSE /\ c = {} /\ ~Hay(d, DeLista)
               /\ \A p \in DOMAIN a :
                    a[p].tipo \in DeInfo => ~z /\ a[p].clave \subseteq Range(l)

EnlaceEnOrden(a, d, v, s, c, l, t) ==
  /\ PaquetesBien(a, d)
  /\ EnlaceBien(a, d, v, s, c, l)
  /\ TrabajoBien(a, d, t)
  /\ v => ListaCubre(d, c, l, t)

Enlace(i) ==
  /\ EnlaceEnOrden(aInst[i], deInst[i], viva[i], disponible[i], contenido[i],
                   claves[i], trabajo[i].clave)
  /\ Presentada(aInst[i], deInst[i], disponible[i], contenido[i], claves[i],
                i \in listas, Presentandose(i))
Ocupada(i) == Ocupa(aInst[i], deInst[i])

(* Nobody asks for a compaction or a status.                                *)
NadieCompacta ==
  /\ \A p \in DOMAIN planACoord : planACoord[p].tipo \in RespuestasDelPlan
  /\ \A i \in Instancias : pasoInst[i] \in {"libre", "presenta"}

(* One statement at most is under way, and the request lock is taken for it.*)
UnDueno ==
  /\ peticion <= 1
  /\ peticion = 1 => /\ \A e \in ESIs : paso[e] = "libre"
                     /\ \A i \in Instancias : ~Ocupada(i)
  /\ \A e, f \in ESIs : paso[e] # "libre" /\ paso[f] # "libre" => e = f
  /\ \A i, j \in Instancias : Ocupada(i) /\ Ocupada(j) => i = j
  /\ \A e \in ESIs, i \in Instancias : paso[e] # "libre" => ~Ocupada(i)

(* The lock of an instance is taken while a statement is in it.             *)
CerrojoTomado ==
  \A i \in Instancias : mutexInst[i] <= 1 /\ (Ocupada(i) => mutexInst[i] = 0)

(* A thread that waits has the statement its step names; the job of the     *)
(* instance it will send a SET to is that SET.                              *)
PedidoDelPaso ==
  \A e \in ESIs :
    /\ paso[e] \in {"esperaSET", "enviaSET"} => pedido[e].op = "SET"
    /\ paso[e] \in {"esperaSTORE", "enviaSTORE"} => pedido[e].op = "STORE"
    /\ paso[e] = "enviaSET" => trabajo[elegida[e]].clave = pedido[e].clave

Protocolo ==
  /\ NadieCompacta /\ UnDueno /\ CerrojoTomado /\ PedidoDelPaso
  /\ \A i \in Instancias : Enlace(i)

-----------------------------------------------------------------------------
(* Queues *)

(* The reader takes the first packet.                                       *)
LEMMA SinElPrimero ==
  ASSUME NEW M, NEW s \in Seq(M), s # <<>>
  PROVE  /\ Tail(s) \in Seq(M) /\ Head(s) \in M
         /\ 1 \in DOMAIN s /\ s[1] = Head(s) /\ Len(Tail(s)) = Len(s) - 1
         /\ Len(s) \in Nat
         /\ \A p \in DOMAIN Tail(s) :
              p \in Nat \ {0} /\ p + 1 \in DOMAIN s /\ Tail(s)[p] = s[p + 1]
         /\ \A p \in DOMAIN s :
              p = 1 \/ \E q \in DOMAIN Tail(s) : p = q + 1 /\ s[p] = Tail(s)[q]
<1>1. /\ Len(s) \in Nat /\ Len(s) # 0 /\ DOMAIN s = 1..Len(s)
      /\ Head(s) \in M /\ Tail(s) \in Seq(M) /\ Len(Tail(s)) = Len(s) - 1
      /\ \A p \in 1..Len(Tail(s)) : Tail(s)[p] = s[p + 1]
  BY HeadTailProperties, LenProperties, EmptySeq
<1>2. DOMAIN Tail(s) = 1..(Len(s) - 1)
  BY <1>1, LenProperties
<1>3. s[1] = Head(s) /\ 1 \in DOMAIN s
  BY <1>1
<1>4. ASSUME NEW p \in DOMAIN s, p # 1
      PROVE  \E q \in DOMAIN Tail(s) : p = q + 1 /\ s[p] = Tail(s)[q]
  <2>1. p - 1 \in 1..(Len(s) - 1) /\ p = (p - 1) + 1
    BY <1>1, <1>4
  <2>2. Tail(s)[p - 1] = s[p]
    BY <1>1, <2>1
  <2>3. QED
    BY <1>2, <2>1, <2>2
<1>5. \A p \in DOMAIN Tail(s) :
        p \in Nat \ {0} /\ p + 1 \in DOMAIN s /\ Tail(s)[p] = s[p + 1]
  BY <1>1, <1>2
<1>6. QED
  BY <1>1, <1>3, <1>4, <1>5

(* A packet more.                                                           *)
LEMMA ConUnoAlFinal ==
  ASSUME NEW M, NEW s \in Seq(M), NEW m \in M, NEW t, t = Append(s, m)
  PROVE  /\ t \in Seq(M) /\ Len(t) = Len(s) + 1 /\ Len(s) \in Nat
         /\ Len(t) \in DOMAIN t /\ t[Len(t)] = m
         /\ \A p \in DOMAIN s : p \in DOMAIN t /\ t[p] = s[p] /\ p \in 1..Len(s)
         /\ \A p \in DOMAIN t : p = Len(t) \/ (p \in DOMAIN s /\ t[p] = s[p])
<1>1. /\ t \in Seq(M) /\ Len(t) = Len(s) + 1 /\ Len(s) \in Nat
      /\ \A p \in 1..Len(s) : t[p] = s[p]
      /\ t[Len(s) + 1] = m
      /\ DOMAIN s = 1..Len(s) /\ DOMAIN t = 1..(Len(s) + 1)
  BY AppendProperties, LenProperties
<1>2. QED
  BY <1>1

(* A key more.                                                              *)
LEMMA RangoConUno ==
  ASSUME NEW M, NEW s \in Seq(M), NEW m \in M
  PROVE  Range(Append(s, m)) = Range(s) \cup {m}
<1> DEFINE t == Append(s, m)
<1>1. /\ Len(t) \in DOMAIN t /\ t[Len(t)] = m
      /\ \A p \in DOMAIN s : p \in DOMAIN t /\ t[p] = s[p]
      /\ \A p \in DOMAIN t : p = Len(t) \/ (p \in DOMAIN s /\ t[p] = s[p])
  BY ConUnoAlFinal
<1> HIDE DEF t
<1>2. Range(t) = Range(s) \cup {m}
  BY <1>1 DEF Range
<1>3. QED
  BY <1>2 DEF t

(* A key less, from a known place.                                          *)
LEMMA RangoSinUnLugar ==
  ASSUME NEW S, NEW s \in Seq(S), NEW m \in 1..Len(s), NEW t \in Seq(S),
         Len(t) = Len(s) - 1,
         \A p \in 1..Len(t) : t[p] = s[IF p < m THEN p ELSE p + 1]
  PROVE  /\ Range(t) \subseteq Range(s) /\ Range(s) \ {s[m]} \subseteq Range(t)
         /\ IsInjective(s) => IsInjective(t) /\ s[m] \notin Range(t)
<1> DEFINE n == Len(s)
           de == [p \in DOMAIN t |-> IF p < m THEN p ELSE p + 1]
<1>1. n \in Nat /\ DOMAIN s = 1..n /\ m \in 1..n /\ DOMAIN t = 1..(n - 1)
  BY LenProperties
<1>2. \A p \in DOMAIN t : t[p] = s[de[p]]
  BY <1>1
<1> HIDE DEF n
<1>3. \A p \in DOMAIN t : de[p] \in DOMAIN s /\ de[p] # m
  BY <1>1
<1>4. \A p, q \in DOMAIN t : de[p] = de[q] => p = q
  BY <1>1
<1>5. ASSUME NEW p \in DOMAIN s, p # m
      PROVE  \E q \in DOMAIN t : p = de[q]
  <2>1. CASE p < m
    <3>1. p \in DOMAIN t /\ de[p] = p
      BY <1>1, <2>1
    <3>2. QED
      BY <3>1
  <2>2. CASE p > m
    <3>1. p - 1 \in DOMAIN t /\ de[p - 1] = p
      BY <1>1, <1>5, <2>2
    <3>2. QED
      BY <3>1
  <2>3. QED
    BY <1>1, <1>5, <2>1, <2>2
<1> HIDE DEF de
<1>6. m \in DOMAIN s
  BY <1>1
<1>7. /\ Range(t) \subseteq Range(s) /\ Range(s) \ {s[m]} \subseteq Range(t)
  BY <1>2, <1>3, <1>5, <1>6 DEF Range
<1>8. ASSUME IsInjective(s) PROVE IsInjective(t) /\ s[m] \notin Range(t)
  <2>1. IsInjective(t)
    BY <1>2, <1>3, <1>4, <1>8 DEF IsInjective
  <2>2. s[m] \notin Range(t)
    BY <1>2, <1>3, <1>6, <1>8 DEF IsInjective, Range
  <2>3. QED
    BY <2>1, <2>2
<1>9. QED
  BY <1>7, <1>8

(* A key less: the others stay, and it is gone if it was listed once.       *)
LEMMA RangoSinUno ==
  ASSUME NEW S, NEW s \in Seq(S), NEW e
  PROVE  LET t == RemoveFirst(s, e) IN
         /\ t \in Seq(S)
         /\ Range(t) \subseteq Range(s) /\ Range(s) \ {e} \subseteq Range(t)
         /\ IsInjective(s) => IsInjective(t) /\ e \notin Range(t)
<1> DEFINE t == RemoveFirst(s, e)
<1> HIDE DEF t
<1>1. CASE t = s /\ \A i \in 1..Len(s) : s[i] # e
  <2>1. DOMAIN s = 1..Len(s)
    BY LenProperties
  <2>2. e \notin Range(s)
    BY <1>1, <2>1 DEF Range
  <2>3. QED
    BY <1>1, <2>2 DEF t
<1>2. ASSUME NEW m \in 1..Len(s), s[m] = e,
             t = SubSeq(s, 1, m - 1) \o SubSeq(s, m + 1, Len(s))
      PROVE  /\ t \in Seq(S)
             /\ Range(t) \subseteq Range(s) /\ Range(s) \ {e} \subseteq Range(t)
             /\ IsInjective(s) => IsInjective(t) /\ e \notin Range(t)
  <2>1. /\ t \in Seq(S) /\ Len(t) = Len(s) - 1
        /\ \A p \in 1..Len(t) : t[p] = s[IF p < m THEN p ELSE p + 1]
    BY <1>2, SinUnoDe
  <2> HIDE <1>2
  <2>2. /\ Range(t) \subseteq Range(s) /\ Range(s) \ {s[m]} \subseteq Range(t)
        /\ IsInjective(s) => IsInjective(t) /\ s[m] \notin Range(t)
    BY <2>1, RangoSinUnLugar
  <2>3. s[m] = e
    BY <1>2
  <2>4. QED
    BY <2>1, <2>2, <2>3
<1>3. QED
  BY <1>1, <1>2, RemoveFirstQuita DEF t

-----------------------------------------------------------------------------
(* The connection with an instance, one packet at a time: from it *)

(* What is known of a connection when its first packet is taken.            *)
LEMMA LlegaDeInstancia ==
  ASSUME NEW d \in Seq(MensajesDeInst), d # <<>>, NEW b, b = Tail(d)
  PROVE  /\ b \in Seq(MensajesDeInst)
         /\ Head(d) \in MensajesDeInst
         /\ 1 \in DOMAIN d /\ d[1] = Head(d)
         /\ Len(b) = Len(d) - 1 /\ Len(d) \in Nat
         /\ \A p \in DOMAIN b :
              p \in Nat \ {0} /\ p + 1 \in DOMAIN d /\ b[p] = d[p + 1]
         /\ \A p \in DOMAIN d :
              p = 1 \/ \E q \in DOMAIN b : p = q + 1 /\ d[p] = b[q]
BY SinElPrimero

(* procesarNombreInstancia: it may be chosen from now on.                   *)
LEMMA EnlaceTrasNombre ==
  ASSUME NEW a \in Seq(MensajesAInst), NEW d \in Seq(MensajesDeInst),
         NEW v, NEW s, NEW c, NEW l, NEW t, EnlaceEnOrden(a, d, v, s, c, l, t),
         d # <<>>, Head(d).tipo = "ENVIAR_NOMBRE_INSTANCIA"
  PROVE  /\ EnlaceEnOrden(a, Tail(d), v, TRUE, c, l, t)
         /\ a = <<>> /\ ~Ocupa(a, Tail(d))
<1> DEFINE b == Tail(d)
<1>1. /\ 1 \in DOMAIN d /\ d[1] = Head(d) /\ Len(b) = Len(d) - 1
      /\ \A p \in DOMAIN b :
           p \in Nat \ {0} /\ p + 1 \in DOMAIN d /\ b[p] = d[p + 1]
      /\ \A p \in DOMAIN d :
           p = 1 \/ \E q \in DOMAIN b : p = q + 1 /\ d[p] = b[q]
  BY LlegaDeInstancia
<1> HIDE DEF b
<1>2. Len(d) \in Nat
  BY LenProperties
<1>3. a = <<>> /\ c = {} /\ \A p \in DOMAIN b : b[p].tipo = "ENVIAR_ERROR"
  BY <1>1 DEF EnlaceEnOrden, EnlaceBien
<1>9. DOMAIN a = {}
  BY <1>3
<1>4. v \/ Hay(b, {"ENVIAR_ERROR"})
  BY <1>1 DEF EnlaceEnOrden, EnlaceBien, Hay
<1>5. EnlaceBien(a, b, v, TRUE, c, l)
  BY <1>1, <1>2, <1>3, <1>4 DEF EnlaceEnOrden, EnlaceBien
<1>6. PaquetesBien(a, b) /\ ~Ocupa(a, b)
  BY <1>1, <1>3, <1>9
  DEF EnlaceEnOrden, PaquetesBien, Hay, UnaVez, Ocupa, DeSentencia, DeRespuesta
<1>7. TrabajoBien(a, b, t) /\ ListaCubre(b, c, l, t)
  BY <1>3, <1>9 DEF TrabajoBien, Hay, ListaCubre
<1>8. QED
  BY <1>3, <1>5, <1>6, <1>7 DEF EnlaceEnOrden, b

(* procesarEnviarSetOk: the key of the job is listed.                       *)
LEMMA EnlaceTrasSetOk ==
  ASSUME NEW a \in Seq(MensajesAInst), NEW d \in Seq(MensajesDeInst),
         NEW v, NEW s, NEW c, NEW l \in Seq(Claves), NEW t,
         EnlaceEnOrden(a, d, v, s, c, l, t), d # <<>>, Head(d).tipo = "SET_OK"
  PROVE  /\ t \in Claves
         /\ EnlaceEnOrden(a, Tail(d), v, s, c, Append(l, t), t)
         /\ Ocupa(a, d) /\ ~Ocupa(a, Tail(d))
<1> DEFINE b == Tail(d)
           l2 == Append(l, t)
<1>1. /\ 1 \in DOMAIN d /\ d[1] = Head(d) /\ Len(b) = Len(d) - 1
      /\ \A p \in DOMAIN b :
           p \in Nat \ {0} /\ p + 1 \in DOMAIN d /\ b[p] = d[p + 1]
      /\ \A p \in DOMAIN d :
           p = 1 \/ \E q \in DOMAIN b : p = q + 1 /\ d[p] = b[q]
      /\ Len(d) \in Nat
  BY LlegaDeInstancia
<1> HIDE DEF b
<1>2. t \in Claves /\ Hay(d, {"SET_OK"})
  BY <1>1 DEF EnlaceEnOrden, TrabajoBien, Hay
<1>3. Range(l) \subseteq Range(l2) /\ t \in Range(l2)
  BY <1>2, RangoConUno
<1> HIDE DEF l2
<1>4. /\ ~Hay(a, DeSentencia) /\ ~Hay(b, DeRespuesta) /\ Hay(d, DeRespuesta)
      /\ PaquetesBien(a, b)
  BY <1>1 DEF EnlaceEnOrden, PaquetesBien, Hay, UnaVez, DeRespuesta
<1>5. EnlaceBien(a, b, v, s, c, l2)
  <2>1. \A p \in DOMAIN b : b[p].tipo = "ENVIAR_ERROR" => ~v /\ p = Len(b)
    BY <1>1 DEF EnlaceEnOrden, EnlaceBien
  <2>2. s => v \/ Hay(b, {"ENVIAR_ERROR"})
    BY <1>1 DEF EnlaceEnOrden, EnlaceBien, Hay
  <2>3. \A p \in DOMAIN b : b[p].tipo # "ENVIAR_NOMBRE_INSTANCIA"
    BY <1>1 DEF EnlaceEnOrden, EnlaceBien
  <2>4. QED
    BY <2>1, <2>2, <2>3 DEF EnlaceEnOrden, EnlaceBien
<1>6. \A p \in DOMAIN b : b[p].tipo # "ENVIAR_CLAVE_ELIMINADA"
  <2>1. SUFFICES ASSUME NEW p \in DOMAIN b,
                        b[p].tipo = "ENVIAR_CLAVE_ELIMINADA"
                 PROVE  FALSE
    OBVIOUS
  <2>2. PICK q \in DOMAIN d : d[q].tipo = "SET_OK" /\ p + 1 < q
    BY <1>1, <2>1 DEF EnlaceEnOrden, TrabajoBien
  <2>3. q = 1
    BY <1>1, <2>2 DEF EnlaceEnOrden, PaquetesBien, UnaVez, DeRespuesta
  <2>4. QED
    BY <1>1, <2>1, <2>2, <2>3
<1>7. TrabajoBien(a, b, t)
  BY <1>2, <1>6 DEF EnlaceEnOrden, TrabajoBien
<1>8. v => ListaCubre(b, c, l2, t)
  BY <1>3, <1>6 DEF EnlaceEnOrden, ListaCubre, Avisada, Eliminada
<1>9. QED
  BY <1>2, <1>4, <1>5, <1>7, <1>8 DEF EnlaceEnOrden, Ocupa, b, l2

(* STORE_OK only releases locks.                                            *)
LEMMA EnlaceTrasStoreOk ==
  ASSUME NEW a \in Seq(MensajesAInst), NEW d \in Seq(MensajesDeInst),
         NEW v, NEW s, NEW c, NEW l, NEW t,
         EnlaceEnOrden(a, d, v, s, c, l, t), d # <<>>, Head(d).tipo = "STORE_OK"
  PROVE  /\ EnlaceEnOrden(a, Tail(d), v, s, c, l, t)
         /\ Ocupa(a, d) /\ ~Ocupa(a, Tail(d))
<1> DEFINE b == Tail(d)
<1>1. /\ 1 \in DOMAIN d /\ d[1] = Head(d) /\ Len(b) = Len(d) - 1
      /\ \A p \in DOMAIN b :
           p \in Nat \ {0} /\ p + 1 \in DOMAIN d /\ b[p] = d[p + 1]
      /\ \A p \in DOMAIN d :
           p = 1 \/ \E q \in DOMAIN b : p = q + 1 /\ d[p] = b[q]
      /\ Len(d) \in Nat
  BY LlegaDeInstancia
<1> HIDE DEF b
<1>2. /\ ~Hay(a, DeSentencia) /\ ~Hay(b, DeRespuesta) /\ Hay(d, DeRespuesta)
      /\ PaquetesBien(a, b)
  BY <1>1 DEF EnlaceEnOrden, PaquetesBien, Hay, UnaVez, DeRespuesta
<1>3. EnlaceBien(a, b, v, s, c, l)
  <2>1. \A p \in DOMAIN b : b[p].tipo = "ENVIAR_ERROR" => ~v /\ p = Len(b)
    BY <1>1 DEF EnlaceEnOrden, EnlaceBien
  <2>2. s => v \/ Hay(b, {"ENVIAR_ERROR"})
    BY <1>1 DEF EnlaceEnOrden, EnlaceBien, Hay
  <2>3. \A p \in DOMAIN b : b[p].tipo # "ENVIAR_NOMBRE_INSTANCIA"
    BY <1>1 DEF EnlaceEnOrden, EnlaceBien
  <2>4. QED
    BY <2>1, <2>2, <2>3 DEF EnlaceEnOrden, EnlaceBien
<1>4. ~Hay(d, {"SET_OK"}) /\ ~Hay(b, {"SET_OK"})
  BY <1>1 DEF EnlaceEnOrden, PaquetesBien, Hay, UnaVez, DeRespuesta
<1>5. TrabajoBien(a, b, t) /\ (v => ListaCubre(b, c, l, t))
  BY <1>1, <1>4 DEF EnlaceEnOrden, TrabajoBien, ListaCubre, Avisada, Hay
<1>6. QED
  BY <1>2, <1>3, <1>5 DEF EnlaceEnOrden, Ocupa, b

(* procesarClaveEliminada: the key is not listed any more.                  *)
LEMMA EnlaceTrasEliminada ==
  ASSUME NEW a \in Seq(MensajesAInst), NEW d \in Seq(MensajesDeInst),
         NEW v, NEW s, NEW c, NEW l \in Seq(Claves), NEW t,
         EnlaceEnOrden(a, d, v, s, c, l, t), d # <<>>,
         Head(d).tipo = "ENVIAR_CLAVE_ELIMINADA"
  PROVE  /\ EnlaceEnOrden(a, Tail(d), v, s, c, RemoveFirst(l, Head(d).clave), t)
         /\ Ocupa(a, Tail(d)) => Ocupa(a, d)
<1> DEFINE b == Tail(d)
           k == Head(d).clave
           l2 == RemoveFirst(l, k)
<1>1. /\ 1 \in DOMAIN d /\ d[1] = Head(d) /\ Len(b) = Len(d) - 1
      /\ \A p \in DOMAIN b :
           p \in Nat \ {0} /\ p + 1 \in DOMAIN d /\ b[p] = d[p + 1]
      /\ \A p \in DOMAIN d :
           p = 1 \/ \E q \in DOMAIN b : p = q + 1 /\ d[p] = b[q]
      /\ Len(d) \in Nat
  BY LlegaDeInstancia
<1>0. Head(d) \in MensajesDeInst
  BY LlegaDeInstancia
<1>2. Head(d) = Eliminada(k)
  BY <1>0 DEF MensajesDeInst, Eliminada
<1> HIDE DEF b, k
<1>3. Range(l) \ {k} \subseteq Range(l2)
  BY RangoSinUno
<1> HIDE DEF l2
<1>4. PaquetesBien(a, b) /\ (Ocupa(a, b) => Ocupa(a, d))
  BY <1>1
  DEF EnlaceEnOrden, PaquetesBien, Hay, UnaVez, Ocupa, DeSentencia, DeRespuesta
<1>5. EnlaceBien(a, b, v, s, c, l2)
  <2>1. \A p \in DOMAIN b : b[p].tipo = "ENVIAR_ERROR" => ~v /\ p = Len(b)
    BY <1>1 DEF EnlaceEnOrden, EnlaceBien
  <2>2. s => v \/ Hay(b, {"ENVIAR_ERROR"})
    BY <1>1 DEF EnlaceEnOrden, EnlaceBien, Hay
  <2>3. \A p \in DOMAIN b : b[p].tipo # "ENVIAR_NOMBRE_INSTANCIA"
    BY <1>1 DEF EnlaceEnOrden, EnlaceBien
  <2>4. QED
    BY <2>1, <2>2, <2>3 DEF EnlaceEnOrden, EnlaceBien
<1>6. Hay(d, {"SET_OK"}) <=> Hay(b, {"SET_OK"})
  BY <1>1 DEF Hay
<1>7. TrabajoBien(a, b, t)
  <2>1. ASSUME NEW p \in DOMAIN b, b[p].tipo = "ENVIAR_CLAVE_ELIMINADA"
        PROVE  \E q \in DOMAIN b : b[q].tipo = "SET_OK" /\ p < q
    <3>1. PICK q \in DOMAIN d : d[q].tipo = "SET_OK" /\ p + 1 < q
      BY <1>1, <2>1 DEF EnlaceEnOrden, TrabajoBien
    <3>2. PICK r \in DOMAIN b : q = r + 1 /\ d[q] = b[r]
      BY <1>1, <3>1
    <3>3. QED
      BY <1>1, <2>1, <3>1, <3>2
  <2>2. QED
    BY <1>6, <2>1 DEF EnlaceEnOrden, TrabajoBien
<1>8. v => ListaCubre(b, c, l2, t)
  <2>1. \A x : Avisada(b, x) => Avisada(d, x)
    BY <1>1 DEF Avisada
  <2>2. Avisada(d, k)
    BY <1>1, <1>2 DEF Avisada
  <2>3. QED
    BY <1>3, <1>6, <2>1, <2>2 DEF EnlaceEnOrden, ListaCubre
<1>9. QED
  BY <1>4, <1>5, <1>7, <1>8 DEF EnlaceEnOrden, b, l2, k

(* procesarClienteDesconectado: nothing is left in the two queues.          *)
LEMMA EnlaceTrasError ==
  ASSUME NEW a \in Seq(MensajesAInst), NEW d \in Seq(MensajesDeInst),
         NEW v, NEW s, NEW c, NEW l, NEW t,
         EnlaceEnOrden(a, d, v, s, c, l, t), d # <<>>,
         Head(d).tipo = "ENVIAR_ERROR"
  PROVE  /\ EnlaceEnOrden(<<>>, Tail(d), v, FALSE, c, l, t)
         /\ Tail(d) = <<>> /\ ~Ocupa(<<>>, Tail(d))
<1>1. /\ 1 \in DOMAIN d /\ d[1] = Head(d) /\ Len(Tail(d)) = Len(d) - 1
      /\ Tail(d) \in Seq(MensajesDeInst)
  BY LlegaDeInstancia
<1>2. ~v /\ 1 = Len(d)
  BY <1>1 DEF EnlaceEnOrden, EnlaceBien
<1>3. Tail(d) = <<>>
  <2> DEFINE b == Tail(d)
  <2>1. b \in Seq(MensajesDeInst) /\ Len(b) = 1 - 1
    BY <1>1, <1>2, Zenon
  <2> HIDE DEF b
  <2>2. b = <<>>
    BY <2>1, EmptySeq
  <2>3. QED
    BY <2>2 DEF b
<1> DEFINE n == <<>>
<1>4. DOMAIN n = {}
  OBVIOUS
<1> HIDE DEF n
<1>5. EnlaceEnOrden(n, n, v, FALSE, c, l, t) /\ ~Ocupa(n, n)
  <2>1. n = <<>>
    BY DEF n
  <2>2. QED
    BY <1>2, <1>4, <2>1
    DEF EnlaceEnOrden, PaquetesBien, EnlaceBien, TrabajoBien, Hay, UnaVez, Ocupa
<1>6. QED
  BY <1>3, <1>5 DEF n

-----------------------------------------------------------------------------
(* ... and to it *)

(* It takes a packet.                                                       *)
LEMMA EnlaceSinPedido ==
  ASSUME NEW a \in Seq(MensajesAInst), NEW d, NEW v, NEW s, NEW c, NEW l, NEW t,
         EnlaceEnOrden(a, d, v, s, c, l, t), a # <<>>
  PROVE  /\ EnlaceEnOrden(Tail(a), d, v, s, c, l, t)
         /\ Ocupa(Tail(a), d) => Ocupa(a, d)
         /\ Head(a).tipo \in DeSentencia =>
              /\ Ocupa(a, d)
              /\ \A p \in DOMAIN Tail(a) : Tail(a)[p].tipo \notin DeSentencia
         /\ Head(a).tipo = "SET" => Head(a).clave = t
<1> DEFINE b == Tail(a)
<1>1. /\ 1 \in DOMAIN a /\ a[1] = Head(a)
      /\ \A p \in DOMAIN b :
           p \in Nat \ {0} /\ p + 1 \in DOMAIN a /\ b[p] = a[p + 1]
  BY SinElPrimero
<1> HIDE DEF b
<1>2. /\ PaquetesBien(b, d) /\ (Ocupa(b, d) => Ocupa(a, d))
      /\ Head(a).tipo \in DeSentencia =>
           /\ Ocupa(a, d)
           /\ \A p \in DOMAIN b : b[p].tipo \notin DeSentencia
  BY <1>1 DEF EnlaceEnOrden, PaquetesBien, Hay, UnaVez, Ocupa
<1>3. EnlaceBien(b, d, v, s, c, l)
  BY <1>1 DEF EnlaceEnOrden, EnlaceBien
<1>4. TrabajoBien(b, d, t) /\ (Head(a).tipo = "SET" => Head(a).clave = t)
  BY <1>1 DEF EnlaceEnOrden, TrabajoBien
<1>5. QED
  BY <1>2, <1>3, <1>4 DEF EnlaceEnOrden, b

(* When a living instance has something to take, it has answered all that   *)
(* it took before.                                                          *)
LEMMA TodoContestado ==
  ASSUME NEW a, NEW d \in Seq(MensajesDeInst), NEW v, NEW s, NEW c, NEW l, NEW t,
         EnlaceEnOrden(a, d, v, s, c, l, t), v, NEW p \in DOMAIN a,
         a[p].tipo \in DeInfo => ~Hay(d, DeLista)
  PROVE  d = <<>>
<1>1. \A q \in DOMAIN d : d[q].tipo # "ENVIAR_ERROR"
  BY DEF EnlaceEnOrden, EnlaceBien
<1>2. s
  BY DEF EnlaceEnOrden, EnlaceBien
<1>3. \A q \in DOMAIN d : FALSE
  <2>1. CASE a[p].tipo = "ENVIAR_INFO_INSTANCIA"
    <3>1. ~Hay(d, DeLista) /\ \A q \in DOMAIN d : d[q].tipo # "ENVIAR_NOMBRE_INSTANCIA"
      BY <1>2, <2>1 DEF EnlaceEnOrden, EnlaceBien, DeInfo
    <3>2. QED
      BY <1>1, <3>1 DEF EnlaceEnOrden, PaquetesBien, Hay, DeLista
  <2>2. CASE a[p].tipo \in DeSentencia
    <3>1. ~Hay(d, DeRespuesta)
      BY <2>2 DEF EnlaceEnOrden, PaquetesBien, Hay
    <3>2. \A q \in DOMAIN d : d[q].tipo # "ENVIAR_CLAVE_ELIMINADA"
      BY <3>1 DEF EnlaceEnOrden, TrabajoBien, Hay, DeRespuesta
    <3>3. \A q \in DOMAIN d : d[q].tipo # "ENVIAR_NOMBRE_INSTANCIA"
      BY <1>2 DEF EnlaceEnOrden, EnlaceBien
    <3>4. QED
      BY <1>1, <3>1, <3>2, <3>3
      DEF EnlaceEnOrden, PaquetesBien, Hay, DeRespuesta
  <2>3. QED
    BY <2>1, <2>2 DEF EnlaceEnOrden, PaquetesBien, DeSentencia
<1>4. Len(d) = 0
  <2>1. Len(d) \in Nat /\ DOMAIN d = 1..Len(d)
    BY LenProperties
  <2>2. 1 \notin DOMAIN d
    BY <1>3
  <2>3. QED
    BY <2>1, <2>2
<1>5. QED
  BY <1>4, EmptySeq

(* procesarEnviarInfoInstancia: it has some of the keys it is listed.       *)
LEMMA EnlaceTrasInfo ==
  ASSUME NEW a \in Seq(MensajesAInst), NEW d \in Seq(MensajesDeInst),
         NEW v, NEW s, NEW c, NEW l, NEW t,
         EnlaceEnOrden(a, d, v, s, c, l, t), v, a # <<>>,
         Head(a).tipo = "ENVIAR_INFO_INSTANCIA", NEW c2 \in SUBSET Head(a).clave,
         NEW r, NEW z, Presentada(a, d, s, c, l, r, z)
  PROVE  /\ EnlaceEnOrden(Tail(a), d, v, s, c2, l, t)
         /\ Presentada(Tail(a), d, s, c2, l, TRUE, z)
         /\ Ocupa(Tail(a), d) => Ocupa(a, d)
<1>1. 1 \in DOMAIN a /\ a[1] = Head(a)
  BY SinElPrimero
<1>0. ~r /\ ~z /\ ~Hay(d, DeLista) /\ Head(a).clave \subseteq Range(l)
  BY <1>1 DEF Presentada, Hay, DeInfo
<1>2. d = <<>>
  BY <1>0, <1>1, TodoContestado
<1>3. DOMAIN d = {}
  BY <1>2
<1> DEFINE b == Tail(a)
<1>4. /\ EnlaceEnOrden(b, d, v, s, c, l, t)
      /\ Ocupa(b, d) => Ocupa(a, d)
  BY EnlaceSinPedido
<1>5. \A p \in DOMAIN b : b[p].tipo \notin DeInfo
  <2>1. \A p \in DOMAIN b :
          p \in Nat \ {0} /\ p + 1 \in DOMAIN a /\ b[p] = a[p + 1]
    BY SinElPrimero
  <2> HIDE DEF b
  <2>2. QED
    BY <1>1, <2>1 DEF Presentada, UnaVez, DeInfo
<1> HIDE DEF b
<1>6. EnlaceEnOrden(b, d, v, s, c2, l, t)
  BY <1>0, <1>3, <1>4 DEF EnlaceEnOrden, EnlaceBien, ListaCubre, Avisada
<1>7. Presentada(b, d, s, c2, l, TRUE, z)
  BY <1>0, <1>3, <1>5 DEF Presentada, UnaVez, Hay
<1>8. QED
  BY <1>4, <1>6, <1>7 DEF b

(* What a SET answers: the keys that go, each of which was there, and last  *)
(* that it was done.                                                        *)
RespuestaDeSet(ms, c, quedan) ==
  /\ ms \in Seq(MensajesDeInst)
  /\ Len(ms) \in DOMAIN ms /\ ms[Len(ms)] = Mensaje("SET_OK")
  /\ \A p \in DOMAIN ms :
       p = Len(ms) \/ \E x \in c \ quedan : ms[p] = Eliminada(x)
  /\ \A x \in c \ quedan : Avisada(ms, x)
  /\ \A p \in DOMAIN ms : p \in Nat /\ p <= Len(ms)

(* procesarSet *)
LEMMA EnlaceTrasSet ==
  ASSUME NEW a \in Seq(MensajesAInst), NEW d \in Seq(MensajesDeInst),
         NEW v, NEW s, NEW c, NEW l, NEW t,
         EnlaceEnOrden(a, d, v, s, c, l, t), v, a # <<>>,
         Head(a).tipo = "SET", Head(a).clave \in Claves,
         NEW quedan \in SUBSET c, NEW ms, RespuestaDeSet(ms, c, quedan)
  PROVE  /\ EnlaceEnOrden(Tail(a), ms, v, s, quedan \cup {Head(a).clave}, l, t)
         /\ Ocupa(a, d) /\ d = <<>>
<1>1. 1 \in DOMAIN a /\ a[1] = Head(a)
  BY SinElPrimero
<1>2. d = <<>>
  BY <1>1, TodoContestado DEF DeInfo
<1>3. DOMAIN d = {}
  BY <1>2
<1> DEFINE b == Tail(a)
           k == Head(a).clave
<1>4. /\ EnlaceEnOrden(b, d, v, s, c, l, t) /\ Ocupa(a, d) /\ k = t /\ k \in Claves
      /\ \A p \in DOMAIN b : b[p].tipo \notin DeSentencia
  BY EnlaceSinPedido DEF DeSentencia
<1> HIDE DEF b, k
<1>5. s
  BY <1>1 DEF EnlaceEnOrden, EnlaceBien
<1>6. \A p \in DOMAIN ms :
        \/ p = Len(ms) /\ ms[p].tipo = "SET_OK"
        \/ /\ p < Len(ms) /\ ms[p].tipo = "ENVIAR_CLAVE_ELIMINADA"
           /\ \E x \in c \ quedan : ms[p] = Eliminada(x)
  <2>1. ASSUME NEW p \in DOMAIN ms, p # Len(ms)
        PROVE  p < Len(ms)
    <3>1. Len(ms) \in Nat /\ p \in Nat /\ p <= Len(ms)
      BY DEF RespuestaDeSet
    <3>2. QED
      BY <2>1, <3>1
  <2>2. QED
    BY <2>1 DEF RespuestaDeSet, Mensaje, Eliminada
<1>7. Hay(ms, {"SET_OK"}) /\ Hay(ms, DeRespuesta)
  BY DEF RespuestaDeSet, Hay, Mensaje, DeRespuesta
<1>8. PaquetesBien(b, ms)
  BY <1>4, <1>6 DEF EnlaceEnOrden, PaquetesBien, Hay, UnaVez, DeRespuesta
<1>9. EnlaceBien(b, ms, v, s, quedan \cup {k}, l)
  BY <1>4, <1>5, <1>6 DEF EnlaceBien
<1>10. TrabajoBien(b, ms, t)
  <2>1. ms[Len(ms)].tipo = "SET_OK" /\ Len(ms) \in DOMAIN ms
    BY DEF RespuestaDeSet, Mensaje
  <2>2. QED
    BY <1>4, <1>6, <2>1 DEF TrabajoBien, DeSentencia
<1>11. ListaCubre(ms, quedan \cup {k}, l, t)
  <2>1. \A x \in quedan : x \in Range(l)
    BY <1>3, <1>4 DEF EnlaceEnOrden, ListaCubre, Hay
  <2>2. \A x \in quedan : ~Avisada(ms, x)
    BY <1>6 DEF Avisada, Eliminada
  <2>3. QED
    BY <1>4, <1>7, <2>1, <2>2 DEF ListaCubre
<1>12. QED
  BY <1>2, <1>4, <1>8, <1>9, <1>10, <1>11 DEF EnlaceEnOrden, b, k

(* procesarStore, of a key the instance has.                                *)
LEMMA EnlaceTrasStore ==
  ASSUME NEW a \in Seq(MensajesAInst), NEW d \in Seq(MensajesDeInst),
         NEW v, NEW s, NEW c, NEW l, NEW t,
         EnlaceEnOrden(a, d, v, s, c, l, t), v, a # <<>>, Head(a).tipo = "STORE"
  PROVE  /\ EnlaceEnOrden(Tail(a), <<Mensaje("STORE_OK")>>, v, s, c, l, t)
         /\ Ocupa(a, d) /\ d = <<>>
<1>1. 1 \in DOMAIN a /\ a[1] = Head(a)
  BY SinElPrimero
<1>2. d = <<>>
  BY <1>1, TodoContestado DEF DeInfo
<1>3. DOMAIN d = {}
  BY <1>2
<1> DEFINE b == Tail(a)
           ms == <<Mensaje("STORE_OK")>>
<1>4. /\ EnlaceEnOrden(b, d, v, s, c, l, t) /\ Ocupa(a, d)
      /\ \A p \in DOMAIN b : b[p].tipo \notin DeSentencia
  BY EnlaceSinPedido DEF DeSentencia
<1>5. DOMAIN ms = {1} /\ ms[1] = Mensaje("STORE_OK")
  OBVIOUS
<1> HIDE DEF b, ms
<1>6. s
  BY <1>1 DEF EnlaceEnOrden, EnlaceBien
<1>7. PaquetesBien(b, ms)
  BY <1>4, <1>5
  DEF EnlaceEnOrden, PaquetesBien, Hay, UnaVez, DeRespuesta, Mensaje
<1>8. EnlaceBien(b, ms, v, s, c, l)
  BY <1>4, <1>5, <1>6 DEF EnlaceBien, Mensaje
<1>9. TrabajoBien(b, ms, t) /\ ListaCubre(ms, c, l, t)
  BY <1>3, <1>4, <1>5
  DEF EnlaceEnOrden, TrabajoBien, ListaCubre, Hay, Avisada, Eliminada, Mensaje,
      DeSentencia
<1>10. QED
  BY <1>2, <1>4, <1>7, <1>8, <1>9 DEF EnlaceEnOrden, b, ms

(* The instance dies: the coordinator reads the end after the rest.         *)
LEMMA EnlaceTrasMuerte ==
  ASSUME NEW a \in Seq(MensajesAInst), NEW d \in Seq(MensajesDeInst),
         NEW v, NEW s, NEW c, NEW l, NEW t, EnlaceEnOrden(a, d, v, s, c, l, t), v
  PROVE  /\ EnlaceEnOrden(a, Append(d, Mensaje("ENVIAR_ERROR")), FALSE, s, c, l, t)
         /\ Ocupa(a, Append(d, Mensaje("ENVIAR_ERROR"))) => Ocupa(a, d)
<1> DEFINE m == Mensaje("ENVIAR_ERROR")
           e == Append(d, m)
<1>1. m \in MensajesDeInst /\ m.tipo = "ENVIAR_ERROR"
  BY DEF Mensaje, MensajesDeInst
<1> HIDE DEF m
<1>2. /\ Len(e) \in DOMAIN e /\ e[Len(e)] = m
      /\ \A p \in DOMAIN d : p \in DOMAIN e /\ e[p] = d[p]
      /\ \A p \in DOMAIN e : p = Len(e) \/ (p \in DOMAIN d /\ e[p] = d[p])
  BY <1>1, ConUnoAlFinal
<1> HIDE DEF e
<1>3. PaquetesBien(a, e) /\ (Ocupa(a, e) => Ocupa(a, d))
  BY <1>1, <1>2
  DEF EnlaceEnOrden, PaquetesBien, Hay, UnaVez, Ocupa, DeRespuesta
<1>4. EnlaceBien(a, e, FALSE, s, c, l)
  <2>1. \A p \in DOMAIN d : d[p].tipo # "ENVIAR_ERROR"
    BY DEF EnlaceEnOrden, EnlaceBien
  <2>2. \A p \in DOMAIN e : e[p].tipo = "ENVIAR_ERROR" => p = Len(e)
    BY <1>1, <1>2, <2>1
  <2>3. Hay(e, {"ENVIAR_ERROR"})
    BY <1>1, <1>2 DEF Hay
  <2>4. \A p \in DOMAIN e : e[p].tipo = "ENVIAR_NOMBRE_INSTANCIA" =>
          /\ p = 1 /\ ~s /\ c = {}
          /\ \A q \in DOMAIN e : q # p => e[q].tipo = "ENVIAR_ERROR"
    BY <1>1, <1>2 DEF EnlaceEnOrden, EnlaceBien
  <2>5. QED
    BY <2>2, <2>3, <2>4 DEF EnlaceEnOrden, EnlaceBien
<1>5. TrabajoBien(a, e, t)
  <2>1. Hay(e, {"SET_OK"}) => Hay(d, {"SET_OK"})
    BY <1>1, <1>2 DEF Hay
  <2>2. QED
    BY <1>1, <1>2, <2>1 DEF EnlaceEnOrden, TrabajoBien
<1>6. QED
  BY <1>3, <1>4, <1>5 DEF EnlaceEnOrden, e, m

(* conectarInstancia: a new process has no key, and says its name first.    *)
LEMMA EnlaceAlConectar ==
  ASSUME NEW a \in Seq(MensajesAInst), NEW d, NEW v, NEW s, NEW c, NEW l, NEW t,
         EnlaceEnOrden(a, d, v, s, c, l, t), v = FALSE, d = <<>>
  PROVE  /\ EnlaceEnOrden(a, <<Mensaje("ENVIAR_NOMBRE_INSTANCIA")>>,
                          TRUE, s, {}, l, t)
         /\ a = <<>> /\ ~s /\ ~Ocupa(a, <<Mensaje("ENVIAR_NOMBRE_INSTANCIA")>>)
<1> DEFINE e == <<Mensaje("ENVIAR_NOMBRE_INSTANCIA")>>
<1>1. DOMAIN d = {} /\ DOMAIN e = {1} /\ e[1] = Mensaje("ENVIAR_NOMBRE_INSTANCIA")
  OBVIOUS
<1>2. EnlaceEnOrden(a, d, v, s, c, l, t)
  OBVIOUS
<1> HIDE DEF e
<1>3. ~s
  BY <1>1, <1>2 DEF EnlaceEnOrden, EnlaceBien, Hay
<1>4. a = <<>>
  BY <1>2, <1>3 DEF EnlaceEnOrden, EnlaceBien
<1>5. DOMAIN a = {}
  BY <1>4
<1>6. EnlaceEnOrden(a, e, TRUE, s, {}, l, t) /\ ~Ocupa(a, e)
  BY <1>1, <1>3, <1>4, <1>5
  DEF EnlaceEnOrden, PaquetesBien, EnlaceBien, TrabajoBien, ListaCubre, Hay,
      UnaVez, Ocupa, Mensaje, DeSentencia, DeRespuesta
<1>7. QED
  BY <1>3, <1>4, <1>6 DEF e

(* A statement is sent to an instance that has none.                        *)
LEMMA EnlaceTrasEnviar ==
  ASSUME NEW a \in Seq(MensajesAInst), NEW d, NEW v, NEW s, NEW c, NEW l, NEW t,
         EnlaceEnOrden(a, d, v, s, c, l, t), s, ~Ocupa(a, d),
         NEW m \in MensajesAInst, m.tipo \in DeSentencia,
         m.tipo = "SET" => m.clave = t
  PROVE  EnlaceEnOrden(Append(a, m), d, v, s, c, l, t)
<1> DEFINE b == Append(a, m)
<1>1. /\ Len(b) \in DOMAIN b /\ b[Len(b)] = m
      /\ \A p \in DOMAIN a : p \in DOMAIN b /\ b[p] = a[p]
      /\ \A p \in DOMAIN b : p = Len(b) \/ (p \in DOMAIN a /\ b[p] = a[p])
  BY ConUnoAlFinal
<1> HIDE DEF b
<1>2. PaquetesBien(b, d)
  BY <1>1 DEF EnlaceEnOrden, PaquetesBien, Hay, UnaVez, Ocupa, DeSentencia
<1>3. EnlaceBien(b, d, v, s, c, l)
  BY <1>1 DEF EnlaceEnOrden, EnlaceBien, DeSentencia
<1>4. TrabajoBien(b, d, t)
  BY <1>1 DEF EnlaceEnOrden, TrabajoBien
<1>5. QED
  BY <1>2, <1>3, <1>4 DEF EnlaceEnOrden, b

(* enviarInfoInstancia: it gets the keys it is listed.                      *)
LEMMA EnlaceTrasPresentar ==
  ASSUME NEW a \in Seq(MensajesAInst), NEW d, NEW v, NEW s, NEW c, NEW l, NEW t,
         EnlaceEnOrden(a, d, v, s, c, l, t),
         NEW r, Presentada(a, d, s, c, l, r, TRUE), NEW m \in MensajesAInst,
         m.tipo = "ENVIAR_INFO_INSTANCIA", m.clave = Range(l)
  PROVE  /\ EnlaceEnOrden(Append(a, m), d, v, s, c, l, t)
         /\ Presentada(Append(a, m), d, s, c, l, r, FALSE)
         /\ Ocupa(Append(a, m), d) => Ocupa(a, d)
<1> DEFINE b == Append(a, m)
<1>1. /\ Len(b) \in DOMAIN b /\ b[Len(b)] = m
      /\ \A p \in DOMAIN a : p \in DOMAIN b /\ b[p] = a[p]
      /\ \A p \in DOMAIN b : p = Len(b) \/ (p \in DOMAIN a /\ b[p] = a[p])
  BY ConUnoAlFinal
<1> HIDE DEF b
<1>2. s /\ ~r /\ ~Hay(a, DeInfo)
  BY DEF Presentada, Hay
<1>3. PaquetesBien(b, d) /\ (Ocupa(b, d) => Ocupa(a, d))
  BY <1>1 DEF EnlaceEnOrden, PaquetesBien, Hay, UnaVez, Ocupa, DeSentencia
<1>4. EnlaceBien(b, d, v, s, c, l)
  BY <1>1, <1>2 DEF EnlaceEnOrden, EnlaceBien
<1>5. TrabajoBien(b, d, t)
  BY <1>1 DEF EnlaceEnOrden, TrabajoBien
<1>6. Presentada(b, d, s, c, l, r, FALSE)
  BY <1>1, <1>2 DEF Presentada, UnaVez, Hay, DeInfo
<1>7. QED
  BY <1>3, <1>4, <1>5, <1>6 DEF EnlaceEnOrden, b

(* Another job is recorded for an instance that has no statement.           *)
LEMMA EnlaceOtroTrabajo ==
  ASSUME NEW a, NEW d, NEW v, NEW s, NEW c, NEW l, NEW t,
         EnlaceEnOrden(a, d, v, s, c, l, t), ~Ocupa(a, d), NEW t2
  PROVE  EnlaceEnOrden(a, d, v, s, c, l, t2)
<1>1. ~Hay(d, {"SET_OK"}) /\ \A p \in DOMAIN a : a[p].tipo # "SET"
  BY DEF Ocupa, Hay, DeSentencia, DeRespuesta
<1>2. TrabajoBien(a, d, t2)
  BY <1>1 DEF EnlaceEnOrden, TrabajoBien, Hay
<1>3. v => ListaCubre(d, c, l, t2)
  BY <1>1 DEF EnlaceEnOrden, ListaCubre
<1>4. QED
  BY <1>2, <1>3 DEF EnlaceEnOrden

(* Nothing is on the way at the start.                                      *)
LEMMA EnlaceInicial ==
  ASSUME NEW v, NEW t
  PROVE  /\ EnlaceEnOrden(<<>>, <<>>, v, v, {}, <<>>, t)
         /\ \A r : Presentada(<<>>, <<>>, v, {}, <<>>, r, FALSE)
         /\ ~Ocupa(<<>>, <<>>)
<1> DEFINE n == <<>>
<1>1. DOMAIN n = {} /\ n = <<>>
  OBVIOUS
<1> HIDE DEF n
<1>2. EnlaceEnOrden(n, n, v, v, {}, n, t) /\ ~Ocupa(n, n)
  BY <1>1
  DEF EnlaceEnOrden, PaquetesBien, EnlaceBien, TrabajoBien, ListaCubre, Hay,
      UnaVez, Ocupa
<1>3. ASSUME NEW r PROVE Presentada(n, n, v, {}, n, r, FALSE)
  BY <1>1 DEF Presentada, Hay, UnaVez
<1>4. QED
  BY <1>2, <1>3 DEF n

-----------------------------------------------------------------------------
(* The presentation of an instance, packet by packet *)

(* Its first packet is taken: an answer, which only one with tables gives,  *)
(* or its name, or its end.                                                 *)
LEMMA PresentadaTrasLeer ==
  ASSUME NEW a, NEW d \in Seq(MensajesDeInst), d # <<>>, NEW s, NEW c, NEW l, NEW r,
         NEW z, Presentada(a, d, s, c, l, r, z)
  PROVE  /\ Head(d).tipo \in DeLista =>
              \A l2 : Presentada(a, Tail(d), s, c, l2, r, z)
         /\ Head(d).tipo \in DeNombre /\ a = <<>> =>
              Presentada(a, Tail(d), TRUE, c, l, r, TRUE)
         /\ ~z => Presentada(<<>>, Tail(d), FALSE, c, l, r, FALSE)
<1> DEFINE b == Tail(d)
<1>1. /\ 1 \in DOMAIN d /\ d[1] = Head(d)
      /\ \A p \in DOMAIN b : p + 1 \in DOMAIN d /\ b[p] = d[p + 1]
  BY LlegaDeInstancia
<1> HIDE DEF b
<1>2. /\ Hay(b, DeNombre) => Hay(d, DeNombre)
      /\ Hay(b, DeLista) => Hay(d, DeLista)
  BY <1>1 DEF Hay
<1>3. ASSUME Head(d).tipo \in DeLista, NEW l2
      PROVE  Presentada(a, b, s, c, l2, r, z)
  <2>1. Hay(d, DeLista)
    BY <1>1, <1>3 DEF Hay
  <2>2. r
    BY <2>1 DEF Presentada
  <2>3. QED
    BY <1>2, <2>2 DEF Presentada
<1>4. ASSUME Head(d).tipo \in DeNombre, a = <<>>
      PROVE  Presentada(a, b, TRUE, c, l, r, TRUE)
  <2>1. Hay(d, DeNombre) /\ DOMAIN a = {}
    BY <1>1, <1>4 DEF Hay
  <2>2. ~r
    BY <2>1 DEF Presentada
  <2>3. QED
    BY <1>2, <2>1, <2>2 DEF Presentada
<1> DEFINE n == <<>>
<1>5. DOMAIN n = {}
  OBVIOUS
<1> HIDE DEF n
<1>6. ASSUME ~z PROVE Presentada(n, b, FALSE, c, l, r, FALSE)
  BY <1>2, <1>5, <1>6 DEF Presentada, UnaVez, Hay
<1>7. QED
  BY <1>3, <1>4, <1>6 DEF b, n

(* It takes a packet that is not ENVIAR_INFO_INSTANCIA.                     *)
LEMMA PresentadaSinPedido ==
  ASSUME NEW a \in Seq(MensajesAInst), a # <<>>, NEW d, NEW s, NEW c, NEW l, NEW r,
         NEW z, Presentada(a, d, s, c, l, r, z)
  PROVE  Presentada(Tail(a), d, s, c, l, r, z)
<1> DEFINE b == Tail(a)
<1>1. \A p \in DOMAIN b :
        p \in Nat \ {0} /\ p + 1 \in DOMAIN a /\ b[p] = a[p + 1]
  BY SinElPrimero
<1> HIDE DEF b
<1>2. UnaVez(b, DeInfo) /\ (Hay(b, DeInfo) => Hay(a, DeInfo))
  BY <1>1 DEF Presentada, UnaVez, Hay
<1>3. ~r => \A p \in DOMAIN b :
               b[p].tipo \in DeInfo => ~z /\ b[p].clave \subseteq Range(l)
  BY <1>1 DEF Presentada
<1>4. QED
  BY <1>2, <1>3 DEF Presentada, b

(* One with tables answers.                                                 *)
LEMMA PresentadaTrasResponder ==
  ASSUME NEW a, NEW d, NEW s, NEW c, NEW l, NEW z, NEW r, r,
         Presentada(a, d, s, c, l, r, z), NEW c2, NEW ms, ~Hay(ms, DeNombre)
  PROVE  Presentada(a, ms, s, c2, l, r, z)
BY DEF Presentada

(* It dies.                                                                 *)
LEMMA PresentadaTrasMuerte ==
  ASSUME NEW a, NEW d \in Seq(MensajesDeInst), NEW s, NEW c, NEW l, NEW r, NEW z,
         Presentada(a, d, s, c, l, r, z)
  PROVE  Presentada(a, Append(d, Mensaje("ENVIAR_ERROR")), s, c, l, r, z)
<1> DEFINE m == Mensaje("ENVIAR_ERROR")
           e == Append(d, m)
<1>1. m \in MensajesDeInst /\ m.tipo = "ENVIAR_ERROR"
  BY DEF Mensaje, MensajesDeInst
<1> HIDE DEF m
<1>2. \A p \in DOMAIN e : e[p] = m \/ (p \in DOMAIN d /\ e[p] = d[p])
  BY <1>1, ConUnoAlFinal
<1> HIDE DEF e
<1>3. /\ Hay(e, DeNombre) => Hay(d, DeNombre)
      /\ Hay(e, DeLista) => Hay(d, DeLista)
  BY <1>1, <1>2 DEF Hay, DeNombre, DeLista
<1>4. Presentada(a, e, s, c, l, r, z)
  BY <1>3 DEF Presentada
<1>5. QED
  BY <1>4 DEF e, m

(* A new process: it has no tables.                                         *)
LEMMA PresentadaAlConectar ==
  ASSUME NEW a, a = <<>>, NEW d, NEW s, ~s, NEW c, NEW l, NEW r, NEW z,
         Presentada(a, d, s, c, l, r, z)
  PROVE  Presentada(a, <<Mensaje("ENVIAR_NOMBRE_INSTANCIA")>>, s, {}, l, FALSE, z)
<1> DEFINE e == <<Mensaje("ENVIAR_NOMBRE_INSTANCIA")>>
<1>1. DOMAIN a = {} /\ ~z
  BY DEF Presentada
<1>2. DOMAIN e = {1} /\ e[1].tipo = "ENVIAR_NOMBRE_INSTANCIA"
  BY DEF Mensaje
<1> HIDE DEF e
<1>3. Presentada(a, e, s, {}, l, FALSE, z)
  BY <1>1, <1>2 DEF Presentada, UnaVez, Hay, DeLista
<1>4. QED
  BY <1>3 DEF e

(* A statement is sent to it.                                               *)
LEMMA PresentadaTrasEnviar ==
  ASSUME NEW a \in Seq(MensajesAInst), NEW d, NEW s, NEW c, NEW l, NEW r, NEW z,
         Presentada(a, d, s, c, l, r, z),
         NEW m \in MensajesAInst, m.tipo \in DeSentencia
  PROVE  Presentada(Append(a, m), d, s, c, l, r, z)
<1> DEFINE b == Append(a, m)
<1>1. \A p \in DOMAIN b : b[p] = m \/ (p \in DOMAIN a /\ b[p] = a[p])
  BY ConUnoAlFinal
<1> HIDE DEF b
<1>2. \A p \in DOMAIN b :
        b[p].tipo \in DeInfo => p \in DOMAIN a /\ b[p] = a[p]
  BY <1>1 DEF DeInfo, DeSentencia
<1>3. UnaVez(b, DeInfo) /\ (Hay(b, DeInfo) => Hay(a, DeInfo))
  BY <1>2 DEF Presentada, UnaVez, Hay
<1>4. QED
  BY <1>2, <1>3 DEF Presentada, b

-----------------------------------------------------------------------------
(* The whole system, one process or thread at a time *)

(* Nothing is connected, on the way or taken at first.                      *)
LEMMA ProtocoloInicial == Init => Protocolo
<1> SUFFICES ASSUME Init PROVE Protocolo
  OBVIOUS
<1>1. ASSUME NEW i \in Instancias
      PROVE  /\ Enlace(i) /\ ~Ocupada(i)
             /\ mutexInst[i] = 1 /\ pasoInst[i] = "libre"
  <2>1. /\ aInst[i] = <<>> /\ deInst[i] = <<>> /\ contenido[i] = {}
        /\ claves[i] = <<>> /\ viva[i] = disponible[i]
    BY DEF Init, CanalesInit, CoordInit, InstInit
  <2>2. mutexInst[i] = 1 /\ pasoInst[i] = "libre" /\ Presentandose(i) = FALSE
    BY DEF Init, CoordInit, Presentandose
  <2>3. QED
    BY <2>1, <2>2, EnlaceInicial DEF Enlace, Ocupada
<1>2. /\ peticion = 1 /\ planACoord = <<>>
      /\ \A e \in ESIs : paso[e] = "libre"
  BY DEF Init, CoordInit, CanalesInit
<1>3. QED
  BY <1>1, <1>2
  DEF Protocolo, NadieCompacta, UnDueno, CerrojoTomado, PedidoDelPaso

(* What Protocolo speaks of, the answers of the planner aside.              *)
varsEnlaces ==
  <<aInst, deInst, viva, disponible, contenido, claves, trabajo, mutexInst, listas>>
varsProtocolo == <<varsEnlaces, paso, pedido, elegida, peticion, pasoInst>>

(* The answers of the planner may only be answers.                          *)
LEMMA ProtocoloQuieto ==
  ASSUME Protocolo, UNCHANGED varsProtocolo,
         \A p \in DOMAIN planACoord' : planACoord'[p].tipo \in RespuestasDelPlan
  PROVE  Protocolo'
<1>1. \A i \in Instancias : Enlace(i)' /\ (Ocupada(i)' <=> Ocupada(i))
  BY DEF Protocolo, Enlace, Ocupada, Presentandose, varsProtocolo, varsEnlaces
<1>2. UNCHANGED <<mutexInst, paso, pedido, elegida, peticion, pasoInst, trabajo>>
  BY DEF varsProtocolo, varsEnlaces
<1>3. QED
  BY <1>1, <1>2
  DEF Protocolo, NadieCompacta, UnDueno, CerrojoTomado, PedidoDelPaso

(* The step is on the connection of one instance, not on the others.        *)
SoloEn(i) ==
  /\ \A j \in Instancias \ {i} :
       /\ aInst'[j] = aInst[j] /\ deInst'[j] = deInst[j]
       /\ viva'[j] = viva[j] /\ disponible'[j] = disponible[j]
       /\ contenido'[j] = contenido[j] /\ claves'[j] = claves[j]
       /\ mutexInst'[j] = mutexInst[j] /\ pasoInst'[j] = pasoInst[j]
       /\ j \in listas' <=> j \in listas
  /\ pasoInst'[i] \in {"libre", "presenta"}
  /\ UNCHANGED <<trabajo, paso, pedido, elegida, planACoord>>

(* It takes no statement in; or it answers one; or it drops all it had.     *)
NoEntra(i) ==
  /\ Ocupada(i)' => Ocupada(i)
  /\ peticion' = peticion /\ mutexInst'[i] = mutexInst[i]
Responde(i) ==
  /\ Ocupada(i) /\ ~Ocupada(i)'
  /\ peticion' = peticion + 1 /\ mutexInst'[i] = mutexInst[i] + 1
Suelta(i) ==
  /\ ~Ocupada(i)'
  /\ peticion' = peticion /\ mutexInst'[i] <= 1

(* A step at one connection keeps the rest when nothing enters the instance *)
(* there, when its answer is read, or when its statement is lost.           *)
LEMMA ProtocoloEnUna ==
  ASSUME Protocolo, Tipos, NEW i \in Instancias, SoloEn(i), Enlace(i)',
         NoEntra(i) \/ Responde(i) \/ Suelta(i)
  PROVE  Protocolo'
<1>1. /\ \A j \in Instancias : mutexInst[j] \in Nat
      /\ peticion \in Nat
  BY DEF Tipos, TypeOK, CoordTypeOK
<1>2. \A j \in Instancias \ {i} : Enlace(j)' /\ (Ocupada(j)' <=> Ocupada(j))
  <2> SUFFICES ASSUME NEW j \in Instancias \ {i}
               PROVE  Enlace(j)' /\ (Ocupada(j)' <=> Ocupada(j))
    OBVIOUS
  <2>1. Enlace(j)
    BY DEF Protocolo
  <2>2. Presentandose(j)' = Presentandose(j) /\ (j \in listas)' = (j \in listas)
    BY DEF SoloEn, Presentandose
  <2>3. QED
    BY <2>1, <2>2 DEF SoloEn, Enlace, Ocupada
<1>3. /\ \A j \in Instancias \ {i} :
           mutexInst'[j] = mutexInst[j] /\ pasoInst'[j] = pasoInst[j]
      /\ pasoInst'[i] \in {"libre", "presenta"}
      /\ UNCHANGED <<trabajo, paso, pedido, elegida, planACoord>>
  BY DEF SoloEn
<1>4. NadieCompacta' /\ PedidoDelPaso'
  BY <1>3 DEF Protocolo, NadieCompacta, PedidoDelPaso
<1>5. UnDueno' /\ CerrojoTomado'
  <2>1. CASE NoEntra(i)
    BY <1>1, <1>2, <1>3, <2>1 DEF Protocolo, NoEntra, UnDueno, CerrojoTomado
  <2>2. CASE Responde(i)
    <3>1. Ocupada(i) /\ ~Ocupada(i)' /\ peticion' = peticion + 1
          /\ mutexInst'[i] = mutexInst[i] + 1
      BY <2>2 DEF Responde
    <3>2. /\ peticion = 0 /\ mutexInst[i] = 0
          /\ \A e \in ESIs : paso[e] = "libre"
          /\ \A j \in Instancias : j # i => ~Ocupada(j)
      BY <1>1, <3>1 DEF Protocolo, UnDueno, CerrojoTomado
    <3>3. UnDueno'
      BY <1>2, <1>3, <3>1, <3>2 DEF UnDueno
    <3>4. CerrojoTomado'
      BY <1>1, <1>2, <1>3, <3>1, <3>2 DEF Protocolo, CerrojoTomado
    <3>5. QED
      BY <3>3, <3>4
  <2>3. CASE Suelta(i)
    BY <1>1, <1>2, <1>3, <2>3 DEF Protocolo, Suelta, UnDueno, CerrojoTomado
  <2>4. QED
    BY <2>1, <2>2, <2>3
<1>6. QED
  BY <1>2, <1>4, <1>5 DEF Protocolo

(* The types of one connection.                                             *)
LEMMA TiposDeEnlace ==
  ASSUME Tipos, NEW i \in Instancias
  PROVE  /\ aInst[i] \in Seq(MensajesAInst) /\ deInst[i] \in Seq(MensajesDeInst)
         /\ claves[i] \in Seq(Claves) /\ mutexInst[i] \in Nat
         /\ contenido[i] \in SUBSET Claves
BY DEF Tipos, TypeOK, CanalesTypeOK, CoordTypeOK, InstTypeOK

(* What the thread of an instance may find.                                 *)
LEMMA LlegaAlHilo ==
  ASSUME Tipos, Protocolo, NEW i \in Instancias, HiloDeInst(i)
  PROVE  \/ RecibeNombreInstancia(i) \/ PresentaInstancia(i) \/ RecibeSetOk(i)
         \/ RecibeStoreOk(i) \/ RecibeClaveEliminada(i) \/ DesconectaInstancia(i)
<1>1. pasoInst[i] \in {"libre", "presenta"}
  BY DEF Protocolo, NadieCompacta
<1>2. ASSUME NEW t, LlegaTipo(i, t)
      PROVE  t \in {"ENVIAR_NOMBRE_INSTANCIA", "SET_OK", "STORE_OK",
                    "ENVIAR_CLAVE_ELIMINADA", "ENVIAR_ERROR"}
  <2>1. deInst[i] # <<>> /\ Head(deInst[i]).tipo = t
    BY <1>2 DEF LlegaTipo
  <2>2. 1 \in DOMAIN deInst[i] /\ deInst[i][1].tipo = t
    BY <2>1, TiposDeEnlace, SinElPrimero
  <2>3. QED
    BY <2>2 DEF Protocolo, Enlace, EnlaceEnOrden, PaquetesBien
<1>3. ~RecibeEspacioInsuficiente(i)
  BY <1>2 DEF RecibeEspacioInsuficiente
<1>4. ~BloqueaInstancia(i) /\ ~CompactaInstancia(i)
  BY <1>1 DEF BloqueaInstancia, CompactaInstancia
<1>5. ~RecibeCompactar(i)
  BY <1>2 DEF RecibeCompactar
<1>6. ~RecibeSetDefinitivo(i)
  BY <1>2 DEF RecibeSetDefinitivo
<1>7. ~RecibeRespuestaValor(i)
  BY <1>2 DEF RecibeRespuestaValor
<1>8. QED
  BY <1>3, <1>4, <1>5, <1>6, <1>7 DEF HiloDeInst, PasoHiloInst

(* It has taken the first packet.                                           *)
LEMMA TomaElPrimero ==
  ASSUME Tipos, NEW i \in Instancias, NEW t, LlegaTipo(i, t)
  PROVE  /\ deInst[i] # <<>> /\ Head(deInst[i]).tipo = t
         /\ deInst'[i] = Tail(deInst[i])
         /\ \A j \in Instancias \ {i} : deInst'[j] = deInst[j]
         /\ Presentandose(i) = FALSE
BY DEF LlegaTipo, Recibido, Presentandose, Tipos, TypeOK, CanalesTypeOK

(* What Presentada says once the packet is taken.                           *)
LEMMA PresentadaTrasTomar ==
  ASSUME Tipos, NEW i \in Instancias, NEW t, LlegaTipo(i, t), Enlace(i)
  PROVE  /\ t \in DeLista =>
              \A l : Presentada(aInst[i], Tail(deInst[i]), disponible[i],
                               contenido[i], l, i \in listas, FALSE)
         /\ t \in DeNombre /\ aInst[i] = <<>> =>
              Presentada(aInst[i], Tail(deInst[i]), TRUE, contenido[i], claves[i],
                         i \in listas, TRUE)
         /\ Presentada(<<>>, Tail(deInst[i]), FALSE, contenido[i], claves[i],
                       i \in listas, FALSE)
<1> DEFINE a == aInst[i]
           d == deInst[i]
           s == disponible[i]
           c == contenido[i]
           l == claves[i]
           r == (i \in listas)
<1>1. /\ d \in Seq(MensajesDeInst) /\ d # <<>> /\ Head(d).tipo = t
      /\ Presentada(a, d, s, c, l, r, FALSE)
  BY TiposDeEnlace, TomaElPrimero DEF Enlace
<1> HIDE DEF a, d, s, c, l, r
<1>2. /\ t \in DeLista => \A l2 : Presentada(a, Tail(d), s, c, l2, r, FALSE)
      /\ t \in DeNombre /\ a = <<>> => Presentada(a, Tail(d), TRUE, c, l, r, TRUE)
      /\ Presentada(<<>>, Tail(d), FALSE, c, l, r, FALSE)
  BY <1>1, PresentadaTrasLeer
<1>3. QED
  BY <1>2 DEF a, d, s, c, l, r

(* The threads of the instances                                             *)
LEMMA ProtocoloHiloDeInst ==
  ASSUME Tipos, Protocolo, NEW i \in Instancias, HiloDeInst(i) PROVE Protocolo'
<1>0. /\ aInst[i] \in Seq(MensajesAInst) /\ deInst[i] \in Seq(MensajesDeInst)
      /\ claves[i] \in Seq(Claves) /\ mutexInst[i] \in Nat
  BY TiposDeEnlace
<1> USE <1>0
<1>1. /\ UNCHANGED <<contenido, viva, listas>>
      /\ Enlace(i)
  BY DEF HiloDeInst, varsInst, Protocolo
<1>2. CASE RecibeNombreInstancia(i)
  <2>1. LlegaTipo(i, "ENVIAR_NOMBRE_INSTANCIA")
    BY <1>2 DEF RecibeNombreInstancia
  <2>2. /\ disponible' = [disponible EXCEPT ![i] = TRUE]
        /\ pasoInst' = [pasoInst EXCEPT ![i] = "presenta"]
        /\ UNCHANGED <<paso, pedido, elegida, peticion, claves, trabajo,
                       mutexInst, aInst, planACoord>>
    BY <1>2, Zenon
    DEF RecibeNombreInstancia, varsPeticion, varsHiloEsi, varsCompactar,
        canalesSinInst
  <2>3. /\ EnlaceEnOrden(aInst[i], Tail(deInst[i]), viva[i], TRUE, contenido[i],
                         claves[i], trabajo[i].clave)
        /\ aInst[i] = <<>> /\ ~Ocupa(aInst[i], Tail(deInst[i]))
    <3>1. /\ deInst[i] # <<>>
          /\ Head(deInst[i]).tipo = "ENVIAR_NOMBRE_INSTANCIA"
      BY <2>1, TomaElPrimero
    <3>2. QED
      BY <1>1, <3>1, EnlaceTrasNombre DEF Enlace
  <2>9. Presentada(aInst[i], Tail(deInst[i]), TRUE, contenido[i], claves[i],
                   i \in listas, TRUE)
    BY <1>1, <2>1, <2>3, PresentadaTrasTomar DEF DeNombre
  <2>4. /\ disponible'[i] = TRUE /\ Presentandose(i)' = TRUE
        /\ pasoInst'[i] = "presenta"
        /\ \A j \in Instancias \ {i} :
             pasoInst'[j] = pasoInst[j] /\ disponible'[j] = disponible[j]
    BY <2>2 DEF Presentandose, Tipos, TypeOK, CoordTypeOK
  <2>5. Enlace(i)' /\ NoEntra(i)
    BY <1>1, <2>1, <2>2, <2>3, <2>4, <2>9, TomaElPrimero DEF Enlace, NoEntra, Ocupada
  <2>6. SoloEn(i)
    BY <1>1, <2>1, <2>2, <2>4, TomaElPrimero DEF SoloEn
  <2>7. QED
    BY <2>5, <2>6, ProtocoloEnUna
<1>9. CASE PresentaInstancia(i)
  <2> DEFINE m == [tipo |-> "ENVIAR_INFO_INSTANCIA", clave |-> Range(claves[i]),
                   de |-> Nada]
  <2>1. Presentandose(i)
    BY <1>9 DEF PresentaInstancia
  <2>2. /\ aInst' = Enviado(aInst, i, m)
        /\ pasoInst' = [pasoInst EXCEPT ![i] = "libre"]
        /\ UNCHANGED <<paso, pedido, elegida, peticion, disponible, claves, trabajo,
                       mutexInst, deInst, planACoord>>
    BY <1>9, Zenon
    DEF PresentaInstancia, varsPeticion, varsHiloEsi, varsTabla, canalesSinInst
  <2>3. m \in MensajesAInst /\ m.tipo = "ENVIAR_INFO_INSTANCIA"
        /\ m.clave = Range(claves[i])
    BY DEF MensajesAInst, Range
  <2> HIDE DEF m
  <2>4. /\ EnlaceEnOrden(Append(aInst[i], m), deInst[i], viva[i], disponible[i],
                         contenido[i], claves[i], trabajo[i].clave)
        /\ Presentada(Append(aInst[i], m), deInst[i], disponible[i], contenido[i],
                      claves[i], i \in listas, FALSE)
        /\ Ocupa(Append(aInst[i], m), deInst[i]) => Ocupada(i)
    <3> DEFINE a == aInst[i]
               d == deInst[i]
               v == viva[i]
               s == disponible[i]
               c == contenido[i]
               l == claves[i]
               t == trabajo[i].clave
               r == (i \in listas)
    <3>1. /\ EnlaceEnOrden(a, d, v, s, c, l, t) /\ Presentada(a, d, s, c, l, r, TRUE)
          /\ a \in Seq(MensajesAInst) /\ m.clave = Range(l)
      BY <1>1, <2>1, <2>3 DEF Enlace, Presentandose
    <3> HIDE <1>0 DEF a, d, v, s, c, l, t, r
    <3>2. /\ EnlaceEnOrden(Append(a, m), d, v, s, c, l, t)
          /\ Presentada(Append(a, m), d, s, c, l, r, FALSE)
          /\ Ocupa(Append(a, m), d) => Ocupa(a, d)
      BY <2>3, <3>1, EnlaceTrasPresentar
    <3>3. QED
      BY <3>2 DEF Ocupada, a, d, v, s, c, l, t, r
  <2>5. /\ aInst'[i] = Append(aInst[i], m) /\ Presentandose(i)' = FALSE
        /\ pasoInst'[i] = "libre"
        /\ \A j \in Instancias \ {i} :
             pasoInst'[j] = pasoInst[j] /\ aInst'[j] = aInst[j]
    BY <2>2 DEF Enviado, Presentandose, Tipos, TypeOK, CanalesTypeOK, CoordTypeOK
  <2>6. Enlace(i)' /\ NoEntra(i)
    BY <1>1, <2>2, <2>4, <2>5 DEF Enlace, NoEntra, Ocupada
  <2>7. SoloEn(i)
    BY <1>1, <2>2, <2>5 DEF SoloEn
  <2>8. QED
    BY <2>6, <2>7, ProtocoloEnUna
<1>3. CASE RecibeSetOk(i)
  <2>1. LlegaTipo(i, "SET_OK")
    BY <1>3 DEF RecibeSetOk
  <2>2. /\ trabajo[i].clave \in Claves
        /\ EnlaceEnOrden(aInst[i], Tail(deInst[i]), viva[i], disponible[i],
                         contenido[i], Append(claves[i], trabajo[i].clave),
                         trabajo[i].clave)
        /\ Ocupada(i) /\ ~Ocupa(aInst[i], Tail(deInst[i]))
    <3>1. deInst[i] # <<>> /\ Head(deInst[i]).tipo = "SET_OK"
      BY <2>1, TomaElPrimero
    <3>2. QED
      BY <1>1, <3>1, EnlaceTrasSetOk DEF Enlace, Ocupada
  <2>3. trabajo[i] # SinTrabajo
    BY <2>2, NadaAssumption DEF SinTrabajo
  <2>4. /\ claves' = ClaveAgregada(i, trabajo[i].clave)
        /\ mutexInst' = InstanciaSuelta(i) /\ peticion' = peticion + 1
        /\ UNCHANGED <<paso, pedido, elegida, disponible, trabajo, pasoInst,
                       planACoord, aInst>>
    BY <1>3, <2>3, Zenon
    DEF RecibeSetOk, SueltaPeticion, varsPeticion, varsHiloEsi, canalesSinInst
  <2>5. /\ claves'[i] = Append(claves[i], trabajo[i].clave)
        /\ mutexInst'[i] = mutexInst[i] + 1
        /\ \A j \in Instancias \ {i} :
             claves'[j] = claves[j] /\ mutexInst'[j] = mutexInst[j]
    BY <2>4 DEF ClaveAgregada, InstanciaSuelta, Tipos, TypeOK, CoordTypeOK
  <2>9. /\ Presentada(aInst[i], Tail(deInst[i]), disponible[i], contenido[i],
                      Append(claves[i], trabajo[i].clave), i \in listas, FALSE)
        /\ Presentandose(i)' = FALSE /\ pasoInst'[i] = "libre"
    <3>1. pasoInst'[i] = pasoInst[i] /\ pasoInst[i] = "libre"
      BY <2>1, <2>4 DEF LlegaTipo
    <3>2. QED
      BY <1>1, <2>1, <3>1, PresentadaTrasTomar DEF DeLista, Presentandose
  <2>6. Enlace(i)' /\ Responde(i)
    BY <1>1, <2>1, <2>2, <2>4, <2>5, <2>9, TomaElPrimero DEF Enlace, Responde, Ocupada
  <2>7. SoloEn(i)
    BY <1>1, <2>1, <2>4, <2>5, <2>9, TomaElPrimero DEF SoloEn
  <2>8. QED
    BY <2>6, <2>7, ProtocoloEnUna
<1>4. CASE RecibeStoreOk(i)
  <2>1. LlegaTipo(i, "STORE_OK")
    BY <1>4 DEF RecibeStoreOk
  <2>2. /\ EnlaceEnOrden(aInst[i], Tail(deInst[i]), viva[i], disponible[i],
                         contenido[i], claves[i], trabajo[i].clave)
        /\ Ocupada(i) /\ ~Ocupa(aInst[i], Tail(deInst[i]))
    <3>1. deInst[i] # <<>> /\ Head(deInst[i]).tipo = "STORE_OK"
      BY <2>1, TomaElPrimero
    <3>2. QED
      BY <1>1, <3>1, EnlaceTrasStoreOk DEF Enlace, Ocupada
  <2>3. /\ mutexInst' = InstanciaSuelta(i) /\ peticion' = peticion + 1
        /\ UNCHANGED <<paso, pedido, elegida, disponible, claves, trabajo,
                       pasoInst, planACoord, aInst>>
    BY <1>4, Zenon
    DEF RecibeStoreOk, SueltaPeticion, varsPeticion, varsHiloEsi, varsTabla,
        varsCompactar, canalesSinInst
  <2>4. /\ mutexInst'[i] = mutexInst[i] + 1
        /\ \A j \in Instancias \ {i} : mutexInst'[j] = mutexInst[j]
    BY <2>3 DEF InstanciaSuelta, Tipos, TypeOK, CoordTypeOK
  <2>9. /\ Presentada(aInst[i], Tail(deInst[i]), disponible[i], contenido[i],
                      claves[i], i \in listas, FALSE)
        /\ Presentandose(i)' = FALSE /\ pasoInst'[i] = "libre"
    <3>1. pasoInst'[i] = pasoInst[i] /\ pasoInst[i] = "libre"
      BY <2>1, <2>3 DEF LlegaTipo
    <3>2. QED
      BY <1>1, <2>1, <3>1, PresentadaTrasTomar DEF DeLista, Presentandose
  <2>5. Enlace(i)' /\ Responde(i)
    BY <1>1, <2>1, <2>2, <2>3, <2>4, <2>9, TomaElPrimero DEF Enlace, Responde, Ocupada
  <2>6. SoloEn(i)
    BY <1>1, <2>1, <2>3, <2>4, <2>9, TomaElPrimero DEF SoloEn
  <2>7. QED
    BY <2>5, <2>6, ProtocoloEnUna
<1>5. CASE RecibeClaveEliminada(i)
  <2> DEFINE k == Head(deInst[i]).clave
  <2>1. LlegaTipo(i, "ENVIAR_CLAVE_ELIMINADA")
    BY <1>5 DEF RecibeClaveEliminada
  <2>2. /\ EnlaceEnOrden(aInst[i], Tail(deInst[i]), viva[i], disponible[i],
                         contenido[i], RemoveFirst(claves[i], k), trabajo[i].clave)
        /\ Ocupa(aInst[i], Tail(deInst[i])) => Ocupada(i)
    BY <1>1, <2>1, TomaElPrimero, EnlaceTrasEliminada DEF Enlace, Ocupada
  <2>3. /\ claves' = ClaveQuitada(i, k)
        /\ UNCHANGED <<paso, pedido, elegida, peticion, mutexInst, disponible,
                       trabajo, pasoInst, planACoord, aInst>>
    BY <1>5, Zenon
    DEF RecibeClaveEliminada, varsPeticion, varsHiloEsi, varsCompactar,
        canalesSinInst
  <2> HIDE DEF k
  <2>4. /\ claves'[i] = RemoveFirst(claves[i], k)
        /\ \A j \in Instancias \ {i} : claves'[j] = claves[j]
    BY <2>3 DEF ClaveQuitada, Tipos, TypeOK, CoordTypeOK
  <2>9. /\ Presentada(aInst[i], Tail(deInst[i]), disponible[i], contenido[i],
                      RemoveFirst(claves[i], k), i \in listas, FALSE)
        /\ Presentandose(i)' = FALSE /\ pasoInst'[i] = "libre"
    <3>1. pasoInst'[i] = pasoInst[i] /\ pasoInst[i] = "libre"
      BY <2>1, <2>3 DEF LlegaTipo
    <3>2. QED
      BY <1>1, <2>1, <3>1, PresentadaTrasTomar DEF DeLista, Presentandose
  <2>5. Enlace(i)' /\ NoEntra(i)
    BY <1>1, <2>1, <2>2, <2>3, <2>4, <2>9, TomaElPrimero DEF Enlace, NoEntra, Ocupada
  <2>6. SoloEn(i)
    BY <1>1, <2>1, <2>3, <2>4, <2>9, TomaElPrimero DEF SoloEn
  <2>7. QED
    BY <2>5, <2>6, ProtocoloEnUna
<1>6. CASE DesconectaInstancia(i)
  <2>1. LlegaTipo(i, "ENVIAR_ERROR")
    BY <1>6 DEF DesconectaInstancia
  <2>2. /\ EnlaceEnOrden(<<>>, Tail(deInst[i]), viva[i], FALSE,
                         contenido[i], claves[i], trabajo[i].clave)
        /\ ~Ocupa(<<>>, Tail(deInst[i]))
    <3>1. deInst[i] # <<>> /\ Head(deInst[i]).tipo = "ENVIAR_ERROR"
      BY <2>1, TomaElPrimero
    <3>2. QED
      BY <1>1, <3>1, EnlaceTrasError, Zenon DEF Enlace
  <2>3. /\ disponible' = [disponible EXCEPT ![i] = FALSE]
        /\ mutexInst' = SueltaSiTomada(i)
        /\ aInst' = [aInst EXCEPT ![i] = <<>>]
        /\ UNCHANGED <<paso, pedido, elegida, peticion, claves, trabajo,
                       pasoInst, planACoord>>
    BY <1>6, Zenon
    DEF DesconectaInstancia, varsHiloEsi, varsCompactar, canalesSinInst
  <2>4. mutexInst[i] <= 1
    BY DEF Protocolo, CerrojoTomado
  <2>5. /\ mutexInst'[i] <= 1
        /\ \A j \in Instancias \ {i} : mutexInst'[j] = mutexInst[j]
    <3>1. CASE mutexInst[i] < 1
      <4>1. mutexInst' = InstanciaSuelta(i)
        BY <2>3, <3>1 DEF SueltaSiTomada
      <4>2. QED
        BY <3>1, <4>1 DEF InstanciaSuelta, Tipos, TypeOK, CoordTypeOK
    <3>2. CASE ~(mutexInst[i] < 1)
      BY <2>3, <2>4, <3>2 DEF SueltaSiTomada
    <3>3. QED
      BY <3>1, <3>2
  <2>6. /\ aInst'[i] = <<>> /\ disponible'[i] = FALSE
        /\ \A j \in Instancias \ {i} :
             aInst'[j] = aInst[j] /\ disponible'[j] = disponible[j]
    BY <2>3 DEF Tipos, TypeOK, CanalesTypeOK, CoordTypeOK
  <2>10. /\ Presentada(<<>>, Tail(deInst[i]), FALSE, contenido[i], claves[i],
                       i \in listas, FALSE)
         /\ Presentandose(i)' = FALSE /\ pasoInst'[i] = "libre"
    <3>1. pasoInst'[i] = pasoInst[i] /\ pasoInst[i] = "libre"
      BY <2>1, <2>3 DEF LlegaTipo
    <3>2. QED
      BY <1>1, <2>1, <3>1, PresentadaTrasTomar DEF Presentandose
  <2>7. Enlace(i)' /\ Suelta(i)
    BY <1>1, <2>1, <2>2, <2>3, <2>5, <2>6, <2>10, TomaElPrimero
    DEF Enlace, Suelta, Ocupada
  <2>8. SoloEn(i)
    BY <1>1, <2>1, <2>3, <2>5, <2>6, <2>10, TomaElPrimero DEF SoloEn
  <2>9. QED
    BY <2>7, <2>8, ProtocoloEnUna
<1>7. QED
  BY <1>2, <1>3, <1>4, <1>5, <1>6, <1>9, LlegaAlHilo

(* What an instance may find.                                               *)
LEMMA LlegaALaInstancia ==
  ASSUME Tipos, Protocolo, NEW i \in Instancias, ProcesoInstancia(i)
  PROVE  \/ ProcesarEnviarInfoInstancia(i) \/ ProcesarSet(i) \/ ProcesarStore(i)
         \/ AtenderSinTablas(i)
<1>1. ASSUME NEW t, LlegaPedido(i, t)
      PROVE  t \in {"SET", "STORE", "ENVIAR_INFO_INSTANCIA"}
  <2>1. aInst[i] # <<>> /\ Head(aInst[i]).tipo = t
    BY <1>1 DEF LlegaPedido
  <2>2. 1 \in DOMAIN aInst[i] /\ aInst[i][1].tipo = t
    BY <2>1, TiposDeEnlace, SinElPrimero
  <2>3. QED
    BY <2>2 DEF Protocolo, Enlace, EnlaceEnOrden, PaquetesBien
<1>2. ~ProcesarSetDefinitivo(i)
  BY <1>1 DEF ProcesarSetDefinitivo
<1>3. ~ProcesarCompactacion(i)
  BY <1>1 DEF ProcesarCompactacion
<1>4. ~ProcesarSolicitudValor(i)
  BY <1>1 DEF ProcesarSolicitudValor
<1>5. QED
  BY <1>2, <1>3, <1>4 DEF ProcesoInstancia, PasoInstancia

(* It has taken the first packet.                                           *)
LEMMA TomaElPedido ==
  ASSUME Tipos, NEW i \in Instancias, NEW t, LlegaPedido(i, t)
  PROVE  /\ viva[i] /\ aInst[i] # <<>> /\ Head(aInst[i]).tipo = t
         /\ Head(aInst[i]) \in MensajesAInst
         /\ aInst'[i] = Tail(aInst[i])
         /\ \A j \in Instancias \ {i} : aInst'[j] = aInst[j]
<1>1. /\ viva[i] /\ aInst[i] # <<>> /\ Head(aInst[i]).tipo = t
      /\ aInst'[i] = Tail(aInst[i])
      /\ \A j \in Instancias \ {i} : aInst'[j] = aInst[j]
  BY DEF LlegaPedido, Recibido, Tipos, TypeOK, CanalesTypeOK
<1>2. Head(aInst[i]) \in MensajesAInst
  BY <1>1, TiposDeEnlace, HeadTailProperties
<1>3. QED
  BY <1>1, <1>2

(* The keys that go, and then SET_OK.                                       *)
LEMMA AvisosYSetOk ==
  ASSUME NEW r \in Seq(MensajesDeInst), NEW c, NEW quedan,
         Range(r) = {Eliminada(x) : x \in c \ quedan}
  PROVE  RespuestaDeSet(r \o <<Mensaje("SET_OK")>>, c, quedan)
<1> DEFINE m == Mensaje("SET_OK")
           ms == Append(r, m)
<1>1. m \in MensajesDeInst
  BY DEF Mensaje, MensajesDeInst
<1> HIDE DEF m
<1>2. ms = r \o <<m>>
  BY <1>1, AppendIsConcat
<1>3. /\ ms \in Seq(MensajesDeInst) /\ Len(ms) \in DOMAIN ms /\ ms[Len(ms)] = m
      /\ \A p \in DOMAIN r : p \in DOMAIN ms /\ ms[p] = r[p]
      /\ \A p \in DOMAIN ms : p = Len(ms) \/ (p \in DOMAIN r /\ ms[p] = r[p])
  BY <1>1, ConUnoAlFinal
<1> HIDE DEF ms
<1>4. \A p \in DOMAIN ms : p \in Nat /\ p <= Len(ms)
  BY <1>3, LenProperties
<1>5. \A p \in DOMAIN r : \E x \in c \ quedan : r[p] = Eliminada(x)
  BY DEF Range
<1>6. \A x \in c \ quedan : \E p \in DOMAIN r : r[p] = Eliminada(x)
  BY DEF Range
<1>7. RespuestaDeSet(ms, c, quedan)
  BY <1>3, <1>4, <1>5, <1>6 DEF RespuestaDeSet, Avisada, m
<1>8. QED
  BY <1>2, <1>7 DEF m

(* What procesarSet does to the instance, when there is room.               *)
LEMMA HaceSet ==
  ASSUME Tipos, SinCompactaciones, NEW i \in Instancias, ProcesarSet(i)
  PROVE  /\ LlegaPedido(i, "SET") /\ Head(aInst[i]).clave \in Claves
         /\ \E quedan \in SUBSET contenido[i], ms \in Seq(MensajesDeInst) :
              /\ Head(aInst[i]).clave \notin quedan
              /\ RespuestaDeSet(ms, contenido[i], quedan)
              /\ contenido' =
                   [contenido EXCEPT ![i] = quedan \cup {Head(aInst[i]).clave}]
              /\ Contesta(i, ms)
<1> DEFINE k == Head(aInst[i]).clave
           c == contenido[i]
           vieja == IF k \in c THEN <<Eliminada(k)>> ELSE <<>>
           otras == IF i \in Reemplazan THEN c \ {k} ELSE {}
           fin == <<Mensaje("SET_OK")>>
<1>1. LlegaPedido(i, "SET") /\ k \in Claves
  <2>1. LlegaPedido(i, "SET")
    BY DEF ProcesarSet
  <2>2. QED
    BY <2>1, TomaElPedido DEF MensajesAInst
<1>2. PICK victimas \in SetToAllKPermutations(otras) :
        LET avisos == [p \in DOMAIN victimas |-> Eliminada(victimas[p])]
            quedan == c \ (Range(victimas) \cup {k})
        IN /\ contenido' = [contenido EXCEPT ![i] = quedan \cup {k}]
           /\ Contesta(i, vieja \o avisos \o fin)
  BY DEF ProcesarSet, SinCompactaciones
<1>3. PICK S \in SUBSET otras : victimas \in [1..Cardinality(S) -> S]
  BY <1>2 DEF SetToAllKPermutations, SetToSeqs
<1>4. c \subseteq Claves /\ S \subseteq c
  BY <1>3, TiposDeEnlace
<1>5. IsFiniteSet(S)
  BY <1>4, ClavesAssumption, FS_Subset
<1> DEFINE n == Cardinality(S)
           avisos == [p \in DOMAIN victimas |-> Eliminada(victimas[p])]
           quedan == c \ (Range(victimas) \cup {k})
<1>6. n \in Nat
  BY <1>5, FS_CardinalityType
<1> HIDE DEF n
<1>7. /\ DOMAIN victimas = 1..n /\ \A p \in 1..n : victimas[p] \in c
      /\ Range(victimas) \subseteq c
  BY <1>3, <1>4 DEF n, Range
<1>8. contenido' = [contenido EXCEPT ![i] = quedan \cup {k}]
      /\ Contesta(i, vieja \o avisos \o fin)
  BY <1>2
<1>9. /\ vieja \in Seq(MensajesDeInst)
      /\ Range(vieja) = {Eliminada(x) : x \in c \cap {k}}
  <2>1. CASE k \in c
    <3>1. vieja = <<Eliminada(k)>> /\ Eliminada(k) \in MensajesDeInst
      BY <1>1, <2>1 DEF Eliminada, MensajesDeInst
    <3>2. QED
      BY <2>1, <3>1 DEF Range
  <2>2. CASE k \notin c
    BY <2>2 DEF Range
  <2>3. QED
    BY <2>1, <2>2
<1>10. /\ avisos \in Seq(MensajesDeInst)
       /\ Range(avisos) = {Eliminada(x) : x \in Range(victimas)}
  <2>1. avisos \in [1..n -> MensajesDeInst]
    BY <1>4, <1>7 DEF Eliminada, MensajesDeInst
  <2>2. Range(avisos) = {Eliminada(x) : x \in Range(victimas)}
    BY DEF Range
  <2>3. QED
    BY <1>6, <2>1, <2>2, IsASeq
<1> HIDE DEF vieja, avisos
<1> DEFINE r == vieja \o avisos
<1>11. r \in Seq(MensajesDeInst) /\ Range(r) = Range(vieja) \cup Range(avisos)
  BY <1>9, <1>10, ConcatProperties, RangeConcatenation
<1>12. Range(r) = {Eliminada(x) : x \in c \ quedan}
  BY <1>7, <1>9, <1>10, <1>11
<1> DEFINE ms == r \o fin
<1>13. ms \in Seq(MensajesDeInst) /\ RespuestaDeSet(ms, c, quedan)
  <2>1. RespuestaDeSet(ms, c, quedan)
    <3> HIDE DEF r, quedan, c
    <3>1. QED
      BY <1>11, <1>12, AvisosYSetOk
  <2>2. QED
    BY <2>1 DEF RespuestaDeSet
<1>14. k \notin quedan /\ quedan \in SUBSET c
  OBVIOUS
<1> HIDE DEF ms, quedan
<1>15. Contesta(i, ms)
  BY <1>8 DEF ms
<1>16. QED
  BY <1>1, <1>8, <1>13, <1>14, <1>15

(* What the instance sends is read after what it sent before.               *)
LEMMA ContestaEn ==
  ASSUME Tipos, NEW i \in Instancias, NEW ms, Contesta(i, ms)
  PROVE  /\ deInst'[i] = deInst[i] \o ms
         /\ \A j \in Instancias \ {i} : deInst'[j] = deInst[j]
BY DEF Contesta, Tipos, TypeOK, CanalesTypeOK

(* ... which may be nothing.                                                *)
LEMMA ContestaTrasNada ==
  ASSUME Tipos, NEW i \in Instancias, NEW ms \in Seq(MensajesDeInst),
         Contesta(i, ms), deInst[i] = <<>>
  PROVE  deInst'[i] = ms
BY ContestaEn, ConcatEmptySeq

(* The process dies.                                                        *)
LEMMA AlCaer ==
  ASSUME Tipos, NEW i \in Instancias, Cae(i)
  PROVE  /\ viva'[i] = FALSE /\ deInst'[i] = Append(deInst[i], Mensaje("ENVIAR_ERROR"))
         /\ \A j \in Instancias \ {i} :
              viva'[j] = viva[j] /\ deInst'[j] = deInst[j]
         /\ UNCHANGED <<contenido, listas>>
<1>1. Contesta(i, <<Mensaje("ENVIAR_ERROR")>>)
      /\ viva' = [viva EXCEPT ![i] = FALSE] /\ UNCHANGED <<contenido, listas>>
  BY Zenon DEF Cae
<1>2. Mensaje("ENVIAR_ERROR") \in MensajesDeInst
  BY DEF Mensaje, MensajesDeInst
<1>3. Append(deInst[i], Mensaje("ENVIAR_ERROR"))
        = deInst[i] \o <<Mensaje("ENVIAR_ERROR")>>
  BY <1>2, TiposDeEnlace, AppendIsConcat
<1>4. /\ viva'[i] = FALSE /\ \A j \in Instancias \ {i} : viva'[j] = viva[j]
  BY <1>1 DEF Tipos, TypeOK, InstTypeOK
<1>5. QED
  BY <1>1, <1>3, <1>4, ContestaEn

(* It dies of the statement it took.                                        *)
LEMMA MuereDeUnPedido ==
  ASSUME Tipos, Protocolo, NEW i \in Instancias, NEW t, LlegaPedido(i, t),
         t \in DeSentencia, Cae(i),
         UNCHANGED <<disponible, claves, trabajo, mutexInst, peticion, paso,
                     pedido, elegida, pasoInst, planACoord>>
  PROVE  Protocolo'
<1>0. /\ aInst[i] \in Seq(MensajesAInst) /\ deInst[i] \in Seq(MensajesDeInst)
      /\ pasoInst[i] \in {"libre", "presenta"}
  BY TiposDeEnlace DEF Protocolo, NadieCompacta
<1>1. /\ viva[i] /\ aInst[i] # <<>> /\ Head(aInst[i]).tipo = t /\ Enlace(i)
  BY TomaElPedido DEF Protocolo
<1> DEFINE a == aInst[i]
           d == deInst[i]
           v == viva[i]
           s == disponible[i]
           c == contenido[i]
           l == claves[i]
           j == trabajo[i].clave
           r == (i \in listas)
           z == Presentandose(i)
           e == Append(d, Mensaje("ENVIAR_ERROR"))
<1>2. /\ EnlaceEnOrden(a, d, v, s, c, l, j) /\ Presentada(a, d, s, c, l, r, z) /\ v
      /\ a \in Seq(MensajesAInst) /\ a # <<>> /\ d \in Seq(MensajesDeInst)
      /\ Head(a).tipo \in DeSentencia
  BY <1>0, <1>1 DEF Enlace
<1> HIDE DEF a, d, v, s, c, l, j, r, z
<1>3. Tail(a) \in Seq(MensajesAInst)
  BY <1>2, HeadTailProperties
<1>4. EnlaceEnOrden(Tail(a), d, v, s, c, l, j) /\ Ocupa(a, d)
  BY <1>2, EnlaceSinPedido
<1>5. EnlaceEnOrden(Tail(a), e, FALSE, s, c, l, j)
  BY <1>2, <1>3, <1>4, EnlaceTrasMuerte
<1>6. Presentada(Tail(a), e, s, c, l, r, z)
  BY <1>2, PresentadaSinPedido, PresentadaTrasMuerte
<1>7. /\ aInst'[i] = Tail(a) /\ deInst'[i] = e /\ viva'[i] = FALSE
      /\ disponible'[i] = s /\ contenido'[i] = c /\ claves'[i] = l
      /\ trabajo'[i].clave = j /\ (i \in listas)' = r /\ Presentandose(i)' = z
  BY TomaElPedido, AlCaer DEF a, d, s, c, l, j, r, z, Presentandose
<1>8. Enlace(i)'
  BY <1>5, <1>6, <1>7 DEF Enlace
<1>9. NoEntra(i)
  BY <1>4 DEF NoEntra, Ocupada, a, d
<1>10. SoloEn(i)
  BY <1>0, TomaElPedido, AlCaer DEF SoloEn
<1>11. QED
  BY <1>8, <1>9, <1>10, ProtocoloEnUna

(* The instance processes                                                   *)
LEMMA ProtocoloProcesoInstancia ==
  ASSUME Tipos, SinCompactaciones, Protocolo, NEW i \in Instancias,
         ProcesoInstancia(i)
  PROVE  Protocolo'
<1>0. /\ aInst[i] \in Seq(MensajesAInst) /\ deInst[i] \in Seq(MensajesDeInst)
      /\ claves[i] \in Seq(Claves) /\ mutexInst[i] \in Nat
  BY TiposDeEnlace
<1> USE <1>0
<1>1. /\ UNCHANGED <<disponible, claves, trabajo, mutexInst, peticion, paso,
                     pedido, elegida, pasoInst>>
      /\ Enlace(i)
  BY DEF ProcesoInstancia, varsCoord, Protocolo
<1>p. /\ Presentandose(i)' = Presentandose(i) /\ UNCHANGED pasoInst
      /\ pasoInst'[i] \in {"libre", "presenta"}
  BY <1>1 DEF Presentandose, Protocolo, NadieCompacta
<1>2. CASE ProcesarEnviarInfoInstancia(i)
  <2> DEFINE c2 == archivos[i] \cap Head(aInst[i]).clave
  <2>1. LlegaPedido(i, "ENVIAR_INFO_INSTANCIA")
    BY <1>2 DEF ProcesarEnviarInfoInstancia
  <2>2. /\ contenido' = [contenido EXCEPT ![i] = c2]
        /\ listas' = listas \cup {i}
        /\ UNCHANGED <<viva, deInst, planACoord>>
    BY <1>2, Zenon DEF ProcesarEnviarInfoInstancia, canalesDeOtros
  <2>3. c2 \in SUBSET Head(aInst[i]).clave
    OBVIOUS
  <2> HIDE DEF c2
  <2>4. /\ EnlaceEnOrden(Tail(aInst[i]), deInst[i], viva[i], disponible[i],
                         c2, claves[i], trabajo[i].clave)
        /\ Presentada(Tail(aInst[i]), deInst[i], disponible[i], c2, claves[i],
                      TRUE, Presentandose(i))
        /\ Ocupa(Tail(aInst[i]), deInst[i]) => Ocupada(i)
    <3>1. /\ viva[i] /\ aInst[i] # <<>>
          /\ Head(aInst[i]).tipo = "ENVIAR_INFO_INSTANCIA"
      BY <2>1, TomaElPedido
    <3>2. QED
      BY <1>1, <2>3, <3>1, EnlaceTrasInfo, Zenon DEF Enlace, Ocupada
  <2>5. /\ contenido'[i] = c2 /\ (i \in listas)' = TRUE
        /\ \A j \in Instancias \ {i} :
             contenido'[j] = contenido[j] /\ (j \in listas' <=> j \in listas)
    BY <2>2 DEF Tipos, TypeOK, InstTypeOK
  <2>6. Enlace(i)' /\ NoEntra(i)
    BY <1>1, <1>p, <2>1, <2>2, <2>4, <2>5, TomaElPedido DEF Enlace, NoEntra, Ocupada
  <2>7. SoloEn(i)
    BY <1>1, <1>p, <2>1, <2>2, <2>5, TomaElPedido DEF SoloEn
  <2>8. QED
    BY <2>6, <2>7, ProtocoloEnUna
<1>3. CASE ProcesarSet(i)
  <2> DEFINE k == Head(aInst[i]).clave
  <2>1. LlegaPedido(i, "SET") /\ k \in Claves
    BY <1>3, HaceSet
  <2>2. PICK quedan \in SUBSET contenido[i], ms \in Seq(MensajesDeInst) :
          /\ k \notin quedan
          /\ RespuestaDeSet(ms, contenido[i], quedan)
          /\ contenido' = [contenido EXCEPT ![i] = quedan \cup {k}]
          /\ Contesta(i, ms)
    BY <1>3, HaceSet
  <2>3. i \in listas /\ UNCHANGED <<viva, listas, planACoord>>
    BY <1>3, Zenon DEF ProcesarSet, canalesDeOtros
  <2>4. /\ EnlaceEnOrden(Tail(aInst[i]), ms, viva[i], disponible[i],
                         quedan \cup {k}, claves[i], trabajo[i].clave)
        /\ Presentada(Tail(aInst[i]), ms, disponible[i], quedan \cup {k}, claves[i],
                      TRUE, Presentandose(i))
        /\ Ocupada(i) /\ deInst[i] = <<>>
    <3>1. /\ viva[i] /\ aInst[i] # <<>> /\ Head(aInst[i]).tipo = "SET"
      BY <2>1, TomaElPedido
    <3>2. QED
      <4> DEFINE a == aInst[i]
                 d == deInst[i]
                 v == viva[i]
                 s == disponible[i]
                 c == contenido[i]
                 l == claves[i]
                 t == trabajo[i].clave
                 z == Presentandose(i)
      <4>1. /\ EnlaceEnOrden(a, d, v, s, c, l, t) /\ v
            /\ Presentada(a, d, s, c, l, TRUE, z)
            /\ a \in Seq(MensajesAInst) /\ d \in Seq(MensajesDeInst)
            /\ a # <<>> /\ Head(a).tipo = "SET" /\ Head(a).clave \in Claves
            /\ quedan \in SUBSET c /\ RespuestaDeSet(ms, c, quedan)
        <5>1. (i \in listas) = TRUE
          BY <2>3
        <5>2. QED
          BY <1>1, <2>1, <2>2, <3>1, <5>1 DEF Enlace
      <4> HIDE <1>0 DEF a, d, v, s, c, l, t, k, z
      <4>4. ~Hay(ms, DeNombre)
        <5>1. \A p \in DOMAIN ms : ms[p].tipo # "ENVIAR_NOMBRE_INSTANCIA"
          BY <4>1 DEF RespuestaDeSet, Mensaje, Eliminada
        <5>2. QED
          BY <5>1 DEF Hay, DeNombre
      <4>5. Presentada(Tail(a), ms, s, quedan \cup {Head(a).clave}, l, TRUE, z)
        <5>1. Presentada(Tail(a), d, s, c, l, TRUE, z)
          BY <4>1, PresentadaSinPedido
        <5>2. QED
          BY <4>4, <5>1 DEF Presentada
      <4>2. /\ EnlaceEnOrden(Tail(a), ms, v, s, quedan \cup {Head(a).clave}, l, t)
            /\ Ocupa(a, d) /\ d = <<>>
        BY <4>1, EnlaceTrasSet
      <4>3. QED
        BY <4>2, <4>5 DEF Ocupada, a, d, v, s, c, l, t, k, z
  <2> HIDE DEF k
  <2>5. /\ contenido'[i] = quedan \cup {k}
        /\ \A j \in Instancias \ {i} : contenido'[j] = contenido[j]
    BY <2>2 DEF Tipos, TypeOK, InstTypeOK
  <2>6. /\ deInst'[i] = ms
        /\ \A j \in Instancias \ {i} : deInst'[j] = deInst[j]
    BY <2>2, <2>4, ContestaEn, ContestaTrasNada
  <2>10. (i \in listas)' = TRUE
    BY <2>3
  <2>7. Enlace(i)' /\ NoEntra(i)
    BY <1>1, <1>p, <2>1, <2>3, <2>4, <2>5, <2>6, <2>10, TomaElPedido
    DEF Enlace, NoEntra
  <2>8. SoloEn(i)
    BY <1>1, <1>p, <2>1, <2>3, <2>5, <2>6, TomaElPedido DEF SoloEn
  <2>9. QED
    BY <2>7, <2>8, ProtocoloEnUna
<1>4. CASE ProcesarStore(i)
  <2>1. LlegaPedido(i, "STORE") /\ UNCHANGED planACoord
    BY <1>4, Zenon DEF ProcesarStore, canalesDeOtros
  <2>2. /\ viva[i] /\ aInst[i] # <<>> /\ Head(aInst[i]).tipo = "STORE"
    BY <2>1, TomaElPedido
  <2>3. CASE Head(aInst[i]).clave \in contenido[i]
    <3>1. /\ Contesta(i, <<Mensaje("STORE_OK")>>)
          /\ i \in listas /\ UNCHANGED <<contenido, viva, listas>>
      BY <1>4, <2>3 DEF ProcesarStore
    <3>2. <<Mensaje("STORE_OK")>> \in Seq(MensajesDeInst)
      BY DEF Mensaje, MensajesDeInst
    <3>3. /\ EnlaceEnOrden(Tail(aInst[i]), <<Mensaje("STORE_OK")>>, viva[i],
                           disponible[i], contenido[i], claves[i],
                           trabajo[i].clave)
          /\ Ocupada(i) /\ deInst[i] = <<>>
      BY <1>1, <2>2, EnlaceTrasStore, Zenon DEF Enlace, Ocupada
    <3>8. /\ Presentada(Tail(aInst[i]), <<Mensaje("STORE_OK")>>, disponible[i],
                        contenido[i], claves[i], TRUE, Presentandose(i))
          /\ (i \in listas)' = TRUE
      <4>1. Presentada(aInst[i], deInst[i], disponible[i], contenido[i], claves[i],
                       TRUE, Presentandose(i))
        <5>1. (i \in listas) = TRUE
          BY <3>1
        <5>2. QED
          BY <1>1, <5>1 DEF Enlace
      <4>2. ~Hay(<<Mensaje("STORE_OK")>>, DeNombre)
        BY DEF Hay, DeNombre, Mensaje
      <4>3. QED
        BY <2>2, <3>1, <4>1, <4>2, PresentadaSinPedido, PresentadaTrasResponder
    <3>4. /\ deInst'[i] = <<Mensaje("STORE_OK")>>
          /\ \A j \in Instancias \ {i} : deInst'[j] = deInst[j]
      BY <3>1, <3>2, <3>3, ContestaEn, ContestaTrasNada
    <3>5. Enlace(i)' /\ NoEntra(i)
      BY <1>1, <1>p, <2>1, <3>1, <3>3, <3>4, <3>8, TomaElPedido DEF Enlace, NoEntra
    <3>6. SoloEn(i)
      BY <1>1, <1>p, <2>1, <3>1, <3>4, TomaElPedido DEF SoloEn
    <3>7. QED
      BY <3>5, <3>6, ProtocoloEnUna
  <2>4. CASE Head(aInst[i]).clave \notin contenido[i]
    <3>1. Cae(i)
      BY <1>4, <2>4 DEF ProcesarStore
    <3>2. QED
      BY <1>1, <2>1, <3>1, MuereDeUnPedido DEF DeSentencia
  <2>5. QED
    BY <2>3, <2>4
<1>5. CASE AtenderSinTablas(i)
  <2>1. PICK t : LlegaPedido(i, t) /\ t \in {"SET", "SET_DEFINITIVO", "STORE",
                                          "SOLICITAR_VALOR"}
    BY <1>5 DEF AtenderSinTablas
  <2>2. t \in DeSentencia
    <3>1. 1 \in DOMAIN aInst[i] /\ aInst[i][1].tipo = t
      BY <2>1, TomaElPedido, SinElPrimero
    <3>2. QED
      BY <1>1, <2>1, <3>1 DEF Enlace, EnlaceEnOrden, PaquetesBien, DeSentencia
  <2>3. Cae(i) /\ UNCHANGED planACoord
    BY <1>5, Zenon DEF AtenderSinTablas, canalesDeOtros
  <2>4. QED
    BY <1>1, <2>1, <2>2, <2>3, MuereDeUnPedido
<1>6. QED
  BY <1>2, <1>3, <1>4, <1>5, LlegaALaInstancia

(* They connect, dump and die.                                              *)
LEMMA ProtocoloEntornoInstancia ==
  ASSUME Tipos, Protocolo, NEW i \in Instancias, EntornoInstancia(i)
  PROVE  Protocolo'
<1>0. /\ aInst[i] \in Seq(MensajesAInst) /\ deInst[i] \in Seq(MensajesDeInst)
      /\ claves[i] \in Seq(Claves) /\ mutexInst[i] \in Nat
  BY TiposDeEnlace
<1> USE <1>0
<1>1. /\ UNCHANGED <<disponible, claves, trabajo, mutexInst, peticion, paso,
                     pedido, elegida, pasoInst>>
      /\ Enlace(i)
  BY DEF EntornoInstancia, varsCoord, Protocolo
<1>p. /\ Presentandose(i)' = Presentandose(i) /\ UNCHANGED pasoInst
      /\ pasoInst'[i] \in {"libre", "presenta"}
  BY <1>1 DEF Presentandose, Protocolo, NadieCompacta
<1>2. CASE ConectarInstancia(i)
  <2> DEFINE m == Mensaje("ENVIAR_NOMBRE_INSTANCIA")
  <2>1. /\ ~viva[i] /\ deInst[i] = <<>>
        /\ viva' = [viva EXCEPT ![i] = TRUE]
        /\ contenido' = [contenido EXCEPT ![i] = {}]
        /\ listas' = listas \ {i}
        /\ deInst' = Enviado(deInst, i, m)
        /\ UNCHANGED <<aInst, planACoord>>
    BY <1>2, Zenon DEF ConectarInstancia, canalesDeOtros
  <2>2. /\ EnlaceEnOrden(aInst[i], <<m>>, TRUE, disponible[i], {}, claves[i],
                         trabajo[i].clave)
        /\ aInst[i] = <<>> /\ ~disponible[i] /\ ~Ocupa(aInst[i], <<m>>)
    <3>1. viva[i] = FALSE
      BY <2>1 DEF Tipos, TypeOK, InstTypeOK
    <3>2. QED
      BY <1>1, <2>1, <3>1, EnlaceAlConectar DEF Enlace
  <2>7. Presentada(aInst[i], <<m>>, disponible[i], {}, claves[i], FALSE,
                   Presentandose(i))
    BY <1>1, <2>2, PresentadaAlConectar DEF Enlace
  <2> HIDE DEF m
  <2>3. /\ viva'[i] = TRUE /\ contenido'[i] = {} /\ deInst'[i] = <<m>>
        /\ \A j \in Instancias \ {i} :
             /\ viva'[j] = viva[j] /\ contenido'[j] = contenido[j]
             /\ deInst'[j] = deInst[j] /\ (j \in listas' <=> j \in listas)
        /\ (i \in listas)' = FALSE
    BY <2>1 DEF Enviado, Tipos, TypeOK, CanalesTypeOK, InstTypeOK
  <2>4. Enlace(i)' /\ NoEntra(i)
    BY <1>1, <1>p, <2>1, <2>2, <2>3, <2>7 DEF Enlace, NoEntra, Ocupada
  <2>5. SoloEn(i)
    BY <1>1, <1>p, <2>1, <2>3 DEF SoloEn
  <2>6. QED
    BY <2>4, <2>5, ProtocoloEnUna
<1>3. CASE Dump(i)
  <2>1. UNCHANGED <<contenido, viva, listas, aInst, deInst, planACoord>>
    BY <1>3, Zenon DEF Dump, canales
  <2>2. UNCHANGED varsProtocolo
    BY <1>1, <2>1 DEF varsProtocolo, varsEnlaces
  <2>3. QED
    BY <2>1, <2>2, ProtocoloQuieto DEF Protocolo, NadieCompacta
<1>4. CASE MatarInstancia(i)
  <2>1. viva[i] /\ Cae(i) /\ UNCHANGED <<aInst, planACoord>>
    BY <1>4, Zenon DEF MatarInstancia, canalesDeOtros
  <2>2. /\ EnlaceEnOrden(aInst[i], Append(deInst[i], Mensaje("ENVIAR_ERROR")),
                         FALSE, disponible[i], contenido[i], claves[i],
                         trabajo[i].clave)
        /\ Ocupa(aInst[i], Append(deInst[i], Mensaje("ENVIAR_ERROR")))
             => Ocupada(i)
    BY <1>1, <2>1, EnlaceTrasMuerte DEF Enlace, Ocupada
  <2>6. Presentada(aInst[i], Append(deInst[i], Mensaje("ENVIAR_ERROR")),
                   disponible[i], contenido[i], claves[i], i \in listas,
                   Presentandose(i))
    BY <1>1, PresentadaTrasMuerte DEF Enlace
  <2>7. (i \in listas)' = (i \in listas)
    BY <2>1, AlCaer
  <2>3. Enlace(i)' /\ NoEntra(i)
    BY <1>1, <1>p, <2>1, <2>2, <2>6, <2>7, AlCaer DEF Enlace, NoEntra, Ocupada
  <2>4. SoloEn(i)
    BY <1>1, <1>p, <2>1, AlCaer DEF SoloEn
  <2>5. QED
    BY <2>3, <2>4, ProtocoloEnUna
<1>5. QED
  BY <1>2, <1>3, <1>4 DEF EntornoInstancia

(* The thread of an ESI has the request lock, or takes it: no other thread  *)
(* has a statement, nor any instance.                                       *)
LEMMA SuTurno ==
  ASSUME Tipos, Protocolo, NEW e \in ESIs, peticion > 0 \/ paso[e] # "libre"
  PROVE  /\ peticion \in {0, 1} /\ (paso[e] # "libre" => peticion = 0)
         /\ \A f \in ESIs : f # e => paso[f] = "libre"
         /\ \A i \in Instancias : ~Ocupada(i)
<1>1. peticion \in {0, 1}
  BY DEF Tipos, TypeOK, CoordTypeOK, Protocolo, UnDueno
<1>2. QED
  BY <1>1 DEF Protocolo, UnDueno

(* What follows from e on its own, without sending it to an instance.       *)
SiguePaso(e) ==
  /\ \A f \in ESIs \ {e} : paso'[f] = paso[f]
  /\ paso'[e] \in {"esperaSET", "enviaSET"} => pedido'[e].op = "SET"
  /\ paso'[e] \in {"esperaSTORE", "enviaSTORE"} => pedido'[e].op = "STORE"
  /\ paso'[e] = "enviaSET" => trabajo'[elegida'[e]].clave = pedido'[e].clave

(* A step of the thread that has the request lock, or takes it, and sends   *)
(* nothing.                                                                 *)
LEMMA ProtocoloEnSuTurno ==
  ASSUME Tipos, Protocolo, NEW e \in ESIs, peticion > 0 \/ paso[e] # "libre",
         SiguePaso(e), peticion' = 0, \A i \in Instancias : Enlace(i)',
         UNCHANGED <<aInst, deInst, mutexInst, pasoInst, planACoord>>
  PROVE  Protocolo'
<1>1. /\ \A f \in ESIs : f # e => paso[f] = "libre"
      /\ \A i \in Instancias : ~Ocupada(i)
  BY SuTurno
<1>2. \A i \in Instancias : ~Ocupada(i)'
  BY <1>1 DEF Ocupada
<1>3. \A f \in ESIs : f # e => paso'[f] = "libre"
  BY <1>1 DEF SiguePaso
<1>4. UnDueno'
  BY <1>2, <1>3 DEF UnDueno
<1>5. NadieCompacta' /\ CerrojoTomado'
  BY <1>2 DEF Protocolo, NadieCompacta, CerrojoTomado
<1>6. PedidoDelPaso'
  BY <1>3 DEF PedidoDelPaso, SiguePaso
<1>7. QED
  BY <1>4, <1>5, <1>6 DEF Protocolo

(* EnviaAInstancia: the statement is now in the instance, or lost.          *)
LEMMA ProtocoloEnvia ==
  ASSUME Tipos, Protocolo, NEW e \in ESIs, EnviaAInstancia(e), HiloDeEsi(e)
  PROVE  Protocolo'
<1>a. paso[e] \in {"enviaSET", "enviaSTORE"}
  BY DEF EnviaAInstancia
<1>b. elegida[e] \in Instancias /\ pedido[e] \in [op : {"SET", "STORE"}, clave : Claves]
  BY <1>a DEF Tipos, PedidosEnCurso
<1>c. PICK i \in Instancias : i = elegida[e]
  BY <1>b
<1>d. PICK m \in MensajesAInst :
        m = [tipo |-> pedido[e].op, clave |-> pedido[e].clave, de |-> e]
  BY <1>b DEF MensajesAInst
<1>1. /\ mutexInst[i] > 0
      /\ mutexInst' = [mutexInst EXCEPT ![i] = @ - 1]
      /\ aInst' \in {EnviadoA(i, m), aInst}
      /\ LibreOtraVez(e)
      /\ UNCHANGED <<peticion, disponible, claves, trabajo, pasoInst, planACoord,
                     deInst, contenido, viva, listas>>
  <2>1. aInst' \in {EnviadoA(i, m), aInst}
    BY <1>c, <1>d DEF EnviaAInstancia
  <2>2. /\ mutexInst[i] > 0
        /\ mutexInst' = [mutexInst EXCEPT ![i] = @ - 1]
        /\ LibreOtraVez(e)
        /\ UNCHANGED <<peticion, disponible, claves, trabajo, pasoInst, planACoord,
                       deInst, contenido, viva, listas>>
    BY <1>c, Zenon
    DEF EnviaAInstancia, HiloDeEsi, varsTabla, varsCompactar, varsInst
  <2>3. QED
    BY <2>1, <2>2
<1>2. m.tipo = pedido[e].op /\ m.tipo \in DeSentencia
  BY <1>b, <1>d DEF DeSentencia
<1>3. /\ peticion = 0 /\ \A f \in ESIs : f # e => paso[f] = "libre"
      /\ \A j \in Instancias : ~Ocupada(j)
  BY <1>a, SuTurno
<1>4. \A f \in ESIs : paso'[f] = "libre"
  BY <1>1, <1>3 DEF LibreOtraVez, Tipos, TypeOK, CoordTypeOK
<1>5. m.tipo = "SET" => m.clave = trabajo[i].clave
  <2>1. m.tipo = "SET" => paso[e] = "enviaSET"
    BY <1>2, <1>a DEF Protocolo, PedidoDelPaso
  <2>2. QED
    BY <1>b, <1>c, <1>d, <2>1 DEF Protocolo, PedidoDelPaso
<1>6. /\ mutexInst[i] = 1 /\ mutexInst'[i] = 0
      /\ \A j \in Instancias \ {i} : mutexInst'[j] = mutexInst[j]
  <2>1. mutexInst[i] \in Nat /\ mutexInst[i] <= 1
    BY <1>2, TiposDeEnlace DEF Protocolo, CerrojoTomado
  <2>2. QED
    BY <1>1, <1>2, <2>1 DEF Tipos, TypeOK, CoordTypeOK
<1>7. /\ \A j \in Instancias \ {i} : aInst'[j] = aInst[j]
      /\ aInst'[i] = aInst[i]
           \/ (disponible[i] /\ aInst'[i] = Append(aInst[i], m))
  BY <1>1, <1>2 DEF EnviadoA, Enviado, Tipos, TypeOK, CanalesTypeOK
<1>p. \A j \in Instancias : Presentandose(j)' = Presentandose(j)
  BY <1>1 DEF Presentandose
<1>8. \A j \in Instancias \ {i} : Enlace(j)' /\ ~Ocupada(j)'
  BY <1>1, <1>3, <1>7, <1>p DEF Protocolo, Enlace, Ocupada
<1>9. Enlace(i)'
  <2>1. CASE aInst'[i] = aInst[i]
    BY <1>1, <1>2, <1>p, <2>1 DEF Protocolo, Enlace
  <2>2. CASE disponible[i] /\ aInst'[i] = Append(aInst[i], m)
    <3>1. ~Ocupa(aInst[i], deInst[i]) /\ aInst[i] \in Seq(MensajesAInst)
      BY <1>2, <1>3, TiposDeEnlace DEF Ocupada
    <3>2. Enlace(i)
      BY <1>2 DEF Protocolo
    <3>3. EnlaceEnOrden(Append(aInst[i], m), deInst[i], viva[i], disponible[i],
                        contenido[i], claves[i], trabajo[i].clave)
      BY <1>2, <1>5, <2>2, <3>1, <3>2, EnlaceTrasEnviar DEF Enlace
    <3>4. Presentada(Append(aInst[i], m), deInst[i], disponible[i], contenido[i],
                     claves[i], i \in listas, Presentandose(i))
      BY <1>2, <3>1, <3>2, PresentadaTrasEnviar DEF Enlace
    <3>5. QED
      BY <1>1, <1>p, <2>2, <3>3, <3>4 DEF Enlace
  <2>3. QED
    BY <1>7, <2>1, <2>2
<1>10. UnDueno' /\ CerrojoTomado'
  <2>1. peticion' = 0
    BY <1>1, <1>3
  <2>2. UnDueno'
    BY <1>4, <1>8, <2>1 DEF UnDueno
  <2>3. CerrojoTomado'
    BY <1>6, <1>8 DEF Protocolo, CerrojoTomado
  <2>4. QED
    BY <2>2, <2>3
<1>11. NadieCompacta' /\ PedidoDelPaso'
  BY <1>1, <1>4 DEF Protocolo, NadieCompacta, PedidoDelPaso
<1>12. QED
  BY <1>8, <1>9, <1>10, <1>11 DEF Protocolo

(* The threads of the ESIs                                                  *)
LEMMA ProtocoloHiloDeEsi ==
  ASSUME Tipos, Protocolo, NEW e \in ESIs, HiloDeEsi(e) PROVE Protocolo'
<1>1. UNCHANGED <<contenido, viva, listas>>
  BY DEF HiloDeEsi, varsInst
<1>2. \A p \in DOMAIN planACoord : planACoord[p].tipo \in RespuestasDelPlan
  BY DEF Protocolo, NadieCompacta
<1>3. ASSUME UNCHANGED <<aInst, deInst, viva, disponible, contenido, claves, trabajo,
                         pasoInst>>
      PROVE  \A i \in Instancias : Enlace(i)'
  BY <1>1, <1>3 DEF Protocolo, Enlace, Presentandose
<1>4. CASE TomaGET(e)
  BY <1>1, <1>2, <1>4, ProtocoloQuieto
  DEF TomaGET, varsRespuesta, varsTabla, varsCompactar, canalesDeInst,
      varsProtocolo, varsEnlaces
<1>5. CASE TomaSET(e)
  <2>1. /\ peticion > 0 /\ peticion' = peticion - 1
        /\ UNCHANGED <<elegida, disponible, claves, trabajo, mutexInst, pasoInst,
                       planACoord, aInst, deInst>>
    BY <1>5, Zenon
    DEF TomaSET, TrasRetardo, varsTabla, varsCompactar, canalesDeInst
  <2>2. \/ UNCHANGED <<paso, pedido>>
        \/ /\ pedido' = [pedido EXCEPT ![e] = Head(aCoord[e])]
           /\ paso' = [paso EXCEPT ![e] = "esperaSET"]
           /\ Head(aCoord[e]).op = "SET"
    BY <1>5, Zenon DEF TomaSET, LlegaOp
  <2>3. peticion' = 0
    BY <2>1, SuTurno
  <2>4. SiguePaso(e)
    <3>1. CASE UNCHANGED <<paso, pedido>>
      BY <2>1, <3>1 DEF Protocolo, PedidoDelPaso, SiguePaso
    <3>2. CASE /\ pedido' = [pedido EXCEPT ![e] = Head(aCoord[e])]
               /\ paso' = [paso EXCEPT ![e] = "esperaSET"]
               /\ Head(aCoord[e]).op = "SET"
      BY <3>2 DEF SiguePaso, Tipos, TypeOK, CoordTypeOK
    <3>3. QED
      BY <2>2, <3>1, <3>2
  <2>5. QED
    BY <1>1, <1>3, <2>1, <2>3, <2>4, ProtocoloEnSuTurno
<1>6. CASE TomaSTORE(e)
  <2>1. /\ peticion > 0 /\ peticion' = peticion - 1
        /\ pedido' = [pedido EXCEPT ![e] = Head(aCoord[e])]
        /\ paso' = [paso EXCEPT ![e] = "esperaSTORE"]
        /\ Head(aCoord[e]).op = "STORE"
        /\ UNCHANGED <<elegida, disponible, claves, trabajo, mutexInst, pasoInst,
                       planACoord, aInst, deInst>>
    BY <1>6, Zenon
    DEF TomaSTORE, TrasRetardo, LlegaOp, varsTabla, varsCompactar, canalesDeInst
  <2>2. peticion' = 0
    BY <2>1, SuTurno
  <2>3. SiguePaso(e)
    BY <2>1 DEF SiguePaso, Tipos, TypeOK, CoordTypeOK
  <2>4. QED
    BY <1>1, <1>3, <2>1, <2>2, <2>3, ProtocoloEnSuTurno
<1>7. CASE TomaErrorTamanio(e)
  BY <1>1, <1>2, <1>7, ProtocoloQuieto
  DEF TomaErrorTamanio, varsCoord, canalesDeInst, varsProtocolo, varsEnlaces
<1>8. ASSUME paso[e] # "libre", LibreOtraVez(e),
             UNCHANGED <<peticion, disponible, claves, trabajo, mutexInst, pasoInst,
                         planACoord, aInst, deInst>>
      PROVE  Protocolo'
  <2>1. peticion' = 0
    BY <1>8, SuTurno
  <2>2. SiguePaso(e)
    BY <1>8 DEF LibreOtraVez, SiguePaso, Tipos, TypeOK, CoordTypeOK
  <2>3. QED
    BY <1>1, <1>3, <1>8, <2>1, <2>2, ProtocoloEnSuTurno
<1>9. CASE DecideSET(e)
  <2> DEFINE k == pedido[e].clave
             i == InstanciaParaSET(k)
  <2>1. /\ paso[e] = "esperaSET"
        /\ UNCHANGED <<peticion, disponible, claves, mutexInst, pasoInst,
                       planACoord, aInst, deInst>>
    BY <1>9, Zenon DEF DecideSET, varsCompactar, canalesDeInst
  <2>2. /\ peticion = 0 /\ \A j \in Instancias : ~Ocupada(j)
        /\ pedido[e].op = "SET"
    BY <2>1, SuTurno DEF Protocolo, PedidoDelPaso
  <2>3. CASE /\ paso' = [paso EXCEPT ![e] = "planificaKE"]
             /\ UNCHANGED <<pedido, elegida, trabajo>>
    <3>1. SiguePaso(e)
      BY <2>3 DEF SiguePaso, Tipos, TypeOK, CoordTypeOK
    <3>2. QED
      BY <1>1, <1>3, <2>1, <2>2, <2>3, <3>1, ProtocoloEnSuTurno
  <2>4. CASE LibreOtraVez(e) /\ UNCHANGED trabajo
    BY <1>8, <2>1, <2>4
  <2>5. CASE /\ i # Nada
             /\ trabajo' = [trabajo EXCEPT ![i] = [clave |-> k, de |-> e]]
             /\ elegida' = [elegida EXCEPT ![e] = i]
             /\ paso' = [paso EXCEPT ![e] = "enviaSET"]
             /\ UNCHANGED pedido
    <3>1. i \in Instancias
      <4>1. Duena(k) \in Instancias \cup {Nada}
        BY PrimeraDeTipo DEF Tipos, TypeOK, CoordTypeOK, Duena
      <4>2. i \in Instancias \cup {Nada}
        BY <4>1, PlanificarInstanciaTipo, Zenon DEF InstanciaParaSET, Tipos, TypeOK
      <4>3. QED
        BY <2>5, <4>2
    <3> HIDE DEF i
    <3>2. /\ trabajo'[i].clave = k
          /\ \A j \in Instancias \ {i} : trabajo'[j] = trabajo[j]
      BY <2>5, <3>1 DEF Tipos, TypeOK, CoordTypeOK
    <3>3. SiguePaso(e)
      <4>1. paso'[e] = "enviaSET" /\ elegida'[e] = i /\ pedido'[e] = pedido[e]
            /\ \A f \in ESIs \ {e} : paso'[f] = paso[f]
        BY <2>5 DEF Tipos, TypeOK, CoordTypeOK
      <4>2. QED
        BY <2>2, <3>2, <4>1 DEF SiguePaso
    <3>4. ASSUME NEW j \in Instancias PROVE Enlace(j)'
      <4>1. Enlace(j) /\ ~Ocupa(aInst[j], deInst[j])
        BY <2>2 DEF Protocolo, Ocupada
      <4>2. EnlaceEnOrden(aInst[j], deInst[j], viva[j], disponible[j],
                          contenido[j], claves[j], trabajo'[j].clave)
        BY <4>1, EnlaceOtroTrabajo DEF Enlace
      <4>3. Presentandose(j)' = Presentandose(j)
        BY <2>1 DEF Presentandose
      <4>4. QED
        BY <1>1, <2>1, <4>1, <4>2, <4>3 DEF Enlace
    <3>5. QED
      BY <2>1, <2>2, <3>3, <3>4, ProtocoloEnSuTurno
  <2>6. QED
    BY <1>9, <2>3, <2>4, <2>5, Zenon DEF DecideSET
<1>10. CASE DecideSTORE(e)
  <2> DEFINE k == pedido[e].clave
             i == IF Duena(k) # Nada THEN Duena(k)
                                     ELSE PrimeraDe(tabla, ConClave(k))
  <2>1. /\ paso[e] = "esperaSTORE"
        /\ UNCHANGED <<peticion, disponible, claves, trabajo, mutexInst, pasoInst,
                       planACoord, aInst, deInst>>
    BY <1>10, Zenon DEF DecideSTORE, varsTabla, varsCompactar, canalesDeInst
  <2>2. CASE LibreOtraVez(e)
    BY <1>8, <2>1, <2>2
  <2>3. CASE /\ elegida' = [elegida EXCEPT ![e] = i]
             /\ paso' = [paso EXCEPT ![e] = "enviaSTORE"]
             /\ UNCHANGED pedido
    <3> HIDE DEF i
    <3>1. peticion = 0 /\ pedido[e].op = "STORE"
      BY <2>1, SuTurno DEF Protocolo, PedidoDelPaso
    <3>2. paso'[e] = "enviaSTORE" /\ \A f \in ESIs \ {e} : paso'[f] = paso[f]
      BY <2>3 DEF Tipos, TypeOK, CoordTypeOK
    <3>3. SiguePaso(e)
      BY <2>3, <3>1, <3>2 DEF SiguePaso
    <3>4. QED
      BY <1>1, <1>3, <2>1, <3>1, <3>3, ProtocoloEnSuTurno
  <2>4. QED
    BY <1>10, <2>2, <2>3, Zenon DEF DecideSTORE
<1>11. CASE EnviaSinConexion(e)
  BY <1>1, <1>2, <1>11, ProtocoloQuieto, Zenon
  DEF EnviaSinConexion, varsPeticion, varsHiloEsi, varsTabla, canales,
      varsProtocolo, varsEnlaces
<1>12. QED
  BY <1>4, <1>5, <1>6, <1>7, <1>9, <1>10, <1>11, ProtocoloEnvia
  DEF HiloDeEsi, PasoHiloEsi

(* The answers a thread of the coordinator reads: it finds nothing else.    *)
LEMMA SoloRespuestas == ASSUME Tipos, Protocolo PROVE ~ProcesarStatus
<1>1. planACoord \in Seq(MensajesPlanACoord)
  BY DEF Tipos, TypeOK, CanalesTypeOK
<1>2. \A p \in DOMAIN planACoord : planACoord[p].tipo \in RespuestasDelPlan
  BY DEF Protocolo, NadieCompacta
<1>3. planACoord # <<>> => Head(planACoord).tipo \in RespuestasDelPlan
  BY <1>1, <1>2, SinElPrimero
<1>4. QED
  BY <1>3 DEF ProcesarStatus, RespuestasDelPlan

(* The steps of the planner, of the ESIs and of the thread that reads the   *)
(* planner: none of them touches a connection with an instance.             *)
PasoAjeno ==
  \/ HiloDePlan \/ HiloCoordinador \/ HiloAlgoritmos
  \/ \E e \in ESIs : \/ HiloServidor(e) \/ ProcesoEsi(e) \/ MuereEsi(e)
                     \/ EsiSinPlanificador(e)
  \/ UNCHANGED vars

(* The planner, the ESIs and the deaths of ESIs reach none of it.           *)
LEMMA FueraDeLosEnlaces ==
  ASSUME Tipos, Protocolo, PasoAjeno PROVE UNCHANGED varsProtocolo
<1>1. CASE HiloDePlan
  <2>1. UNCHANGED <<contenido, viva, listas>>
    BY <1>1 DEF HiloDePlan, varsInst
  <2>2. UNCHANGED <<aInst, deInst, disponible, claves, trabajo, mutexInst, paso,
                    pedido, elegida, peticion, pasoInst>>
    BY <1>1, SoloRespuestas, Zenon
    DEF HiloDePlan, PasoHiloPlan, RecibeRespuesta, AsignaRespuesta, varsPeticion,
        varsHiloEsi, varsTabla, varsCompactar, canalesSinPlanACoord, canales
  <2>3. QED
    BY <2>1, <2>2 DEF varsProtocolo, varsEnlaces
<1>2. ASSUME ~HiloDePlan PROVE UNCHANGED <<varsCoord, varsInst>>
  BY <1>2, Zenon
  DEF PasoAjeno, HiloCoordinador, HiloAlgoritmos, HiloServidor, ProcesoEsi,
      MuereEsi, EsiSinPlanificador, vars
<1>3. ASSUME HiloCoordinador PROVE UNCHANGED <<aInst, deInst>>
  BY <1>3, Zenon
  DEF HiloCoordinador, PasoCoordinador, RecibeGET, RecibeSET, RecibeSTORE,
      RecibeError
<1>4. ASSUME HiloAlgoritmos PROVE UNCHANGED <<aInst, deInst>>
  BY <1>4, Zenon
  DEF HiloAlgoritmos, PasoAlgoritmos, TomaEntrada, Elige, Pide, EsperaContinua,
      Sale, Bloquea, Despide, Desaloja, DejaBloqueado, Cierra, canalesSinAEsi,
      canales
<1>5. ASSUME NEW e \in ESIs, HiloServidor(e) PROVE UNCHANGED <<aInst, deInst>>
  BY <1>5, Zenon
  DEF HiloServidor, PasoServidor, RecibeNombre, RecibeTermino, DesconectaESI,
      LiberaESI, LiberaNombre, QuitaListo, QuitaDeLista, QuitaClave, LiberaClaves,
      sinLiberar, canales
<1>6. ASSUME NEW e \in ESIs, ProcesoEsi(e) \/ MuereEsi(e) \/ EsiSinPlanificador(e)
      PROVE  UNCHANGED <<aInst, deInst>>
  BY <1>6, Zenon
  DEF ProcesoEsi, MuereEsi, EsiSinPlanificador, PasoEsi, ConectarEsi,
      ProcesarSolicitudEjecucion, ProcesarSolicitudAnterior,
      ProcesarRespuestaSolicitud, ProcesarError, Matar, conexionesAjenas
<1>7. ASSUME ~HiloDePlan PROVE UNCHANGED <<aInst, deInst>>
  BY <1>3, <1>4, <1>5, <1>6, <1>7, Zenon DEF PasoAjeno, vars, canales
<1>8. QED
  BY <1>1, <1>2, <1>7 DEF varsCoord, varsInst, varsProtocolo, varsEnlaces

(* The planner answers a SET or a STORE; an answer is read; or neither.     *)
LEMMA RespuestasQueSiguen ==
  ASSUME Tipos, Protocolo, PasoAjeno
  PROVE  \/ planACoord' = planACoord
         \/ \E t \in RespuestasDelPlan : planACoord' = Append(planACoord, Mensaje(t))
         \/ planACoord # <<>> /\ planACoord' = Tail(planACoord)
<1>1. CASE HiloDePlan
  BY <1>1, SoloRespuestas, Zenon
  DEF HiloDePlan, PasoHiloPlan, RecibeRespuesta, AsignaRespuesta, canales
<1>2. CASE HiloCoordinador
  BY <1>2, Zenon
  DEF HiloCoordinador, PasoCoordinador, RecibeGET, RecibeSET, RecibeSTORE,
      RecibeError, RespuestasDelPlan
<1>3. ASSUME HiloAlgoritmos PROVE UNCHANGED planACoord
  BY <1>3, Zenon
  DEF HiloAlgoritmos, PasoAlgoritmos, TomaEntrada, Elige, Pide, EsperaContinua,
      Sale, Bloquea, Despide, Desaloja, DejaBloqueado, Cierra, canalesSinAEsi,
      canales
<1>4. ASSUME NEW e \in ESIs, HiloServidor(e) PROVE UNCHANGED planACoord
  BY <1>4, Zenon
  DEF HiloServidor, PasoServidor, RecibeNombre, RecibeTermino, DesconectaESI,
      LiberaESI, LiberaNombre, QuitaListo, QuitaDeLista, QuitaClave, LiberaClaves,
      sinLiberar, canales
<1>5. ASSUME NEW e \in ESIs, ProcesoEsi(e) \/ MuereEsi(e) \/ EsiSinPlanificador(e)
      PROVE  UNCHANGED planACoord
  BY <1>5, Zenon
  DEF ProcesoEsi, MuereEsi, EsiSinPlanificador, PasoEsi, ConectarEsi,
      ProcesarSolicitudEjecucion, ProcesarSolicitudAnterior,
      ProcesarRespuestaSolicitud, ProcesarError, Matar, conexionesAjenas
<1>6. QED
  BY <1>1, <1>2, <1>3, <1>4, <1>5, Zenon DEF PasoAjeno, vars, canales

(* And the planner asks the coordinator for no status.                      *)
LEMMA ProtocoloPasoAjeno == ASSUME Tipos, Protocolo, PasoAjeno PROVE Protocolo'
<1>1. /\ planACoord \in Seq(MensajesPlanACoord)
      /\ \A p \in DOMAIN planACoord : planACoord[p].tipo \in RespuestasDelPlan
  BY DEF Tipos, TypeOK, CanalesTypeOK, Protocolo, NadieCompacta
<1>2. \A p \in DOMAIN planACoord' : planACoord'[p].tipo \in RespuestasDelPlan
  <2>1. CASE planACoord' = planACoord
    BY <1>1, <2>1
  <2>2. ASSUME NEW t \in RespuestasDelPlan, planACoord' = Append(planACoord, Mensaje(t))
        PROVE  \A p \in DOMAIN planACoord' : planACoord'[p].tipo \in RespuestasDelPlan
    <3>1. Mensaje(t).tipo = t /\ Mensaje(t) \in MensajesPlanACoord
      BY DEF Mensaje, MensajesPlanACoord
    <3>2. QED
      BY <1>1, <2>2, <3>1, ConUnoAlFinal
  <2>3. CASE planACoord # <<>> /\ planACoord' = Tail(planACoord)
    BY <1>1, <2>3, SinElPrimero
  <2>4. QED
    BY <2>1, <2>2, <2>3, RespuestasQueSiguen
<1>3. QED
  BY <1>2, FueraDeLosEnlaces, ProtocoloQuieto

(* Every step keeps what the connections may hold.                          *)
LEMMA ProtocoloNext ==
  ASSUME SinCompactaciones, Tipos, Protocolo, [Next]_vars PROVE Protocolo'
<1>1. ASSUME NEW i \in Instancias, PasoDeInstancia(i) PROVE Protocolo'
  BY <1>1, ProtocoloHiloDeInst, ProtocoloProcesoInstancia, ProtocoloEntornoInstancia
  DEF PasoDeInstancia
<1>2. QED
  BY <1>1, ProtocoloHiloDeEsi, ProtocoloPasoAjeno DEF Next, PasoDeEsi, PasoAjeno

(* Protocolo is an invariant while no compaction starts.                    *)
LEMMA ProtocoloSiempre == ASSUME SinCompactaciones PROVE Spec => [](Tipos /\ Protocolo)
<1>1. Init => Tipos /\ Protocolo
  BY TiposInit, ProtocoloInicial
<1>2. Tipos /\ Protocolo /\ [Next]_vars => Tipos' /\ Protocolo'
  BY TiposNext, ProtocoloNext
<1>3. QED
  BY <1>1, <1>2, PTL DEF Spec

-----------------------------------------------------------------------------
(* What follows from it *)

(* An instance has one statement at most.                                   *)
LEMMA UnaSentencia ==
  ASSUME NEW i \in Instancias, Enlace(i)
  PROVE  /\ EnInstancia(i) # {} <=> Ocupada(i)
         /\ \A x, y \in EnInstancia(i) : x = y
<1> DEFINE a == aInst[i]
           d == deInst[i]
<1>1. /\ UnaVez(a, DeSentencia) /\ UnaVez(d, DeRespuesta)
      /\ ~(Hay(a, DeSentencia) /\ Hay(d, DeRespuesta))
  BY DEF Enlace, EnlaceEnOrden, PaquetesBien
<1>2. EnInstancia(i) = ({"aInst"} \X EnVuelo(a, DeSentencia))
                          \cup ({"deInst"} \X EnVuelo(d, DeRespuesta))
  BY DEF EnInstancia, DeSentencia, DeRespuesta
<1>3. Ocupada(i) <=> Hay(a, DeSentencia) \/ Hay(d, DeRespuesta)
  BY DEF Ocupada, Ocupa
<1> HIDE DEF a, d
<1>4. ASSUME NEW s, NEW tipos, NEW x, UnaVez(s, tipos)
      PROVE  /\ {x} \X EnVuelo(s, tipos) # {} <=> Hay(s, tipos)
             /\ \A u, w \in {x} \X EnVuelo(s, tipos) : u = w
  <2>1. EnVuelo(s, tipos) # {} <=> Hay(s, tipos)
    BY DEF EnVuelo, Hay
  <2>2. \A p, q \in EnVuelo(s, tipos) : p = q
    BY <1>4 DEF EnVuelo, UnaVez
  <2> DEFINE E == EnVuelo(s, tipos)
  <2> HIDE DEF E
  <2>3. {x} \X E # {} <=> E # {}
    <3>1. \A p \in E : <<x, p>> \in {x} \X E
      OBVIOUS
    <3>2. \A u \in {x} \X E : u[2] \in E
      OBVIOUS
    <3>3. QED
      BY <3>1, <3>2
  <2>4. \A u, w \in {x} \X E : u = w
    BY <2>2 DEF E
  <2>5. QED
    BY <2>1, <2>3, <2>4 DEF E
<1>5. QED
  <2>1. /\ {"aInst"} \X EnVuelo(a, DeSentencia) # {} <=> Hay(a, DeSentencia)
        /\ \A u, w \in {"aInst"} \X EnVuelo(a, DeSentencia) : u = w
    BY <1>1, <1>4
  <2>2. /\ {"deInst"} \X EnVuelo(d, DeRespuesta) # {} <=> Hay(d, DeRespuesta)
        /\ \A u, w \in {"deInst"} \X EnVuelo(d, DeRespuesta) : u = w
    BY <1>1, <1>4
  <2> HIDE DEF a, d
  <2>3. QED
    BY <1>1, <1>2, <1>3, <2>1, <2>2, Zenon

(* The request lock has one owner at most.                                  *)
LEMMA UnDuenoALoSumo ==
  ASSUME Protocolo
  PROVE  /\ \A x, y \in Duenos : x = y
         /\ peticion = 1 => Duenos = {}
<1> DEFINE hilos == {e \in ESIs : paso[e] # "libre"} \X {<<"hilo", 0>>}
           D(i) == {i} \X EnInstancia(i)
           dentro == UNION {D(i) : i \in Instancias}
<1>1. ASSUME NEW i \in Instancias
      PROVE  /\ D(i) # {} <=> Ocupada(i)
             /\ \A x, y \in D(i) : x = y
  <2>1. /\ EnInstancia(i) # {} <=> Ocupada(i)
        /\ \A x, y \in EnInstancia(i) : x = y
    BY UnaSentencia DEF Protocolo
  <2> DEFINE E == EnInstancia(i)
  <2> HIDE DEF E
  <2>2. {i} \X E # {} <=> E # {}
    <3>1. \A p \in E : <<i, p>> \in {i} \X E
      OBVIOUS
    <3>2. \A u \in {i} \X E : u[2] \in E
      OBVIOUS
    <3>3. QED
      BY <3>1, <3>2
  <2>3. \A u, w \in {i} \X E : u = w
    BY <2>1 DEF E
  <2>4. QED
    BY <2>1, <2>2, <2>3 DEF E
<1>2. \A x \in hilos : \E e \in ESIs : x = <<e, <<"hilo", 0>>>> /\ paso[e] # "libre"
  OBVIOUS
<1>3. \A x \in dentro : \E i \in Instancias : x \in D(i) /\ Ocupada(i)
  BY <1>1
<1> HIDE DEF D
<1>4. \A x, y \in hilos : x = y
  BY <1>2 DEF Protocolo, UnDueno
<1>5. \A x, y \in dentro : x = y
  BY <1>1, <1>3, Zenon DEF Protocolo, UnDueno
<1>6. hilos # {} => dentro = {}
  BY <1>2, <1>3 DEF Protocolo, UnDueno
<1>7. peticion = 1 => hilos = {} /\ dentro = {}
  BY <1>2, <1>3 DEF Protocolo, UnDueno
<1>8. Duenos = hilos \cup dentro
  BY DEF Duenos, D
<1> HIDE DEF hilos, dentro
<1>9. QED
  BY <1>4, <1>5, <1>6, <1>7, <1>8

(***************************************************************************)
(* Whatever dies, and however many instances come back, g_peticion is not  *)
(* released twice: a thread of an ESI has it or a statement in an instance *)
(* does, never two of them, and neither while it is free.                  *)
(***************************************************************************)
THEOREM PeticionNuncaDoble ==
  ASSUME SinCompactaciones PROVE Spec => []PeticionSinDobles
<1>1. Tipos /\ Protocolo => PeticionSinDobles
  <2> SUFFICES ASSUME Tipos, Protocolo PROVE PeticionSinDobles
    OBVIOUS
  <2>1. peticion \in {0, 1}
    BY DEF Tipos, TypeOK, CoordTypeOK, Protocolo, UnDueno
  <2>2. CASE Duenos = {}
    BY <2>1, <2>2, FS_EmptySet DEF PeticionSinDobles
  <2>3. ASSUME NEW x \in Duenos PROVE PeticionSinDobles
    <3>1. Duenos = {x} /\ peticion = 0
      BY <2>1, <2>3, UnDuenoALoSumo
    <3>2. Cardinality(Duenos) = 1
      BY <3>1, FS_Singleton
    <3>3. QED
      BY <3>1, <3>2 DEF PeticionSinDobles
  <2>4. QED
    BY <2>2, <2>3
<1>2. QED
  BY <1>1, ProtocoloSiempre, PTL

(***************************************************************************)
(* The lock of an instance, which its answer releases and the thread that  *)
(* reads the end of its socket releases if it is taken, is never released  *)
(* twice.                                                                  *)
(***************************************************************************)
THEOREM CerrojoNuncaDoble ==
  ASSUME SinCompactaciones PROVE Spec => []CerrojoDeInstancia
<1>1. Tipos /\ Protocolo => CerrojoDeInstancia
  BY DEF Protocolo, CerrojoTomado, CerrojoDeInstancia
<1>2. QED
  BY <1>1, ProtocoloSiempre, PTL

(* The coordinator dies of no connection. *)
CaeSinConexion == coordCaido' # coordCaido => \E e \in ESIs : EnviaSinConexion(e)

(* A SET_OK is read of an instance with a job, and no status is asked for.  *)
LEMMA CoordinadorSigue ==
  ASSUME Tipos, Protocolo, [Next]_vars, \A e \in ESIs : ~EnviaSinConexion(e)
  PROVE  coordCaido' = coordCaido
<1>1. CASE HiloDePlan
  BY <1>1, SoloRespuestas, Zenon
  DEF HiloDePlan, PasoHiloPlan, RecibeRespuesta, AsignaRespuesta, varsCompactar
<1>2. ASSUME NEW e \in ESIs, HiloDeEsi(e) PROVE coordCaido' = coordCaido
  BY <1>2, Zenon
  DEF HiloDeEsi, PasoHiloEsi, TomaGET, TomaSET, TomaSTORE, TomaErrorTamanio,
      DecideSET, DecideSTORE, EnviaAInstancia, varsCompactar, varsCoord
<1>3. ASSUME NEW i \in Instancias, HiloDeInst(i) PROVE coordCaido' = coordCaido
  <2>1. ASSUME RecibeSetOk(i) PROVE coordCaido' = coordCaido
    <3>1. deInst[i] # <<>> /\ Head(deInst[i]).tipo = "SET_OK"
      BY <2>1 DEF RecibeSetOk, LlegaTipo
    <3>2. 1 \in DOMAIN deInst[i] /\ deInst[i][1].tipo = "SET_OK"
      BY <3>1, TiposDeEnlace, SinElPrimero
    <3>3. trabajo[i].clave \in Claves
      BY <3>2 DEF Protocolo, Enlace, EnlaceEnOrden, TrabajoBien, Hay
    <3>4. trabajo[i] # SinTrabajo
      BY <3>3, NadaAssumption DEF SinTrabajo
    <3>5. coordCaido = FALSE
      BY <1>3, Zenon DEF HiloDeInst, EnPie, Tipos, TypeOK, CoordTypeOK
    <3>6. QED
      BY <2>1, <3>4, <3>5 DEF RecibeSetOk
  <2>2. ASSUME ~RecibeSetOk(i) PROVE UNCHANGED coordCaido
    BY <1>3, <2>2, LlegaAlHilo, Zenon
    DEF RecibeNombreInstancia, PresentaInstancia, RecibeStoreOk,
        RecibeClaveEliminada, DesconectaInstancia, varsCompactar
  <2>3. QED
    BY <2>1, <2>2
<1>4. ASSUME NEW i \in Instancias, ProcesoInstancia(i) \/ EntornoInstancia(i)
      PROVE  UNCHANGED varsCoord
  BY <1>4, Zenon DEF ProcesoInstancia, EntornoInstancia
<1>5. ASSUME ~HiloDePlan, PasoAjeno PROVE UNCHANGED varsCoord
  BY <1>5, Zenon
  DEF PasoAjeno, HiloCoordinador, HiloAlgoritmos, HiloServidor, ProcesoEsi,
      MuereEsi, EsiSinPlanificador, vars
<1>6. UNCHANGED varsCoord => coordCaido' = coordCaido
  BY DEF varsCoord
<1>7. QED
  BY <1>1, <1>2, <1>3, <1>4, <1>5, <1>6
  DEF Next, PasoDeEsi, PasoDeInstancia, PasoAjeno

(***************************************************************************)
(* Whatever dies, the reply to a SET finds the job procesarSET recorded    *)
(* for the instance: the coordinator only dies when a statement goes to an *)
(* instance buscarConexion found no connection of (coordinador.c:374 and   *)
(* 433).                                                                   *)
(***************************************************************************)
THEOREM CoordinadorSoloCaeSinConexion ==
  ASSUME SinCompactaciones PROVE Spec => [][CaeSinConexion]_vars
<1>1. Tipos /\ Protocolo /\ [Next]_vars => CaeSinConexion
  BY CoordinadorSigue DEF CaeSinConexion
<1>2. QED
  BY <1>1, ProtocoloSiempre, PTL DEF Spec

(***************************************************************************)
(* When nothing is on the way, every key an instance has is in the list    *)
(* the coordinator keeps for it, also after it came back with the files it *)
(* had: ENVIAR_INFO_INSTANCIA names no key the coordinator does not list.  *)
(***************************************************************************)
THEOREM ClavesALaVista ==
  ASSUME SinCompactaciones PROVE Spec => []SinClavesOcultas
<1>1. Tipos /\ Protocolo => SinClavesOcultas
  <2> SUFFICES ASSUME Protocolo, NEW i \in Instancias,
                      aInst[i] = <<>>, deInst[i] = <<>>, viva[i],
                      NEW k \in contenido[i]
               PROVE  k \in Range(claves[i])
    BY DEF SinClavesOcultas
  <2>1. ListaCubre(deInst[i], contenido[i], claves[i], trabajo[i].clave)
    BY DEF Protocolo, Enlace, EnlaceEnOrden
  <2>2. ~Hay(deInst[i], {"SET_OK"})
    BY DEF Hay
  <2>3. QED
    BY <2>1, <2>2 DEF ListaCubre
<1>2. QED
  BY <1>1, ProtocoloSiempre, PTL
=============================================================================
