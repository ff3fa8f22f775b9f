---------------------------- MODULE TurnoPruebas ----------------------------
(***************************************************************************)
(* Theorems about the whole system when nothing dies and the scripts are   *)
(* well formed: the statement under way is followed from the request of    *)
(* the planner to the unit of continua that reports it.  From where it may *)
(* be follow one turn at a time, one place for each ESI, one owner of the  *)
(* request lock, and that nobody writes a key another ESI has.  The last   *)
(* section is about the choice of calcularSiguiente.                       *)
(***************************************************************************)
EXTENDS VistaPruebas, PropiedadesEleccion

(* The keys a script has taken in its first n statements and not stored      *)
(* since.                                                                    *)
EnMano(g, n) ==
  {k \in Claves :
     \E q \in 1..n : /\ g[q].op = "GET" /\ g[q].clave = k
                     /\ \A r \in (q + 1)..n : g[r].op = "STORE" => g[r].clave # k}

(* A script writes and stores only what it has in hand, and its last         *)
(* statement is not a GET, which could block an ESI that has already         *)
(* announced its end.                                                        *)
GuionBien(g) ==
  /\ \A p \in DOMAIN g : /\ g[p].op \in Operaciones
                         /\ g[p].op \in {"SET", "STORE"} => g[p].clave \in EnMano(g, p - 1)
  /\ g[Len(g)].op # "GET"

(* Every script is of that kind.                                             *)
GuionesBien == \A g \in Guiones : GuionBien(g)
(* No ESI is killed from outside.                                            *)
SoloElSistema == Fragiles = {}
(* An instance was connected before the planner and the ESIs.                *)
HayInstancias == TablaInicial # <<>>

-----------------------------------------------------------------------------
(* From the request for a statement to the end of its ESI, or to its return  *)
(* to the lists.                                                             *)
EnTurno == pc \in {"primera", "ciclo", "continua", "salida", "cierre"}

(* e is in a list of the planner.                                            *)
Conocida(e) == e \in listos \/ EnAlgunaCola(e)

(* The statement e sent, or sends again; and whether it is its last.         *)
Sentencia(e) == guion[e][ipAnterior[e]]
Ultima(e) == ipAnterior[e] = Len(guion[e])

(* e holds what the statements before p left in hand.                        *)
Puede(e, p) == p \in DOMAIN guion[e] /\ EnMano(guion[e], p - 1) \subseteq tomadas[e]

Conectada(e) == vida[e] = "conectada"
Callada(e) == aCoord[e] = <<>> /\ deEsi[e] = <<>>

(* e waits, or will wait, for the request *)
Sigue(e) ==
  /\ Conectada(e) /\ Callada(e)
  /\ \/ aEsi[e] = <<>> /\ Puede(e, ipActual[e])
     \/ aEsi[e] = <<"ENVIAR_BLOQUEO_ESI">> /\ Puede(e, ipAnterior[e])

(* e has not connected; it has, and its name was not read; it has ended.     *)
Nueva(e) ==
  /\ vida[e] = "nueva" /\ Callada(e) /\ aEsi[e] = <<>>
  /\ ipActual[e] = 1 /\ tomadas[e] = {}

Anunciada(e) ==
  /\ Conectada(e) /\ aEsi[e] = <<>> /\ aCoord[e] = <<>>
  /\ deEsi[e] = <<"ENVIAR_NOMBRE_ESI">>
  /\ ipActual[e] = 1

Ida(e) == vida[e] = "terminada" /\ Callada(e) /\ aEsi[e] = <<>> /\ tomadas[e] = {}

(* What an ESI that is not in its turn may be doing.                         *)
Fuera(e) ==
  \/ e \notin liberados /\ ~Conocida(e) /\ (Nueva(e) \/ Anunciada(e))
  \/ e \notin liberados /\ Conocida(e) /\ Sigue(e)
  \/ e \in liberados /\ ~Conocida(e) /\ Ida(e)

(* The turn, step by step: the statement was asked for, ...                  *)
Pedida(e) ==
  /\ ~termino /\ ~bloqueo /\ continua = 0 /\ coordAPlan = <<>>
  /\ Conectada(e) /\ Callada(e)
  /\ \/ aEsi[e] = <<"SOLICITUD_EJECUCION">> /\ Puede(e, ipActual[e])
     \/ /\ aEsi[e] = <<"ENVIAR_BLOQUEO_ESI", "SOLICITUD_EJECUCION">>
        /\ Puede(e, ipAnterior[e])

(* ... is under way, ...                                                     *)
EnCurso(e) ==
  /\ ~bloqueo /\ continua = 0
  /\ Conectada(e) /\ aEsi[e] = <<>>
  /\ ipActual[e] = ipAnterior[e] + 1 /\ Puede(e, ipAnterior[e])

(* ... was sent to the coordinator, ...                                      *)
EnviadaPorEsi(e) ==
  /\ EnCurso(e)
  /\ aCoord[e] = <<Sentencia(e)>> /\ coordAPlan = <<>>
  /\ \/ deEsi[e] = <<>> /\ (termino <=> Ultima(e))
     \/ deEsi[e] = <<"TERMINO_ESI">> /\ ~termino /\ Ultima(e)

(* ... was reported to the planner, ...                                      *)
EnviadaAlPlan(e) ==
  /\ EnCurso(e)
  /\ Callada(e) /\ coordAPlan = <<Sentencia(e)>>
  /\ Sentencia(e).clave \in sistema
  /\ (termino <=> Ultima(e))

(* ... was answered there, with the unit of continua not yet taken; ...      *)
Respondida(e) ==
  /\ coordAPlan = <<>> /\ continua = Uno(pc = "continua")
  /\ Conectada(e) /\ Callada(e)
  /\ \/ /\ bloqueo /\ ~termino /\ claveGET \in Claves
        /\ aEsi[e] = <<>> /\ Puede(e, ipAnterior[e])
     \/ ~bloqueo /\ termino /\ aEsi[e] = <<>>
     \/ ~bloqueo /\ ~termino /\ Sigue(e)

(* ... or the ESI was told to end.                                           *)
Cerrando(e) ==
  /\ termino /\ ~bloqueo /\ coordAPlan = <<>> /\ aCoord[e] = <<>>
  /\ \/ /\ Conectada(e) /\ aEsi[e] = <<"CONTINUA_ESI">> /\ deEsi[e] = <<>>
        /\ continua = 0
     \/ /\ vida[e] = "terminada" /\ aEsi[e] = <<>> /\ deEsi[e] = <<"ENVIAR_ERROR">>
        /\ continua = 0
     \/ Ida(e) /\ continua = 1

(* What the ESI in its turn may be doing, at each place of hiloAlgoritmos.   *)
EnSuFase(e) ==
  /\ e \notin liberados /\ ~Conocida(e)
  /\ \/ pc \in {"primera", "ciclo", "salida", "continua"} /\ Respondida(e)
     \/ pc = "continua" /\ (Pedida(e) \/ EnviadaPorEsi(e) \/ EnviadaAlPlan(e))
     \/ pc = "cierre" /\ Cerrando(e)
  /\ pc = "primera" => ~bloqueo /\ ~termino
  /\ pc = "salida" => ~bloqueo

NadieEnTurno == ~termino /\ ~bloqueo /\ continua = 0 /\ coordAPlan = <<>>

(* Every ESI is where the planner thinks it is; ...                          *)
FaseDeCadaUno ==
  /\ ~caido /\ ~huboError
  /\ EnTurno \/ NadieEnTurno
  /\ \A e \in ESIs : IF e = actual /\ EnTurno THEN EnSuFase(e) ELSE Fuera(e)

(* ... and hiloServidor frees nobody.                                        *)
Fases == FaseDeCadaUno /\ libera = Ocioso

(* A key in the hands of an ESI is a key of the system.                      *)
Registradas ==
  /\ \A n \in Nombres : tomadas[n] \subseteq sistema
  /\ \A e \in ESIs : paso[e] = "esperaSTORE" => pedido[e].clave \in sistema

(* There is an instance to choose, and none is marked as fallen.             *)
TablaDisponible == tabla # <<>> /\ \A i \in Range(tabla) : disponible[i]

(* listos has as many ESIs as ESIentrada counts.                             *)
Contados == IsFiniteSet(listos) /\ ListosContados

(* The invariant of the turn.                                                *)
Turnos == Fases /\ Registradas /\ TablaDisponible /\ Contados

-----------------------------------------------------------------------------
(* Queues of one or two packets *)

(* What is added to, and taken from, a queue of at most two packets.         *)
LEMMA Colas ==
  ASSUME NEW m, NEW n
  PROVE  /\ Append(<<>>, m) = <<m>> /\ Append(<<m>>, n) = <<m, n>>
         /\ <<m>> # <<>> /\ Head(<<m>>) = m /\ Tail(<<m>>) = <<>>
         /\ <<m, n>> # <<>> /\ Head(<<m, n>>) = m /\ Tail(<<m, n>>) = <<n>>
<1> DEFINE M == {m, n}
<1>1. Append(<<>>, m) = <<m>>
  OBVIOUS
<1>2. Append(<<m>>, n) = <<m, n>>
  <2> DEFINE s == Append(<<m>>, n)
  <2>1. <<m>> \in Seq(M) /\ Len(<<m>>) = 1 /\ <<m>>[1] = m
    OBVIOUS
  <2>2. /\ s \in Seq(M) /\ Len(s) = 2
        /\ s[1] = m /\ s[2] = n
    BY <2>1, AppendProperties
  <2>3. <<m, n>> \in Seq(M) /\ Len(<<m, n>>) = 2 /\ <<m, n>>[1] = m /\ <<m, n>>[2] = n
    OBVIOUS
  <2> HIDE DEF s
  <2>4. \A i \in 1..Len(s) : s[i] = <<m, n>>[i]
    BY <2>2, <2>3
  <2>5. s = <<m, n>>
    BY <2>2, <2>3, <2>4, SeqEqual
  <2>6. QED
    BY <2>5 DEF s
<1>3. <<m>> # <<>> /\ Head(<<m>>) = m /\ Tail(<<m>>) = <<>>
  OBVIOUS
<1>4. <<m, n>> # <<>> /\ Head(<<m, n>>) = m /\ Tail(<<m, n>>) = <<n>>
  OBVIOUS
<1>5. QED
  BY <1>1, <1>2, <1>3, <1>4

-----------------------------------------------------------------------------
(* One ESI at a time *)

(* Nothing of e changes.                                                     *)
MismoEsi(e) ==
  /\ vida'[e] = vida[e] /\ guion'[e] = guion[e]
  /\ ipActual'[e] = ipActual[e] /\ ipAnterior'[e] = ipAnterior[e]
  /\ aEsi'[e] = aEsi[e] /\ deEsi'[e] = deEsi[e] /\ aCoord'[e] = aCoord[e]
  /\ tomadas'[e] = tomadas[e]
  /\ e \in liberados' <=> e \in liberados
  /\ Conocida(e)' <=> Conocida(e)

MismoTurno ==
  /\ UNCHANGED <<pc, actual, termino, bloqueo, continua, coordAPlan, claveGET>>
  /\ sistema \subseteq sistema'

(* An ESI that is not in its turn stays as it is.                            *)
LEMMA FueraSigue ==
  ASSUME NEW e \in ESIs, Fuera(e), MismoEsi(e) PROVE Fuera(e)'
<1>1. Callada(e)' <=> Callada(e)
  BY DEF MismoEsi, Callada
<1>2. Nueva(e) => Nueva(e)'
  BY <1>1 DEF MismoEsi, Nueva
<1>3. Anunciada(e) => Anunciada(e)'
  BY <1>1 DEF MismoEsi, Anunciada, Conectada
<1>4. Sigue(e) => Sigue(e)'
  BY <1>1 DEF MismoEsi, Sigue, Conectada, Puede
<1>5. Ida(e) => Ida(e)'
  BY <1>1 DEF MismoEsi, Ida
<1>6. QED
  BY <1>2, <1>3, <1>4, <1>5 DEF MismoEsi, Fuera

(* So does the ESI in its turn, when nothing of the turn changes.            *)
LEMMA EnSuFaseSigue ==
  ASSUME NEW e \in ESIs, EnSuFase(e), MismoEsi(e), MismoTurno PROVE EnSuFase(e)'
<1>1. Callada(e)' <=> Callada(e)
  BY DEF MismoEsi, Callada
<1>3. Sigue(e) => Sigue(e)'
  BY <1>1 DEF MismoEsi, Sigue, Conectada, Puede
<1>4. Respondida(e) => Respondida(e)'
  BY <1>1, <1>3 DEF MismoEsi, MismoTurno, Respondida, Conectada, Uno, Puede
<1>5. Pedida(e) => Pedida(e)'
  BY <1>1 DEF MismoEsi, MismoTurno, Pedida, Conectada, Puede
<1>6. EnCurso(e) => EnCurso(e)'
  BY <1>1 DEF MismoEsi, MismoTurno, EnCurso, Conectada, Puede
<1>7. Sentencia(e)' = Sentencia(e) /\ (Ultima(e)' <=> Ultima(e))
  BY DEF MismoEsi, Sentencia, Ultima
<1>8. EnviadaPorEsi(e) => EnviadaPorEsi(e)'
  BY <1>6, <1>7 DEF MismoEsi, MismoTurno, EnviadaPorEsi
<1>9. EnviadaAlPlan(e) => EnviadaAlPlan(e)'
  BY <1>1, <1>6, <1>7 DEF MismoEsi, MismoTurno, EnviadaAlPlan
<1>10. Cerrando(e) => Cerrando(e)'
  BY <1>1 DEF MismoEsi, MismoTurno, Cerrando, Conectada, Ida
<1>11. QED
  BY <1>4, <1>5, <1>8, <1>9, <1>10 DEF MismoEsi, MismoTurno, EnSuFase

(* The turn of actual starts, goes on or ends; nothing of another changes.   *)
LEMMA FasesDelActual ==
  ASSUME Fases, NEW a \in ESIs, EnTurno => a = actual, EnTurno' => a = actual',
         \A f \in ESIs \ {a} : MismoEsi(f),
         EnTurno' => EnSuFase(a)', ~EnTurno' => Fuera(a)' /\ NadieEnTurno',
         ~caido', ~huboError'
  PROVE  FaseDeCadaUno'
<1>1. \A f \in ESIs \ {a} : Fuera(f)'
  BY FueraSigue DEF Fases, FaseDeCadaUno
<1>2. QED
  BY <1>1 DEF Fases, FaseDeCadaUno

(* A step of e in which nothing of the turn changes.                         *)
LEMMA FasesDeUno ==
  ASSUME Fases, NEW e \in ESIs, \A f \in ESIs \ {e} : MismoEsi(f),
         MismoTurno, UNCHANGED <<caido, huboError>>,
         IF e = actual /\ EnTurno THEN EnSuFase(e)' ELSE Fuera(e)'
  PROVE  FaseDeCadaUno'
<1>1. /\ (EnTurno' <=> EnTurno) /\ actual' = actual
      /\ NadieEnTurno => NadieEnTurno'
  BY DEF MismoTurno, EnTurno, NadieEnTurno
<1>2. ASSUME NEW f \in ESIs \ {e}
      PROVE  IF f = actual /\ EnTurno THEN EnSuFase(f)' ELSE Fuera(f)'
  BY FueraSigue, EnSuFaseSigue DEF Fases, FaseDeCadaUno
<1>3. QED
  BY <1>1, <1>2 DEF Fases, FaseDeCadaUno

(* A step of nobody.                                                         *)
LEMMA FasesQuietas ==
  ASSUME Fases, UNCHANGED <<varsPlan, varsEsi, aEsi, deEsi, aCoord, coordAPlan>>,
         sistema \subseteq sistema'
  PROVE  FaseDeCadaUno'
<1>1. MismoTurno /\ UNCHANGED <<caido, huboError>>
  BY DEF varsPlan, flags, MismoTurno
<1>2. \A f \in ESIs : MismoEsi(f)
  BY DEF varsPlan, varsEsi, tablas, MismoEsi, Conocida, EnAlgunaCola
<1>3. /\ (EnTurno' <=> EnTurno) /\ actual' = actual
      /\ NadieEnTurno => NadieEnTurno'
  BY <1>1 DEF MismoTurno, EnTurno, NadieEnTurno
<1>4. ASSUME NEW f \in ESIs
      PROVE  IF f = actual /\ EnTurno THEN EnSuFase(f)' ELSE Fuera(f)'
  BY <1>1, <1>2, FueraSigue, EnSuFaseSigue DEF Fases, FaseDeCadaUno
<1>5. QED
  BY <1>1, <1>3, <1>4 DEF Fases, FaseDeCadaUno

(* While there is a turn it is that of one ESI, whose name every thread of   *)
(* the planner reads.                                                        *)
LEMMA UnTurno ==
  ASSUME Tipos, Fases, EnTurno
  PROVE  /\ actual \in ESIs /\ EnSuFase(actual) /\ NombresLeidos = {actual}
         /\ \A f \in ESIs \ {actual} : Fuera(f)
<1>1. actual \in ESIs
  BY DEF Tipos, ActualEnCurso, EnTurno
<1>2. EnSuFase(actual)
  BY <1>1 DEF Fases, FaseDeCadaUno
<1>3. actual \notin liberados
  BY <1>2 DEF EnSuFase
<1>4. QED
  BY <1>1, <1>2, <1>3 DEF Fases, FaseDeCadaUno, NombresLeidos

-----------------------------------------------------------------------------
(* hiloAlgoritmos *)

(* The ESI in its turn is asked for a statement.                             *)
LEMMA FasesPide ==
  ASSUME Tipos, Fases, HiloAlgoritmos, Pide PROVE FaseDeCadaUno'
<1>1. EnTurno
  BY DEF Pide, EnTurno
<1> PICK a \in ESIs : a = actual
  BY <1>1, UnTurno
<1>2. EnSuFase(a)
  BY <1>1, UnTurno
<1>3. ~bloqueo /\ ~termino /\ Sigue(a) /\ Respondida(a) /\ continua = 0
  BY <1>2 DEF Pide, HaySalida, EnSuFase, Respondida, Uno
<1>4. /\ aEsi' = [aEsi EXCEPT ![a] = Append(@, "SOLICITUD_EJECUCION")]
      /\ UNCHANGED <<listos, cola, tomadas, termino, bloqueo, huboError, actual,
                     liberados, continua, caido, coordAPlan, deEsi, aCoord, varsEsi>>
      /\ pc' = "continua"
  BY DEF Pide, Enviado, HiloAlgoritmos, tablas, flags, canalesSinAEsi
<1>5. aEsi \in [ESIs -> Seq(MensajesAEsi)]
  BY DEF Tipos, TypeOK, CanalesTypeOK
<1>6. /\ aEsi[a] = <<>> => aEsi'[a] = <<"SOLICITUD_EJECUCION">>
      /\ aEsi[a] = <<"ENVIAR_BLOQUEO_ESI">> =>
           aEsi'[a] = <<"ENVIAR_BLOQUEO_ESI", "SOLICITUD_EJECUCION">>
  BY <1>4, <1>5, Colas DEF MensajesAEsi
<1>7. Pedida(a)'
  BY <1>3, <1>4, <1>6
  DEF Pedida, Sigue, Respondida, Conectada, Callada, Puede, varsEsi
<1>8. Conocida(a)' <=> Conocida(a)
  BY <1>4 DEF Conocida, EnAlgunaCola
<1>9. EnSuFase(a)' /\ EnTurno'
  BY <1>2, <1>4, <1>7, <1>8 DEF EnSuFase, EnTurno
<1>10. \A f \in ESIs \ {a} : MismoEsi(f)
  BY <1>4, <1>5 DEF MismoEsi, Conocida, EnAlgunaCola, varsEsi
<1>11. QED
  BY <1>1, <1>4, <1>9, <1>10, FasesDelActual DEF Fases, FaseDeCadaUno

(* Between two turns the thread takes a unit of ESIentrada or gives up an    *)
(* ESI that waits for a key.                                                 *)
LEMMA FasesSinTurno ==
  ASSUME Tipos, Fases, HiloAlgoritmos, TomaEntrada \/ DejaBloqueado PROVE FaseDeCadaUno'
<1>1. ~EnTurno /\ ~EnTurno' /\ UNCHANGED <<canales, tablas, liberados>>
  BY DEF TomaEntrada, DejaBloqueado, EnTurno
<1>2. UNCHANGED <<termino, bloqueo, continua, caido>> /\ ~huboError'
  <2>1. /\ UNCHANGED <<termino, bloqueo, continua, caido>>
        /\ huboError' = huboError \/ huboError' = FALSE
    BY DEF TomaEntrada, DejaBloqueado, flags
  <2>2. QED
    BY <2>1 DEF Fases, FaseDeCadaUno
<1>3. NadieEnTurno'
  BY <1>1, <1>2 DEF Fases, FaseDeCadaUno, NadieEnTurno, canales
<1>4. \A f \in ESIs : MismoEsi(f)
  BY <1>1 DEF canales, tablas, HiloAlgoritmos, varsEsi, MismoEsi, Conocida, EnAlgunaCola
<1>5. \A f \in ESIs : Fuera(f)'
  BY <1>1, <1>4, FueraSigue DEF Fases, FaseDeCadaUno
<1>6. QED
  BY <1>1, <1>2, <1>3, <1>5 DEF Fases, FaseDeCadaUno

(* A ready ESI gets the turn.                                                *)
LEMMA FasesElige ==
  ASSUME Tipos, NuncaEnDosLugares, Fases, listos # {}, HiloAlgoritmos, Elige
  PROVE  FaseDeCadaUno'
<1>1. ~EnTurno /\ NadieEnTurno
  BY DEF Elige, EnTurno, Fases, FaseDeCadaUno
<1> PICK a \in listos :
      /\ actual' = a
      /\ listos' = listos \ {a}
      /\ caido' \in IF a \in liberados THEN BOOLEAN ELSE {FALSE}
  BY DEF Elige
<1>2. a \in ESIs
  BY DEF Tipos, TypeOK, PlanTypeOK
<1>3. Fuera(a) /\ Conocida(a) /\ ~EnAlgunaCola(a)
  BY <1>1, <1>2 DEF Fases, FaseDeCadaUno, Conocida, NuncaEnDosLugares
<1>4. a \notin liberados /\ Sigue(a)
  BY <1>3 DEF Fuera
<1>5. /\ UNCHANGED <<cola, tomadas, termino, bloqueo, huboError, liberados,
                     continua, canales, varsEsi>>
      /\ pc' \in {"primera", "ciclo"} /\ ~caido'
  BY <1>4 DEF Elige, HiloAlgoritmos, flags
<1>6. Respondida(a)'
  BY <1>1, <1>4, <1>5
  DEF NadieEnTurno, Respondida, Sigue, Callada, Conectada, Puede, Uno, canales, varsEsi
<1>7. ~Conocida(a)'
  BY <1>3, <1>5 DEF Conocida, EnAlgunaCola
<1>8. EnTurno' /\ EnSuFase(a)'
  BY <1>1, <1>4, <1>5, <1>6, <1>7 DEF EnTurno, EnSuFase, NadieEnTurno
<1>9. \A f \in ESIs \ {a} : MismoEsi(f)
  BY <1>5 DEF MismoEsi, Conocida, EnAlgunaCola, varsEsi, canales
<1>10. ~huboError'
  BY <1>5 DEF Fases, FaseDeCadaUno
<1>11. QED
  BY <1>1, <1>2, <1>5, <1>8, <1>9, <1>10, FasesDelActual

(* The statement was reported: the ESI is in its turn, but its queues and    *)
(* tables do not change.                                                     *)
LEMMA FasesEsperaOSale ==
  ASSUME Tipos, Fases, HiloAlgoritmos, EsperaContinua \/ Sale PROVE FaseDeCadaUno'
<1>1. EnTurno /\ EnTurno'
  BY DEF EsperaContinua, Sale, EnTurno
<1> PICK a \in ESIs : a = actual
  BY <1>1, UnTurno
<1>2. EnSuFase(a)
  BY <1>1, UnTurno
<1>3. /\ UNCHANGED <<tablas, flags, claveGET, actual, liberados, caido, canales, varsEsi>>
      /\ \/ /\ pc = "continua" /\ pc' = "ciclo"
            /\ continua > 0 /\ continua' = continua - 1
         \/ pc = "ciclo" /\ pc' = "salida" /\ ~bloqueo /\ continua' = continua
  BY DEF EsperaContinua, Sale, HiloAlgoritmos
<1>4. Respondida(a)
  BY <1>2, <1>3
  DEF EnSuFase, Pedida, EnviadaPorEsi, EnviadaAlPlan, EnCurso
<1>5. continua' = 0
  BY <1>3, <1>4 DEF Respondida, Uno
<1>6. \A f \in ESIs : MismoEsi(f)
  BY <1>3 DEF MismoEsi, Conocida, EnAlgunaCola, varsEsi, canales, tablas
<1>7. Respondida(a)'
  BY <1>3, <1>4, <1>5
  DEF Respondida, Sigue, Callada, Conectada, Puede, Uno, canales, varsEsi, flags, tablas
<1>8. EnSuFase(a)'
  BY <1>2, <1>3, <1>6, <1>7 DEF EnSuFase, MismoEsi, flags
<1>9. ~caido' /\ ~huboError'
  BY <1>3 DEF Fases, FaseDeCadaUno, flags
<1>10. QED
  BY <1>1, <1>3, <1>6, <1>8, <1>9, FasesDelActual

(* The ESI that is blocked leaves its turn and waits in the list of the key. *)
LEMMA FasesBloquea ==
  ASSUME Tipos, Fases, HiloAlgoritmos, Bloquea PROVE FaseDeCadaUno'
<1>1. EnTurno /\ ~EnTurno' /\ pc = "ciclo"
  BY DEF Bloquea, EnTurno
<1> PICK a \in ESIs : a = actual
  BY <1>1, UnTurno
<1>2. EnSuFase(a)
  BY <1>1, UnTurno
<1>3. /\ Respondida(a) /\ ~termino /\ claveGET \in Claves /\ aEsi[a] = <<>>
      /\ Puede(a, ipAnterior[a]) /\ a \notin liberados /\ continua = 0
  BY <1>1, <1>2 DEF EnSuFase, Respondida, Bloquea, Uno
<1> PICK k \in Claves : k = claveGET
  BY <1>3
<1>4. k # Nada
  BY NadaAssumption
<1>5. /\ cola' = [cola EXCEPT ![k] = Append(@, a)]
      /\ aEsi' = [aEsi EXCEPT ![a] = Append(@, "ENVIAR_BLOQUEO_ESI")]
      /\ UNCHANGED <<listos, tomadas, termino, huboError, liberados, continua,
                     coordAPlan, deEsi, aCoord, varsEsi>>
      /\ bloqueo' = FALSE /\ ~caido'
  BY <1>4 DEF Bloquea, Encolado, Enviado, HiloAlgoritmos, canalesSinAEsi
<1>6. aEsi \in [ESIs -> Seq(MensajesAEsi)] /\ cola \in [Claves -> Seq(ESIs)]
  BY DEF Tipos, TypeOK, CanalesTypeOK, PlanTypeOK
<1>7. aEsi'[a] = <<"ENVIAR_BLOQUEO_ESI">>
  BY <1>3, <1>5, <1>6, Colas
<1>8. \A l \in Claves : \A f : f \in Range(cola'[l]) <=>
                              f \in Range(cola[l]) \/ (f = a /\ l = k)
  <2>1. Range(Append(cola[k], a)) = Range(cola[k]) \cup {a}
    BY <1>6, RangoConUno
  <2>2. \A l \in Claves : cola'[l] = IF l = k THEN Append(cola[k], a) ELSE cola[l]
    BY <1>5, <1>6
  <2>3. QED
    BY <2>1, <2>2
<1>9. Conocida(a)' /\ \A f \in ESIs \ {a} : Conocida(f)' <=> Conocida(f)
  <2>1. \A f : EnAlgunaCola(f)' <=> EnAlgunaCola(f) \/ f = a
    BY <1>8 DEF EnAlgunaCola
  <2>2. QED
    BY <1>5, <2>1 DEF Conocida
<1>10. Sigue(a)'
  BY <1>3, <1>5, <1>7 DEF Respondida, Sigue, Callada, Conectada, Puede, varsEsi
<1>11. Fuera(a)'
  BY <1>3, <1>5, <1>9, <1>10 DEF Fuera
<1>12. \A f \in ESIs \ {a} : MismoEsi(f)
  BY <1>5, <1>6, <1>9 DEF MismoEsi, varsEsi
<1>13. NadieEnTurno'
  BY <1>3, <1>5 DEF NadieEnTurno, Respondida
<1>14. ~huboError'
  BY <1>5 DEF Fases, FaseDeCadaUno
<1>15. QED
  BY <1>1, <1>5, <1>11, <1>12, <1>13, <1>14, FasesDelActual

(* The ESI that reported its last statement is told to end.                  *)
LEMMA FasesDespide ==
  ASSUME Tipos, Fases, HiloAlgoritmos, Despide PROVE FaseDeCadaUno'
<1>1. termino /\ ~huboError /\ EnTurno /\ pc = "salida"
  BY DEF Despide, FinDelActual, Fases, FaseDeCadaUno, NadieEnTurno, EnTurno
<1> PICK a \in ESIs : a = actual
  BY <1>1, UnTurno
<1>2. EnSuFase(a)
  BY <1>1, UnTurno
<1>3. Respondida(a) /\ aEsi[a] = <<>> /\ ~bloqueo /\ continua = 0
  BY <1>1, <1>2 DEF EnSuFase, Respondida, Uno
<1>4. /\ aEsi' = [aEsi EXCEPT ![a] = Append(@, "CONTINUA_ESI")]
      /\ UNCHANGED <<listos, cola, tomadas, termino, bloqueo, huboError, actual,
                     liberados, continua, caido, coordAPlan, deEsi, aCoord, varsEsi>>
      /\ pc' = "cierre"
  BY <1>1 DEF Despide, Enviado, HiloAlgoritmos, tablas, flags, canalesSinAEsi
<1>5. aEsi \in [ESIs -> Seq(MensajesAEsi)]
  BY DEF Tipos, TypeOK, CanalesTypeOK
<1>6. aEsi'[a] = <<"CONTINUA_ESI">>
  BY <1>3, <1>4, <1>5, Colas
<1>7. Cerrando(a)'
  BY <1>1, <1>3, <1>4, <1>6
  DEF Cerrando, Respondida, Conectada, Callada, varsEsi
<1>8. Conocida(a)' <=> Conocida(a)
  BY <1>4 DEF Conocida, EnAlgunaCola
<1>9. EnSuFase(a)' /\ EnTurno'
  BY <1>2, <1>4, <1>7, <1>8 DEF EnSuFase, EnTurno
<1>10. \A f \in ESIs \ {a} : MismoEsi(f)
  BY <1>4, <1>5 DEF MismoEsi, Conocida, EnAlgunaCola, varsEsi
<1>11. ~caido' /\ ~huboError'
  BY <1>4 DEF Fases, FaseDeCadaUno
<1>12. QED
  BY <1>1, <1>4, <1>9, <1>10, <1>11, FasesDelActual

(* The ESI that is preempted is ready again.                                 *)
LEMMA FasesDesaloja ==
  ASSUME Tipos, Fases, HiloAlgoritmos, Desaloja PROVE FaseDeCadaUno'
<1>1. EnTurno /\ ~EnTurno' /\ pc = "salida" /\ ~termino
  BY DEF Desaloja, FinDelActual, EnTurno
<1> PICK a \in ESIs : a = actual
  BY <1>1, UnTurno
<1>2. EnSuFase(a)
  BY <1>1, UnTurno
<1>3. /\ Respondida(a) /\ Sigue(a) /\ ~bloqueo /\ continua = 0 /\ coordAPlan = <<>>
      /\ a \notin liberados
  BY <1>1, <1>2 DEF EnSuFase, Respondida, Uno
<1>4. /\ listos' = listos \cup {a}
      /\ UNCHANGED <<cola, tomadas, termino, bloqueo, huboError,
                     liberados, continua, caido, canales, varsEsi>>
  BY DEF Desaloja, HiloAlgoritmos
<1>5. Fuera(a)'
  BY <1>3, <1>4
  DEF Fuera, Conocida, Sigue, Callada, Conectada, Puede, canales, varsEsi
<1>6. \A f \in ESIs \ {a} : MismoEsi(f)
  BY <1>4 DEF MismoEsi, Conocida, EnAlgunaCola, varsEsi, canales
<1>7. NadieEnTurno'
  BY <1>1, <1>3, <1>4 DEF NadieEnTurno, canales
<1>8. ~caido' /\ ~huboError'
  BY <1>4 DEF Fases, FaseDeCadaUno
<1>9. QED
  BY <1>1, <1>5, <1>6, <1>7, <1>8, FasesDelActual

(* The end of the ESI was read: its memory is freed.                         *)
LEMMA FasesCierra ==
  ASSUME Tipos, Fases, HiloAlgoritmos, Cierra PROVE FaseDeCadaUno'
<1>1. EnTurno /\ ~EnTurno' /\ pc = "cierre" /\ continua > 0
  BY DEF Cierra, EnTurno
<1> PICK a \in ESIs : a = actual
  BY <1>1, UnTurno
<1>2. EnSuFase(a)
  BY <1>1, UnTurno
<1>3. Ida(a) /\ ~bloqueo /\ continua = 1 /\ coordAPlan = <<>> /\ ~Conocida(a)
  BY <1>1, <1>2 DEF EnSuFase, Cerrando
<1>4. /\ liberados' = liberados \cup {a}
      /\ UNCHANGED <<listos, cola, tomadas, bloqueo, caido, canales, varsEsi>>
      /\ termino' = FALSE /\ continua' = continua - 1
      /\ huboError' = huboError \/ huboError' = FALSE
  BY DEF Cierra, HiloAlgoritmos, tablas
<1>5. Fuera(a)'
  BY <1>3, <1>4 DEF Fuera, Ida, Conocida, EnAlgunaCola, Callada, canales, varsEsi
<1>6. \A f \in ESIs \ {a} : MismoEsi(f)
  BY <1>4 DEF MismoEsi, Conocida, EnAlgunaCola, varsEsi, canales
<1>7. NadieEnTurno'
  BY <1>3, <1>4 DEF NadieEnTurno, canales
<1>8. ~caido' /\ ~huboError'
  BY <1>4 DEF Fases, FaseDeCadaUno
<1>9. QED
  BY <1>1, <1>5, <1>6, <1>7, <1>8, FasesDelActual

(* The steps of hiloAlgoritmos                                               *)
LEMMA FasesAlgoritmos ==
  ASSUME Tipos, NuncaEnDosLugares, Fases, pc = "elige" => listos # {}, HiloAlgoritmos
  PROVE  FaseDeCadaUno'
<1>1. PasoAlgoritmos
  BY DEF HiloAlgoritmos
<1>2. Elige => listos # {}
  BY DEF Elige
<1>3. QED
  BY <1>1, <1>2, FasesSinTurno, FasesElige, FasesPide, FasesEsperaOSale, FasesBloquea,
     FasesDespide, FasesDesaloja, FasesCierra DEF PasoAlgoritmos

-----------------------------------------------------------------------------
(* The scripts *)

(* What one more statement adds to, and takes from, the keys in hand.        *)
LEMMA UnaSentenciaMas ==
  ASSUME NEW g \in Seq(Sentencias), NEW p \in DOMAIN g
  PROVE  /\ \A k \in EnMano(g, p) :
              k \in EnMano(g, p - 1) \/ (g[p].op = "GET" /\ k = g[p].clave)
         /\ g[p].op = "STORE" => g[p].clave \notin EnMano(g, p)
<1>1. p \in Nat \ {0}
  BY LenProperties
<1>2. ASSUME NEW k \in EnMano(g, p)
      PROVE  /\ k \in EnMano(g, p - 1) \/ (g[p].op = "GET" /\ k = g[p].clave)
             /\ g[p].op = "STORE" => k # g[p].clave
  <2>1. PICK q \in 1..p :
          /\ g[q].op = "GET" /\ g[q].clave = k
          /\ \A r \in (q + 1)..p : g[r].op = "STORE" => g[r].clave # k
    BY <1>2 DEF EnMano
  <2>2. CASE q = p
    BY <2>1, <2>2
  <2>3. CASE q # p
    <3>1. /\ q \in 1..(p - 1) /\ p \in (q + 1)..p
          /\ \A r \in (q + 1)..(p - 1) : r \in (q + 1)..p
      BY <1>1, <2>3
    <3>2. k \in EnMano(g, p - 1)
      BY <1>2, <2>1, <3>1 DEF EnMano
    <3>3. QED
      BY <2>1, <3>1, <3>2
  <2>4. QED
    BY <2>2, <2>3
<1>3. QED
  BY <1>2

(* The statement the ESI is at is one of its script: it names a key, which   *)
(* the ESI holds if it is not a GET, and the last one is not a GET.          *)
LEMMA DeSuGuion ==
  ASSUME GuionesBien, Tipos, NEW e \in ESIs, NEW p, Puede(e, p)
  PROVE  /\ guion[e] \in Seq(Sentencias) /\ p \in DOMAIN guion[e]
         /\ p \in Nat \ {0} /\ Len(guion[e]) \in Nat
         /\ p # Len(guion[e]) => p + 1 \in DOMAIN guion[e]
         /\ p <= Len(guion[e])
         /\ guion[e][p].op \in Operaciones /\ guion[e][p].clave \in Claves
         /\ guion[e][p].op # "GET" => guion[e][p].clave \in tomadas[e]
         /\ p = Len(guion[e]) => guion[e][p].op # "GET"
<1>1. guion[e] \in Guiones
  BY DEF Tipos, TypeOK, EsiTypeOK
<1>2. guion[e] \in Seq(Sentencias) /\ GuionBien(guion[e])
  BY <1>1, GuionesAssumption DEF GuionesBien
<1> DEFINE g == guion[e]
<1>3. p \in DOMAIN g /\ EnMano(g, p - 1) \subseteq tomadas[e]
  BY DEF Puede
<1>4. Len(g) \in Nat /\ DOMAIN g = 1..Len(g) /\ g[p] \in Sentencias
  BY <1>2, <1>3, LenProperties, ElementOfSeq
<1>5. g[p].op \in Operaciones
  BY <1>2, <1>3 DEF GuionBien
<1>6. g[p].clave \in Claves
  BY <1>4, <1>5 DEF Sentencias, Operaciones
<1>7. g[p].op # "GET" => g[p].clave \in tomadas[e]
  BY <1>2, <1>3, <1>5 DEF GuionBien, Operaciones
<1>8. QED
  BY <1>2, <1>3, <1>4, <1>5, <1>6, <1>7 DEF GuionBien

(* After a statement that was accepted the ESI can go on.                    *)
LEMMA TrasLaSentencia ==
  ASSUME GuionesBien, Tipos, NEW e \in ESIs, EnCurso(e), NEW s, s = Sentencia(e),
         guion' = guion, ipActual' = ipActual,
         \A k \in tomadas[e] : k \in tomadas'[e] \/ (s.op = "STORE" /\ k = s.clave),
         s.op = "GET" => s.clave \in tomadas'[e]
  PROVE  ~Ultima(e) => Puede(e, ipActual[e])'
<1> DEFINE g == guion[e]
           p == ipAnterior[e]
<1>1. p \in DOMAIN g /\ EnMano(g, p - 1) \subseteq tomadas[e] /\ ipActual[e] = p + 1
  BY DEF EnCurso, Puede
<1>2. g \in Seq(Sentencias) /\ p \in Nat /\ (~Ultima(e) => p + 1 \in DOMAIN g)
  BY DeSuGuion DEF EnCurso, Ultima
<1>3. /\ \A k \in EnMano(g, p) :
           k \in EnMano(g, p - 1) \/ (s.op = "GET" /\ k = s.clave)
      /\ s.op = "STORE" => s.clave \notin EnMano(g, p)
  BY <1>1, <1>2, UnaSentenciaMas DEF Sentencia
<1>4. EnMano(g, p) \subseteq tomadas'[e]
  BY <1>1, <1>3
<1>5. ipActual[e] - 1 = p
  BY <1>1, <1>2
<1>6. QED
  BY <1>1, <1>2, <1>4, <1>5 DEF Puede

-----------------------------------------------------------------------------
(* hiloCoordinador *)

(* A packet of the coordinator is the statement of the ESI in its turn.      *)
LEMMA LlegaLaSentencia ==
  ASSUME GuionesBien, Tipos, Fases, coordAPlan # <<>>
  PROVE  /\ EnTurno /\ pc = "continua" /\ actual \in ESIs /\ NombresLeidos = {actual}
         /\ EnSuFase(actual) /\ EnviadaAlPlan(actual) /\ EnCurso(actual)
         /\ Head(coordAPlan) = Sentencia(actual) /\ Tail(coordAPlan) = <<>>
         /\ Sentencia(actual).op \in Operaciones /\ Sentencia(actual).clave \in Claves
         /\ Sentencia(actual).op # "GET" => Sentencia(actual).clave \in tomadas[actual]
         /\ Ultima(actual) => Sentencia(actual).op # "GET"
<1>1. EnTurno
  BY DEF Fases, FaseDeCadaUno, NadieEnTurno
<1>2. actual \in ESIs /\ NombresLeidos = {actual} /\ EnSuFase(actual)
  BY <1>1, UnTurno
<1>3. EnviadaAlPlan(actual) /\ pc = "continua"
  BY <1>2 DEF EnSuFase, Respondida, Pedida, EnviadaPorEsi, Cerrando
<1>4. EnCurso(actual) /\ coordAPlan = <<Sentencia(actual)>>
  BY <1>3 DEF EnviadaAlPlan
<1>5. Head(coordAPlan) = Sentencia(actual) /\ Tail(coordAPlan) = <<>>
  BY <1>4, Colas
<1>6. Puede(actual, ipAnterior[actual])
  BY <1>4 DEF EnCurso
<1>7. QED
  BY <1>1, <1>2, <1>3, <1>4, <1>5, <1>6, DeSuGuion DEF Sentencia, Ultima

(* The statement was answered and did not block its ESI.                     *)
LEMMA SentenciaHecha ==
  ASSUME GuionesBien, Tipos, Fases, HiloCoordinador, coordAPlan # <<>>,
         coordAPlan' = <<>>, continua' = continua + 1, NEW a \in ESIs, a = actual,
         UNCHANGED <<aEsi, deEsi, aCoord, termino, bloqueo, huboError, actual,
                     liberados, pc>>,
         ~caido',
         \A f \in ESIs : Conocida(f)' <=> Conocida(f),
         \A f \in ESIs \ {a} : tomadas'[f] = tomadas[f],
         ~Ultima(a) => Puede(a, ipActual[a])'
  PROVE  FaseDeCadaUno'
<1>1. /\ EnTurno /\ pc = "continua" /\ EnSuFase(a)
      /\ EnviadaAlPlan(a) /\ EnCurso(a)
  BY LlegaLaSentencia
<1>2. UNCHANGED varsEsi
  BY DEF HiloCoordinador
<1>3. Respondida(a)'
  BY <1>1, <1>2
  DEF EnviadaAlPlan, EnCurso, Respondida, Sigue, Conectada, Callada, Uno, Ultima,
      varsEsi
<1>4. EnTurno' /\ EnSuFase(a)'
  BY <1>1, <1>3 DEF EnTurno, EnSuFase
<1>5. \A f \in ESIs \ {a} : MismoEsi(f)
  BY <1>2 DEF MismoEsi, varsEsi
<1>6. ~huboError'
  BY DEF Fases, FaseDeCadaUno
<1>7. QED
  BY <1>1, <1>4, <1>5, <1>6, FasesDelActual

(* A GET: the key is free, is of the ESI, or the ESI will be blocked.        *)
LEMMA FasesRecibeGET ==
  ASSUME GuionesBien, Tipos, Fases, HiloCoordinador, RecibeGET PROVE FaseDeCadaUno'
<1>1. coordAPlan # <<>>
  BY DEF RecibeGET, LlegaOp
<1> PICK a \in ESIs : a = actual
  BY <1>1, LlegaLaSentencia
<1> DEFINE s == Sentencia(a)
           k == Head(coordAPlan).clave
<1>2. /\ NombresLeidos = {a} /\ EnviadaAlPlan(a) /\ EnCurso(a) /\ EnSuFase(a)
      /\ EnTurno /\ pc = "continua"
      /\ Head(coordAPlan) = s /\ Tail(coordAPlan) = <<>> /\ s.clave \in Claves
      /\ Ultima(a) => s.op # "GET"
  BY <1>1, LlegaLaSentencia
<1>3. s.op = "GET" /\ ~Ultima(a)
  BY <1>2 DEF RecibeGET, LlegaOp
<1>4. /\ coordAPlan' = <<>> /\ continua' = continua + 1
      /\ UNCHANGED <<aEsi, deEsi, aCoord, termino, huboError, actual,
                     liberados, pc, listos, cola, caido, varsEsi>>
  BY <1>2 DEF RecibeGET, HiloCoordinador
<1>5. \/ /\ k \in tomadas[a] /\ UNCHANGED <<tomadas, bloqueo>>
      \/ claveGET' = k /\ bloqueo' = TRUE /\ UNCHANGED tomadas
      \/ UNCHANGED bloqueo /\ tomadas' = [tomadas EXCEPT ![a] = @ \cup {k}]
  BY <1>2 DEF RecibeGET
<1>6. ~caido' /\ ~huboError'
  BY <1>4 DEF Fases, FaseDeCadaUno
<1>7. tomadas \in [Nombres -> SUBSET Claves] /\ a \in Nombres
  BY DEF Tipos, TypeOK, PlanTypeOK, Nombres
<1>8. \A f \in ESIs : Conocida(f)' <=> Conocida(f)
  BY <1>4 DEF Conocida, EnAlgunaCola
<1>9. CASE claveGET' = k /\ bloqueo' = TRUE /\ UNCHANGED tomadas
  <2>1. Respondida(a)'
    BY <1>2, <1>3, <1>4, <1>9
    DEF EnviadaAlPlan, EnCurso, Respondida, Conectada, Callada, Puede, Uno, varsEsi
  <2>2. EnTurno' /\ EnSuFase(a)'
    BY <1>2, <1>4, <1>8, <2>1 DEF EnTurno, EnSuFase
  <2>3. \A f \in ESIs \ {a} : MismoEsi(f)
    BY <1>4, <1>8, <1>9 DEF MismoEsi, varsEsi
  <2>4. QED
    BY <1>2, <1>4, <1>6, <2>2, <2>3, FasesDelActual
<1>10. CASE UNCHANGED bloqueo /\ (\/ k \in tomadas[a] /\ UNCHANGED tomadas
                                  \/ tomadas' = [tomadas EXCEPT ![a] = @ \cup {k}])
  <2>1. /\ tomadas[a] \subseteq tomadas'[a] /\ k \in tomadas'[a]
        /\ \A f \in ESIs \ {a} : tomadas'[f] = tomadas[f]
    BY <1>7, <1>10 DEF Nombres
  <2>2. Puede(a, ipActual[a])'
    BY <1>2, <1>3, <1>4, <2>1, TrasLaSentencia DEF varsEsi
  <2>3. QED
    BY <1>1, <1>4, <1>6, <1>8, <1>10, <2>1, <2>2, SentenciaHecha
<1>11. QED
  BY <1>5, <1>9, <1>10

(* A SET is always of the holder of the key.                                 *)
LEMMA FasesRecibeSET ==
  ASSUME GuionesBien, Tipos, Fases, HiloCoordinador, RecibeSET PROVE FaseDeCadaUno'
<1>1. coordAPlan # <<>>
  BY DEF RecibeSET, LlegaOp
<1> PICK a \in ESIs : a = actual
  BY <1>1, LlegaLaSentencia
<1> DEFINE s == Sentencia(a)
<1>2. /\ NombresLeidos = {a} /\ EnCurso(a)
      /\ Head(coordAPlan) = s /\ Tail(coordAPlan) = <<>> /\ s.clave \in Claves
      /\ s.op # "GET" => s.clave \in tomadas[a]
  BY <1>1, LlegaLaSentencia
<1>3. s.op = "SET" /\ TieneClave(Head(coordAPlan).clave, a)
  BY <1>2 DEF RecibeSET, LlegaOp, TieneClave
<1>4. /\ coordAPlan' = <<>> /\ continua' = continua + 1
      /\ UNCHANGED <<aEsi, deEsi, aCoord, termino, bloqueo, huboError, actual,
                     liberados, pc, listos, cola, caido, tomadas, varsEsi>>
  BY <1>2, <1>3 DEF RecibeSET, HiloCoordinador
<1>5. Puede(a, ipActual[a])' \/ Ultima(a)
  BY <1>2, <1>3, <1>4, TrasLaSentencia DEF varsEsi
<1>6. \A f \in ESIs : Conocida(f)' <=> Conocida(f)
  BY <1>4 DEF Conocida, EnAlgunaCola
<1>7. ~caido'
  BY <1>4 DEF Fases, FaseDeCadaUno
<1>8. QED
  BY <1>1, <1>4, <1>5, <1>6, <1>7, SentenciaHecha

(* A STORE too; the first ESI that waits for the key becomes ready.          *)
LEMMA FasesRecibeSTORE ==
  ASSUME GuionesBien, Tipos, DesbloqueoSeguro, Fases, HiloCoordinador, RecibeSTORE
  PROVE  FaseDeCadaUno'
<1>1. coordAPlan # <<>>
  BY DEF RecibeSTORE, LlegaOp
<1> PICK a \in ESIs : a = actual
  BY <1>1, LlegaLaSentencia
<1> DEFINE s == Sentencia(a)
<1>2. /\ NombresLeidos = {a} /\ EnCurso(a)
      /\ Head(coordAPlan) = s /\ Tail(coordAPlan) = <<>> /\ s.clave \in Claves
      /\ s.op # "GET" => s.clave \in tomadas[a]
  BY <1>1, LlegaLaSentencia
<1> DEFINE k == Head(coordAPlan).clave
<1>3. s.op = "STORE" /\ TieneClave(k, a) /\ k = s.clave /\ k \in Claves
  BY <1>2 DEF RecibeSTORE, LlegaOp, TieneClave
<1>4. a \in Nombres /\ tomadas \in [Nombres -> SUBSET Claves] /\ cola \in [Claves -> Seq(ESIs)]
  BY DEF Tipos, TypeOK, PlanTypeOK, Nombres
<1>5. ~(k \in enBloq /\ cola[k] = <<>>)
  BY <1>3, <1>4 DEF DesbloqueoSeguro, TomadaConLista, TieneClave
<1>6. /\ coordAPlan' = <<>> /\ continua' = continua + 1
      /\ UNCHANGED <<aEsi, deEsi, aCoord, termino, bloqueo, huboError, actual,
                     liberados, pc, varsEsi>>
      /\ tomadas' = [tomadas EXCEPT ![a] = @ \ {k}]
      /\ (DesbloqueaESI(k) /\ cola[k] # <<>>) \/ UNCHANGED <<listos, cola>>
      /\ ~caido'
  BY <1>2, <1>3, <1>5 DEF RecibeSTORE, HiloCoordinador, ClaveLiberada
<1>7. /\ \A f \in ESIs \ {a} : tomadas'[f] = tomadas[f]
      /\ tomadas'[a] = tomadas[a] \ {k}
  BY <1>4, <1>6 DEF Nombres
<1>8. Puede(a, ipActual[a])' \/ Ultima(a)
  BY <1>2, <1>3, <1>6, <1>7, TrasLaSentencia DEF varsEsi
<1>9. \A f \in ESIs : Conocida(f)' <=> Conocida(f)
  <2>1. CASE UNCHANGED <<listos, cola>>
    BY <2>1 DEF Conocida, EnAlgunaCola
  <2>2. CASE DesbloqueaESI(k) /\ cola[k] # <<>>
    <3>1. Range(cola[k]) = {Head(cola[k])} \cup Range(Tail(cola[k]))
      <4> DEFINE c == cola[k]
                 b == Tail(c)
      <4>1. /\ 1 \in DOMAIN c /\ c[1] = Head(c)
            /\ \A p \in DOMAIN b : p + 1 \in DOMAIN c /\ b[p] = c[p + 1]
            /\ \A p \in DOMAIN c : p = 1 \/ \E q \in DOMAIN b : p = q + 1 /\ c[p] = b[q]
        BY <1>3, <1>4, <2>2, SinElPrimero
      <4> HIDE DEF b, c
      <4>2. Range(c) = {Head(c)} \cup Range(b)
        BY <4>1 DEF Range
      <4>3. QED
        BY <4>2 DEF b, c
    <3>2. /\ listos' = listos \cup {Head(cola[k])}
          /\ \A l \in Claves : cola'[l] = IF l = k THEN Tail(cola[k]) ELSE cola[l]
      BY <1>3, <1>4, <2>2 DEF DesbloqueaESI
    <3>3. \A f : EnAlgunaCola(f) <=> EnAlgunaCola(f)' \/ f = Head(cola[k])
      BY <1>3, <3>1, <3>2 DEF EnAlgunaCola
    <3>4. QED
      BY <3>2, <3>3 DEF Conocida
  <2>3. QED
    BY <1>6, <2>1, <2>2
<1>10. QED
  BY <1>1, <1>6, <1>7, <1>8, <1>9, SentenciaHecha

(* The steps of hiloCoordinador                                              *)
LEMMA FasesCoordinador ==
  ASSUME GuionesBien, Tipos, DesbloqueoSeguro, Fases, HiloCoordinador PROVE FaseDeCadaUno'
<1>1. PasoCoordinador
  BY DEF HiloCoordinador
<1>2. ~RecibeError
  <2>1. coordAPlan # <<>> => Head(coordAPlan).op \in Operaciones
    BY LlegaLaSentencia
  <2>2. QED
    BY <2>1 DEF RecibeError, LlegaOp, Operaciones
<1>3. QED
  BY <1>1, <1>2, FasesRecibeGET, FasesRecibeSET, FasesRecibeSTORE DEF PasoCoordinador

-----------------------------------------------------------------------------
(* hiloServidor *)

(* Nothing is in hand before the first statement.                            *)
LEMMA PuedeEmpezar ==
  ASSUME Tipos, NEW e \in ESIs PROVE Puede(e, 1)
<1>1. guion[e] \in Seq(Sentencias) /\ guion[e] # <<>>
  BY GuionesAssumption DEF Tipos, TypeOK, EsiTypeOK
<1>2. 1 \in DOMAIN guion[e]
  BY <1>1, SinElPrimero
<1>3. EnMano(guion[e], 1 - 1) = {}
  BY DEF EnMano
<1>4. QED
  BY <1>2, <1>3 DEF Puede

(* What may be on the way from an ESI to the planner.                        *)
LEMMA LoQueLlegaDeUno ==
  ASSUME Tipos, Fases, NEW e \in ESIs, deEsi[e] # <<>>
  PROVE  \/ /\ ~(e = actual /\ EnTurno) /\ Anunciada(e)
            /\ e \notin liberados /\ ~Conocida(e)
            /\ Head(deEsi[e]) = "ENVIAR_NOMBRE_ESI" /\ Tail(deEsi[e]) = <<>>
         \/ /\ e = actual /\ EnTurno /\ EnSuFase(e) /\ EnviadaPorEsi(e)
            /\ Ultima(e) /\ pc = "continua"
            /\ Head(deEsi[e]) = "TERMINO_ESI" /\ Tail(deEsi[e]) = <<>>
         \/ /\ e = actual /\ EnTurno /\ EnSuFase(e) /\ Cerrando(e)
            /\ vida[e] = "terminada" /\ continua = 0 /\ pc = "cierre"
            /\ Head(deEsi[e]) = "ENVIAR_ERROR" /\ Tail(deEsi[e]) = <<>>
<1>1. CASE e = actual /\ EnTurno
  <2>1. EnSuFase(e)
    BY <1>1 DEF Fases, FaseDeCadaUno
  <2>2. \/ /\ EnviadaPorEsi(e) /\ Ultima(e) /\ deEsi[e] = <<"TERMINO_ESI">>
           /\ pc = "continua"
        \/ /\ Cerrando(e) /\ vida[e] = "terminada" /\ continua = 0
           /\ deEsi[e] = <<"ENVIAR_ERROR">> /\ pc = "cierre"
    BY <2>1
    DEF EnSuFase, Respondida, Pedida, EnviadaPorEsi, EnviadaAlPlan, Cerrando,
        Callada, Ida, Sigue
  <2>3. QED
    BY <1>1, <2>1, <2>2, Colas
<1>2. CASE ~(e = actual /\ EnTurno)
  <2>1. Fuera(e)
    BY <1>2 DEF Fases, FaseDeCadaUno
  <2>2. Anunciada(e) /\ e \notin liberados /\ ~Conocida(e)
    BY <2>1 DEF Fuera, Nueva, Sigue, Ida, Callada
  <2>3. QED
    BY <1>2, <2>2, Colas DEF Anunciada
<1>3. QED
  BY <1>1, <1>2

(* The planner reads the name of an ESI, which is ready.                     *)
LEMMA FasesRecibeNombre ==
  ASSUME Tipos, Fases, NEW e \in ESIs, HiloServidor(e), RecibeNombre(e) PROVE FaseDeCadaUno'
<1>1. /\ ~(e = actual /\ EnTurno) /\ Anunciada(e) /\ e \notin liberados
      /\ Tail(deEsi[e]) = <<>>
  BY LoQueLlegaDeUno DEF RecibeNombre, Llega
<1>2. /\ deEsi' = [deEsi EXCEPT ![e] = Tail(@)] /\ listos' = listos \cup {e}
      /\ UNCHANGED <<cola, tomadas, termino, bloqueo, huboError, claveGET, actual,
                     liberados, continua, pc, caido, aEsi, aCoord, coordAPlan,
                     varsEsi, sistema>>
  BY DEF RecibeNombre, Recibido, HiloServidor, varsCoord
<1>3. deEsi \in [ESIs -> Seq(MensajesDeEsi)]
  BY DEF Tipos, TypeOK, CanalesTypeOK
<1>4. deEsi'[e] = <<>> /\ \A f \in ESIs \ {e} : deEsi'[f] = deEsi[f]
  BY <1>1, <1>2, <1>3
<1>5. Puede(e, 1)' /\ ipActual'[e] = 1
  BY <1>1, <1>2, PuedeEmpezar DEF Puede, Anunciada, varsEsi
<1>6. Sigue(e)'
  BY <1>1, <1>2, <1>4, <1>5 DEF Sigue, Anunciada, Conectada, Callada, varsEsi
<1>7. Fuera(e)'
  BY <1>1, <1>2, <1>6 DEF Fuera, Conocida
<1>8. \A f \in ESIs \ {e} : MismoEsi(f)
  BY <1>2, <1>4 DEF MismoEsi, Conocida, EnAlgunaCola, varsEsi
<1>9. MismoTurno
  BY <1>2 DEF MismoTurno
<1>10. QED
  BY <1>1, <1>2, <1>7, <1>8, <1>9, FasesDeUno

(* TERMINO_ESI is read before the coordinator takes the last statement.      *)
LEMMA FasesRecibeTermino ==
  ASSUME Tipos, Fases, NEW e \in ESIs, HiloServidor(e), RecibeTermino(e) PROVE FaseDeCadaUno'
<1>1. /\ e = actual /\ EnTurno /\ EnSuFase(e) /\ EnviadaPorEsi(e) /\ Ultima(e)
      /\ pc = "continua" /\ Tail(deEsi[e]) = <<>>
  BY LoQueLlegaDeUno DEF RecibeTermino, Llega
<1>2. /\ deEsi' = [deEsi EXCEPT ![e] = Tail(@)] /\ termino' = TRUE
      /\ UNCHANGED <<listos, cola, tomadas, bloqueo, huboError, actual,
                     liberados, continua, pc, caido, aEsi, aCoord, coordAPlan,
                     varsEsi>>
  BY DEF RecibeTermino, Recibido, HiloServidor, tablas
<1>3. deEsi \in [ESIs -> Seq(MensajesDeEsi)]
  BY DEF Tipos, TypeOK, CanalesTypeOK
<1>4. deEsi'[e] = <<>> /\ \A f \in ESIs \ {e} : deEsi'[f] = deEsi[f]
  BY <1>1, <1>2, <1>3
<1>5. EnCurso(e)'
  BY <1>1, <1>2 DEF EnviadaPorEsi, EnCurso, Conectada, Puede, varsEsi
<1>6. EnviadaPorEsi(e)'
  BY <1>1, <1>2, <1>4, <1>5 DEF EnviadaPorEsi, Ultima, Sentencia, varsEsi
<1>7. EnTurno' /\ EnSuFase(e)'
  BY <1>1, <1>2, <1>6 DEF EnTurno, EnSuFase, Conocida, EnAlgunaCola
<1>8. \A f \in ESIs \ {e} : MismoEsi(f)
  BY <1>2, <1>4 DEF MismoEsi, Conocida, EnAlgunaCola, varsEsi
<1>9. ~caido' /\ ~huboError'
  BY <1>2 DEF Fases, FaseDeCadaUno
<1>10. QED
  BY <1>1, <1>2, <1>7, <1>8, <1>9, FasesDelActual

(* The end of a socket is that of the ESI that was told to end.              *)
LEMMA FasesDesconecta ==
  ASSUME Tipos, Fases, NEW e \in ESIs, HiloServidor(e), DesconectaESI(e)
  PROVE  FaseDeCadaUno'
<1>1. /\ e = actual /\ EnTurno /\ EnSuFase(e) /\ Cerrando(e)
      /\ vida[e] = "terminada" /\ continua = 0 /\ pc = "cierre"
      /\ Tail(deEsi[e]) = <<>>
  BY LoQueLlegaDeUno DEF DesconectaESI, Llega
<1>2. NombresLeidos = {e} /\ FinDelActual
  BY <1>1, UnTurno DEF Cerrando, FinDelActual
<1>3. /\ deEsi' = [deEsi EXCEPT ![e] = Tail(@)]
      /\ tomadas' = [tomadas EXCEPT ![e] = {}] /\ continua' = continua + 1
      /\ UNCHANGED <<listos, cola, termino, bloqueo, huboError, actual,
                     liberados, pc, caido, aEsi, aCoord, coordAPlan, varsEsi>>
  BY <1>2 DEF DesconectaESI, Recibido, HiloServidor, flags, SinClaves
<1>4. /\ deEsi \in [ESIs -> Seq(MensajesDeEsi)]
      /\ tomadas \in [Nombres -> SUBSET Claves]
  BY DEF Tipos, TypeOK, CanalesTypeOK, PlanTypeOK
<1>5. /\ deEsi'[e] = <<>> /\ \A f \in ESIs \ {e} : deEsi'[f] = deEsi[f]
      /\ tomadas'[e] = {} /\ \A f \in ESIs \ {e} : tomadas'[f] = tomadas[f]
  BY <1>1, <1>3, <1>4 DEF Nombres
<1>6. Cerrando(e)'
  BY <1>1, <1>3, <1>5 DEF Cerrando, Ida, Callada, Conectada, varsEsi
<1>7. EnTurno' /\ EnSuFase(e)'
  BY <1>1, <1>3, <1>6 DEF EnTurno, EnSuFase, Conocida, EnAlgunaCola
<1>8. \A f \in ESIs \ {e} : MismoEsi(f)
  BY <1>3, <1>5 DEF MismoEsi, Conocida, EnAlgunaCola, varsEsi
<1>9. ~caido' /\ ~huboError'
  BY <1>3 DEF Fases, FaseDeCadaUno
<1>10. QED
  BY <1>1, <1>3, <1>7, <1>8, <1>9, FasesDelActual

-----------------------------------------------------------------------------
(* The ESIs *)

(* What may be on the way from the planner to an ESI.                        *)
LEMMA LoQueLeLlegaAUno ==
  ASSUME Tipos, Fases, NEW e \in ESIs, aEsi[e] # <<>>
  PROVE  \/ /\ Sigue(e) /\ Head(aEsi[e]) = "ENVIAR_BLOQUEO_ESI"
            /\ Tail(aEsi[e]) = <<>> /\ Puede(e, ipAnterior[e])
            /\ e = actual /\ EnTurno => EnSuFase(e) /\ Respondida(e) /\ ~bloqueo /\ ~termino
            /\ ~(e = actual /\ EnTurno) => Conocida(e) /\ e \notin liberados
         \/ /\ e = actual /\ EnTurno /\ EnSuFase(e) /\ Pedida(e) /\ pc = "continua"
            /\ \/ /\ Head(aEsi[e]) = "SOLICITUD_EJECUCION" /\ Tail(aEsi[e]) = <<>>
                  /\ Puede(e, ipActual[e])
               \/ /\ Head(aEsi[e]) = "ENVIAR_BLOQUEO_ESI"
                  /\ Tail(aEsi[e]) = <<"SOLICITUD_EJECUCION">>
                  /\ Puede(e, ipAnterior[e])
         \/ /\ e = actual /\ EnTurno /\ EnSuFase(e) /\ Cerrando(e) /\ pc = "cierre"
            /\ Head(aEsi[e]) = "CONTINUA_ESI" /\ Tail(aEsi[e]) = <<>>
            /\ deEsi[e] = <<>> /\ continua = 0
<1>1. CASE e = actual /\ EnTurno
  <2>1. EnSuFase(e)
    BY <1>1 DEF Fases, FaseDeCadaUno
  <2>2. CASE Respondida(e)
    <3>1. Sigue(e) /\ ~bloqueo /\ ~termino
      BY <2>2 DEF Respondida
    <3>2. aEsi[e] = <<"ENVIAR_BLOQUEO_ESI">> /\ Puede(e, ipAnterior[e])
      BY <3>1 DEF Sigue
    <3>3. QED
      BY <1>1, <2>1, <2>2, <3>1, <3>2, Colas
  <2>3. CASE Pedida(e) /\ pc = "continua"
    <3>1. \/ aEsi[e] = <<"SOLICITUD_EJECUCION">> /\ Puede(e, ipActual[e])
          \/ /\ aEsi[e] = <<"ENVIAR_BLOQUEO_ESI", "SOLICITUD_EJECUCION">>
             /\ Puede(e, ipAnterior[e])
      BY <2>3 DEF Pedida
    <3>2. \/ /\ Head(aEsi[e]) = "SOLICITUD_EJECUCION" /\ Tail(aEsi[e]) = <<>>
             /\ Puede(e, ipActual[e])
          \/ /\ Head(aEsi[e]) = "ENVIAR_BLOQUEO_ESI"
             /\ Tail(aEsi[e]) = <<"SOLICITUD_EJECUCION">>
             /\ Puede(e, ipAnterior[e])
      <4> DEFINE dos == <<"ENVIAR_BLOQUEO_ESI", "SOLICITUD_EJECUCION">>
                 una == <<"SOLICITUD_EJECUCION">>
      <4>1. Head(dos) = "ENVIAR_BLOQUEO_ESI" /\ Tail(dos) = una
        BY Colas
      <4>2. Head(una) = "SOLICITUD_EJECUCION" /\ Tail(una) = <<>>
        BY Colas
      <4> HIDE DEF dos, una
      <4>3. \/ aEsi[e] = una /\ Puede(e, ipActual[e])
            \/ aEsi[e] = dos /\ Puede(e, ipAnterior[e])
        BY <3>1 DEF dos, una
      <4>4. QED
        BY <4>1, <4>2, <4>3 DEF una
    <3>3. QED
      BY <1>1, <2>1, <2>3, <3>2
  <2>4. CASE Cerrando(e) /\ pc = "cierre"
    <3>1. aEsi[e] = <<"CONTINUA_ESI">> /\ deEsi[e] = <<>> /\ continua = 0
      BY <2>4 DEF Cerrando, Ida
    <3>2. QED
      BY <1>1, <2>1, <2>4, <3>1, Colas
  <2>5. QED
    BY <2>1, <2>2, <2>3, <2>4 DEF EnSuFase, EnviadaPorEsi, EnviadaAlPlan, EnCurso
<1>2. CASE ~(e = actual /\ EnTurno)
  <2>1. Fuera(e)
    BY <1>2 DEF Fases, FaseDeCadaUno
  <2>2. Sigue(e) /\ e \notin liberados /\ Conocida(e)
    BY <2>1 DEF Fuera, Nueva, Anunciada, Ida
  <2>3. aEsi[e] = <<"ENVIAR_BLOQUEO_ESI">> /\ Puede(e, ipAnterior[e])
    BY <2>2 DEF Sigue
  <2>4. QED
    BY <1>2, <2>2, <2>3, Colas
<1>3. QED
  BY <1>1, <1>2

(* An ESI connects and sends its name.                                       *)
LEMMA FasesConectar ==
  ASSUME Tipos, Fases, NEW e \in ESIs, ProcesoEsi(e), ConectarEsi(e) PROVE FaseDeCadaUno'
<1>1. ~(e = actual /\ EnTurno) /\ Fuera(e)
  BY DEF ConectarEsi, Fases, FaseDeCadaUno, EnSuFase, Respondida, Pedida,
         EnviadaPorEsi, EnviadaAlPlan,
         EnCurso, Conectada, Cerrando, Ida
<1>2. Nueva(e) /\ e \notin liberados /\ ~Conocida(e)
  BY <1>1 DEF ConectarEsi, Fuera, Anunciada, Sigue, Ida, Conectada
<1>3. /\ vida' = [vida EXCEPT ![e] = "conectada"]
      /\ deEsi' = [deEsi EXCEPT ![e] = Append(@, "ENVIAR_NOMBRE_ESI")]
      /\ UNCHANGED <<guion, ipActual, ipAnterior, aEsi, aCoord, coordAPlan,
                     varsPlan, sistema>>
  BY DEF ConectarEsi, Enviado, conexionesAjenas, ProcesoEsi, varsCoord
<1>4. /\ deEsi \in [ESIs -> Seq(MensajesDeEsi)]
      /\ vida \in [ESIs -> {"nueva", "conectada", "terminada"}]
  BY DEF Tipos, TypeOK, CanalesTypeOK, EsiTypeOK
<1>5. deEsi'[e] = <<"ENVIAR_NOMBRE_ESI">> /\ vida'[e] = "conectada"
  BY <1>2, <1>3, <1>4, Colas DEF Nueva, Callada
<1>6. \A f \in ESIs \ {e} : deEsi'[f] = deEsi[f] /\ vida'[f] = vida[f]
  BY <1>3, <1>4
<1>7. UNCHANGED <<listos, cola, tomadas, liberados>> /\ MismoTurno
      /\ UNCHANGED <<caido, huboError>>
  BY <1>3 DEF varsPlan, tablas, flags, MismoTurno
<1>8. Fuera(e)'
  BY <1>2, <1>3, <1>5, <1>7
  DEF Fuera, Nueva, Anunciada, Callada, Conectada, Conocida, EnAlgunaCola
<1>9. \A f \in ESIs \ {e} : MismoEsi(f)
  BY <1>3, <1>6, <1>7 DEF MismoEsi, Conocida, EnAlgunaCola
<1>10. QED
  BY <1>1, <1>7, <1>8, <1>9, FasesDeUno

(* The ESI that is asked for a statement sends the next one, after           *)
(* TERMINO_ESI if it is the last.                                            *)
LEMMA FasesSolicitud ==
  ASSUME GuionesBien, Tipos, Fases, NEW e \in ESIs, ProcesoEsi(e),
         ProcesarSolicitudEjecucion(e)
  PROVE  FaseDeCadaUno'
<1>1. aEsi[e] # <<>> /\ Head(aEsi[e]) = "SOLICITUD_EJECUCION"
  BY DEF ProcesarSolicitudEjecucion, Llega
<1>2. /\ e = actual /\ EnTurno /\ EnSuFase(e) /\ Pedida(e) /\ pc = "continua"
      /\ Tail(aEsi[e]) = <<>> /\ Puede(e, ipActual[e])
  BY <1>1, LoQueLeLlegaAUno
<1> DEFINE p == ipActual[e]
           s == guion[e][p]
           avisos == IF EsUltima(e) THEN <<"TERMINO_ESI">> ELSE <<>>
<1>3. /\ p <= Len(guion[e]) /\ s.op \in Operaciones /\ p \in Nat /\ Len(guion[e]) \in Nat
      /\ EsUltima(e) <=> p = Len(guion[e])
  BY <1>2, DeSuGuion DEF EsUltima
<1>4. s.op # "LARGA" /\ s.op # "MALA"
  BY <1>3 DEF Operaciones
<1>5. /\ aEsi' = [aEsi EXCEPT ![e] = Tail(@)]
      /\ ipAnterior' = [ipAnterior EXCEPT ![e] = p]
      /\ ipActual' = [ipActual EXCEPT ![e] = @ + 1]
      /\ deEsi' = [deEsi EXCEPT ![e] = @ \o avisos]
      /\ aCoord' = [aCoord EXCEPT ![e] = Append(@, s)]
      /\ UNCHANGED <<guion, vida, coordAPlan, varsPlan, sistema>>
  BY <1>3, <1>4
  DEF ProcesarSolicitudEjecucion, Recibido, Enviado, conexionesAjenas, ProcesoEsi,
      varsCoord
<1>6. /\ aEsi \in [ESIs -> Seq(MensajesAEsi)] /\ deEsi \in [ESIs -> Seq(MensajesDeEsi)]
      /\ aCoord \in [ESIs -> Seq(MensajesACoord)]
      /\ ipActual \in [ESIs -> Nat \ {0}] /\ ipAnterior \in [ESIs -> Nat \ {0}]
  BY DEF Tipos, TypeOK, CanalesTypeOK, EsiTypeOK
<1>7. aCoord[e] = <<>> /\ deEsi[e] = <<>> /\ coordAPlan = <<>> /\ Conectada(e)
      /\ ~termino /\ ~bloqueo /\ continua = 0
  BY <1>2 DEF Pedida, Callada
<1>8. /\ aEsi'[e] = <<>> /\ ipAnterior'[e] = p /\ ipActual'[e] = p + 1
      /\ aCoord'[e] = <<s>>
  BY <1>2, <1>5, <1>6, <1>7, Colas
<1>9. deEsi'[e] = avisos
  BY <1>5, <1>6, <1>7
<1>10. /\ EsUltima(e) => deEsi'[e] = <<"TERMINO_ESI">>
       /\ ~EsUltima(e) => deEsi'[e] = <<>>
  BY <1>9
<1>11. \A f \in ESIs \ {e} :
         /\ aEsi'[f] = aEsi[f] /\ ipAnterior'[f] = ipAnterior[f]
         /\ ipActual'[f] = ipActual[f] /\ aCoord'[f] = aCoord[f]
         /\ deEsi'[f] = deEsi[f]
  BY <1>5, <1>6
<1>12. UNCHANGED <<listos, cola, tomadas, liberados, termino, bloqueo, continua,
                   pc, actual, caido, huboError>>
  BY <1>5 DEF varsPlan, tablas, flags
<1>13. EnCurso(e)'
  BY <1>2, <1>5, <1>7, <1>8, <1>12 DEF EnCurso, Conectada, Puede
<1>14. Sentencia(e)' = s /\ (Ultima(e)' <=> EsUltima(e))
  BY <1>3, <1>5, <1>8 DEF Sentencia, Ultima
<1>15. EnviadaPorEsi(e)'
  BY <1>5, <1>7, <1>8, <1>10, <1>12, <1>13, <1>14 DEF EnviadaPorEsi
<1>16. EnTurno' /\ EnSuFase(e)'
  BY <1>2, <1>12, <1>15 DEF EnTurno, EnSuFase, Conocida, EnAlgunaCola
<1>17. \A f \in ESIs \ {e} : MismoEsi(f)
  BY <1>5, <1>11, <1>12 DEF MismoEsi, Conocida, EnAlgunaCola
<1>18. ~caido' /\ ~huboError'
  BY <1>12 DEF Fases, FaseDeCadaUno
<1>19. QED
  BY <1>2, <1>12, <1>16, <1>17, <1>18, FasesDelActual

(* The ESI that was blocked will repeat its statement.                       *)
LEMMA FasesAnterior ==
  ASSUME Tipos, Fases, NEW e \in ESIs, ProcesoEsi(e), ProcesarSolicitudAnterior(e)
  PROVE  FaseDeCadaUno'
<1>1. aEsi[e] # <<>> /\ Head(aEsi[e]) = "ENVIAR_BLOQUEO_ESI"
  BY DEF ProcesarSolicitudAnterior, Llega
<1>2. /\ aEsi' = [aEsi EXCEPT ![e] = Tail(@)]
      /\ ipActual' = [ipActual EXCEPT ![e] = ipAnterior[e]]
      /\ UNCHANGED <<guion, ipAnterior, vida, deEsi, aCoord, coordAPlan,
                     varsPlan, sistema>>
  BY DEF ProcesarSolicitudAnterior, Recibido, conexionesAjenas, ProcesoEsi, varsCoord
<1>3. /\ aEsi \in [ESIs -> Seq(MensajesAEsi)]
      /\ ipActual \in [ESIs -> Nat \ {0}]
  BY DEF Tipos, TypeOK, CanalesTypeOK, EsiTypeOK
<1>4. /\ aEsi'[e] = Tail(aEsi[e]) /\ ipActual'[e] = ipAnterior[e]
      /\ \A f \in ESIs \ {e} : aEsi'[f] = aEsi[f] /\ ipActual'[f] = ipActual[f]
  BY <1>2, <1>3
<1>5. /\ UNCHANGED <<listos, cola, tomadas, liberados, termino, bloqueo, continua,
                     pc, actual, caido, huboError, claveGET>>
      /\ MismoTurno
  BY <1>2 DEF varsPlan, tablas, flags, MismoTurno
<1>6. \A f \in ESIs \ {e} : MismoEsi(f)
  BY <1>2, <1>4, <1>5 DEF MismoEsi, Conocida, EnAlgunaCola
<1>7. (EnTurno' <=> EnTurno) /\ (Conocida(e)' <=> Conocida(e))
  BY <1>5 DEF EnTurno, Conocida, EnAlgunaCola
<1>8. CASE Sigue(e) /\ Tail(aEsi[e]) = <<>> /\ Puede(e, ipAnterior[e])
  <2>1. Sigue(e)'
    BY <1>2, <1>4, <1>5, <1>8 DEF Sigue, Conectada, Callada, Puede
  <2>2. CASE e = actual /\ EnTurno /\ EnSuFase(e) /\ Respondida(e) /\ ~bloqueo /\ ~termino
    <3>1. Respondida(e)'
      BY <1>2, <1>5, <2>1, <2>2 DEF Respondida, Conectada, Callada, Uno
    <3>2. pc # "cierre"
      BY <2>2 DEF EnSuFase, Cerrando
    <3>3. EnSuFase(e)'
      BY <1>5, <1>7, <2>2, <3>1, <3>2 DEF EnSuFase
    <3>4. QED
      BY <1>5, <1>6, <2>2, <3>3, FasesDeUno
  <2>3. CASE ~(e = actual /\ EnTurno) /\ Conocida(e) /\ e \notin liberados
    <3>1. Fuera(e)'
      BY <1>5, <1>7, <2>1, <2>3 DEF Fuera
    <3>2. QED
      BY <1>5, <1>6, <2>3, <3>1, FasesDeUno
  <2>4. Tail(aEsi[e]) # <<"SOLICITUD_EJECUCION">>
    BY <1>8, Colas
  <2>5. QED
    BY <1>1, <2>2, <2>3, <2>4, LoQueLeLlegaAUno
<1>9. CASE /\ e = actual /\ EnTurno /\ EnSuFase(e) /\ Pedida(e) /\ pc = "continua"
           /\ Tail(aEsi[e]) = <<"SOLICITUD_EJECUCION">> /\ Puede(e, ipAnterior[e])
  <2>1. Pedida(e)'
    BY <1>2, <1>4, <1>5, <1>9 DEF Pedida, Conectada, Callada, Puede
  <2>2. EnSuFase(e)'
    BY <1>5, <1>7, <1>9, <2>1 DEF EnSuFase
  <2>3. QED
    BY <1>5, <1>6, <1>9, <2>2, FasesDeUno
<1>10. QED
  BY <1>1, <1>8, <1>9, LoQueLeLlegaAUno

(* The ESI that was told to end ends.                                        *)
LEMMA FasesRespuestaSolicitud ==
  ASSUME Tipos, Fases, NEW e \in ESIs, ProcesoEsi(e), ProcesarRespuestaSolicitud(e)
  PROVE  FaseDeCadaUno'
<1>1. aEsi[e] # <<>> /\ Head(aEsi[e]) \in {"CONTINUA_ESI", "ABORTO_ESI"}
  BY DEF ProcesarRespuestaSolicitud, Llega
<1>2. /\ e = actual /\ EnTurno /\ EnSuFase(e) /\ Cerrando(e) /\ pc = "cierre"
      /\ Tail(aEsi[e]) = <<>> /\ deEsi[e] = <<>> /\ continua = 0
  BY <1>1, LoQueLeLlegaAUno
<1>3. /\ aEsi' = [aEsi EXCEPT ![e] = Tail(@)]
      /\ vida' = [vida EXCEPT ![e] = "terminada"]
      /\ deEsi' = [deEsi EXCEPT ![e] = @ \o <<>> \o <<"ENVIAR_ERROR">>]
      /\ UNCHANGED <<guion, ipActual, ipAnterior, aCoord, coordAPlan, varsPlan, sistema>>
  BY DEF ProcesarRespuestaSolicitud, Termina, Recibido, conexionesAjenas, ProcesoEsi,
         varsCoord
<1>4. /\ aEsi \in [ESIs -> Seq(MensajesAEsi)] /\ deEsi \in [ESIs -> Seq(MensajesDeEsi)]
      /\ vida \in [ESIs -> {"nueva", "conectada", "terminada"}]
  BY DEF Tipos, TypeOK, CanalesTypeOK, EsiTypeOK
<1>5. /\ aEsi'[e] = <<>> /\ vida'[e] = "terminada" /\ deEsi'[e] = <<"ENVIAR_ERROR">>
      /\ \A f \in ESIs \ {e} : /\ aEsi'[f] = aEsi[f] /\ vida'[f] = vida[f]
                                /\ deEsi'[f] = deEsi[f]
  <2>1. deEsi'[e] = <<>> \o <<>> \o <<"ENVIAR_ERROR">>
    BY <1>2, <1>3, <1>4
  <2>2. <<>> \o <<>> \o <<"ENVIAR_ERROR">> = <<"ENVIAR_ERROR">>
    OBVIOUS
  <2>3. QED
    BY <1>2, <1>3, <1>4, <2>1, <2>2
<1>6. UNCHANGED <<listos, cola, tomadas, liberados, termino, bloqueo, continua,
                  pc, actual, caido, huboError>>
  BY <1>3 DEF varsPlan, tablas, flags
<1>7. Cerrando(e)'
  BY <1>2, <1>3, <1>5, <1>6 DEF Cerrando
<1>8. EnTurno' /\ EnSuFase(e)'
  BY <1>2, <1>6, <1>7 DEF EnTurno, EnSuFase, Conocida, EnAlgunaCola
<1>9. \A f \in ESIs \ {e} : MismoEsi(f)
  BY <1>3, <1>5, <1>6 DEF MismoEsi, Conocida, EnAlgunaCola
<1>10. ~caido' /\ ~huboError'
  BY <1>6 DEF Fases, FaseDeCadaUno
<1>11. QED
  BY <1>2, <1>6, <1>8, <1>9, <1>10, FasesDelActual

(* The steps of the process of an ESI                                        *)
LEMMA FasesEsi ==
  ASSUME GuionesBien, Tipos, Fases, NEW e \in ESIs, ProcesoEsi(e) PROVE FaseDeCadaUno'
BY FasesConectar, FasesSolicitud, FasesAnterior, FasesRespuestaSolicitud
DEF ProcesoEsi, PasoEsi

-----------------------------------------------------------------------------
(* Threads of the ESIs in the coordinator *)

(* A search in the table of instances.                                       *)
LEMMA EstaEnLaTabla ==
  ASSUME Tipos, TablaDisponible, NEW S
  PROVE  /\ PrimeraDe(tabla, S) # Nada => PrimeraDe(tabla, S) \in Disponibles \cap S
         /\ UltimaDe(tabla, S) # Nada => UltimaDe(tabla, S) \in Disponibles \cap S
         /\ S \cap Range(tabla) # {} =>
              PrimeraDe(tabla, S) # Nada /\ UltimaDe(tabla, S) # Nada
<1>1. tabla \in Seq(Instancias)
  BY DEF Tipos, TypeOK, CoordTypeOK
<1>2. DOMAIN tabla = 1..Len(tabla) /\ Len(tabla) \in Nat
  BY <1>1, LenProperties
<1>3. tabla \in Seq(Range(tabla)) /\ Range(tabla) \subseteq Instancias
  BY <1>1, SeqOfRange, RangeOfSeq
<1>4. Disponibles = Range(tabla)
  BY DEF Disponibles, TablaDisponible
<1>5. CASE PosicionesDe(tabla, S) = {}
  <2>1. PrimeraDe(tabla, S) = Nada /\ UltimaDe(tabla, S) = Nada
    BY <1>5, Zenon DEF PrimeraDe, UltimaDe
  <2>2. S \cap Range(tabla) = {}
    BY <1>2, <1>5 DEF PosicionesDe, Range
  <2>3. QED
    BY <2>1, <2>2
<1>6. CASE PosicionesDe(tabla, S) # {}
  <2>1. PrimeraDe(tabla, S) \in Range(tabla) \cap S
    BY <1>3, <1>6, PrimeraDeAlguna
  <2>2. UltimaDe(tabla, S) \in Range(tabla) \cap S
    BY <1>3, <1>6, UltimaDeAlguna
  <2>3. Nada \notin Range(tabla)
    BY <1>3, NadaAssumption
  <2>4. QED
    BY <1>4, <2>1, <2>2, <2>3
<1>7. QED
  BY <1>5, <1>6

(* While the instances stay there is one for every SET.                      *)
LEMMA HayInstancia ==
  ASSUME Tipos, TablaDisponible, NEW k, Algoritmo # "KE" \/ Duena(k) # Nada
  PROVE  InstanciaParaSET(k) # Nada
<1>1. /\ tabla \in Seq(Instancias) /\ uso \in Seq(Instancias)
      /\ claves \in [Instancias -> Seq(Claves)]
  BY DEF Tipos, TypeOK, CoordTypeOK
<1>2. Disponibles = Range(tabla) /\ Range(tabla) \subseteq Instancias
  BY <1>1, RangeOfSeq DEF Disponibles, TablaDisponible
<1>3. PICK i \in Disponibles : TRUE
  <2>1. 1 \in DOMAIN tabla
    BY <1>1, SinElPrimero DEF TablaDisponible
  <2>2. tabla[1] \in Range(tabla)
    BY <2>1 DEF Range
  <2>3. QED
    BY <1>2, <2>2
<1>4. TraerUltimaInstanciaUsada # Nada
  <2> DEFINE sinUso == Disponibles \ Range(uso)
  <2>1. CASE UltimaDe(tabla, sinUso) # Nada
    BY <2>1 DEF TraerUltimaInstanciaUsada
  <2>2. CASE UltimaDe(tabla, sinUso) = Nada
    <3>1. sinUso \cap Range(tabla) = {}
      BY <2>2, EstaEnLaTabla
    <3>2. i \in Range(uso) \cap Disponibles
      BY <1>2, <1>3, <3>1
    <3>3. PosicionesDe(uso, Disponibles) # {}
      BY <1>1, <3>2, LenProperties DEF PosicionesDe, Range
    <3>4. PrimeraDe(uso, Disponibles) \in Instancias
      BY <1>1, <3>3, PrimeraDeAlguna
    <3>5. TraerUltimaInstanciaUsada = PrimeraDe(uso, Disponibles)
      BY <2>2 DEF TraerUltimaInstanciaUsada
    <3>6. QED
      BY <3>4, <3>5, NadaAssumption
  <2>3. QED
    BY <2>1, <2>2
<1>5. TraerInstanciaMasEspacioDisponible # Nada
  <2> DEFINE ocupados == {Len(claves[j]) : j \in Disponibles}
             menores == {j \in Disponibles :
                           \A l \in Disponibles : Len(claves[j]) <= Len(claves[l])}
  <2>1. \A j \in Disponibles : Len(claves[j]) \in Nat
    BY <1>1, <1>2, LenProperties
  <2>2. ocupados \in SUBSET Nat /\ ocupados # {}
    BY <1>3, <2>1
  <2>3. PICK m \in ocupados : \A n \in ocupados : m <= n
    BY <2>2, MinimoNat
  <2>4. PICK j \in Disponibles : m = Len(claves[j])
    OBVIOUS
  <2>5. j \in menores \cap Range(tabla)
    BY <1>2, <2>3, <2>4
  <2>6. TraerInstanciaMasEspacioDisponible = PrimeraDe(tabla, menores)
    BY DEF TraerInstanciaMasEspacioDisponible
  <2>7. QED
    BY <2>5, <2>6, EstaEnLaTabla
<1>6. QED
  BY <1>4, <1>5, AlgoritmoAssumption DEF InstanciaParaSET, PlanificarInstancia

(* A packet of an ESI to the coordinator is the statement of its turn.       *)
LEMMA SaleLaSentencia ==
  ASSUME GuionesBien, Tipos, Fases, NEW e \in ESIs, aCoord[e] # <<>>
  PROVE  /\ EnTurno /\ pc = "continua" /\ e = actual /\ EnSuFase(e)
         /\ EnviadaPorEsi(e) /\ EnCurso(e) /\ coordAPlan = <<>>
         /\ Head(aCoord[e]) = Sentencia(e) /\ Tail(aCoord[e]) = <<>>
         /\ Sentencia(e).op \in Operaciones /\ Sentencia(e).clave \in Claves
         /\ Sentencia(e).op # "GET" => Sentencia(e).clave \in tomadas[e]
<1>1. e = actual /\ EnTurno /\ EnSuFase(e)
  <2>1. ~Fuera(e)
    BY DEF Fuera, Nueva, Anunciada, Sigue, Ida, Callada
  <2>2. QED
    BY <2>1 DEF Fases, FaseDeCadaUno
<1>2. EnviadaPorEsi(e) /\ pc = "continua"
  BY <1>1 DEF EnSuFase, Respondida, Pedida, EnviadaAlPlan, Cerrando, Callada, Ida
<1>3. EnCurso(e) /\ aCoord[e] = <<Sentencia(e)>> /\ coordAPlan = <<>>
  BY <1>2 DEF EnviadaPorEsi
<1>4. Head(aCoord[e]) = Sentencia(e) /\ Tail(aCoord[e]) = <<>>
  BY <1>3, Colas
<1>5. Puede(e, ipAnterior[e])
  BY <1>3 DEF EnCurso
<1>6. QED
  BY <1>1, <1>2, <1>3, <1>4, <1>5, DeSuGuion DEF Sentencia

(* The coordinator forwards it to the planner, which has read the            *)
(* TERMINO_ESI that was sent before.                                         *)
LEMMA FasesToma ==
  ASSUME GuionesBien, RetardoSuficiente, Tipos, Fases, NEW e \in ESIs,
         aCoord[e] # <<>>, TrasRetardo(e),
         aCoord' = Recibido(aCoord, e), coordAPlan' = Append(coordAPlan, Head(aCoord[e])),
         UNCHANGED <<varsPlan, varsEsi, aEsi, deEsi>>,
         sistema \subseteq sistema', Sentencia(e).clave \in sistema'
  PROVE  FaseDeCadaUno'
<1>1. /\ EnTurno /\ pc = "continua" /\ e = actual /\ EnSuFase(e)
      /\ EnviadaPorEsi(e) /\ EnCurso(e)
      /\ coordAPlan = <<>> /\ Tail(aCoord[e]) = <<>>
      /\ Head(aCoord[e]) = Sentencia(e)
  BY SaleLaSentencia
<1>2. /\ aCoord'[e] = <<>> /\ \A f \in ESIs \ {e} : aCoord'[f] = aCoord[f]
      /\ coordAPlan' = <<Sentencia(e)>>
  BY <1>1, Colas DEF Recibido, Tipos, TypeOK, CanalesTypeOK
<1>3. /\ UNCHANGED <<pc, actual, termino, bloqueo, continua, claveGET, huboError, caido,
                     listos, cola, tomadas, liberados>>
  BY DEF varsPlan, flags, tablas
<1>4. deEsi[e] = <<>> /\ (termino <=> Ultima(e))
  <2>1. deEsi[e] # <<"TERMINO_ESI">>
    <3>1. "TERMINO_ESI" \in Range(<<"TERMINO_ESI">>)
      BY DEF Range
    <3>2. QED
      BY <3>1 DEF TrasRetardo
  <2>2. QED
    BY <1>1, <2>1 DEF EnviadaPorEsi
<1>5. EnCurso(e)' /\ Sentencia(e)' = Sentencia(e) /\ (Ultima(e)' <=> Ultima(e))
  BY <1>1, <1>3 DEF EnCurso, Conectada, Puede, Sentencia, Ultima, varsEsi
<1>6. EnviadaAlPlan(e)'
  BY <1>2, <1>3, <1>4, <1>5 DEF EnviadaAlPlan, Callada
<1>7. \A f \in ESIs : Conocida(f)' <=> Conocida(f)
  BY <1>3 DEF Conocida, EnAlgunaCola
<1>8. EnTurno' /\ EnSuFase(e)'
  BY <1>1, <1>3, <1>6, <1>7 DEF EnTurno, EnSuFase
<1>9. \A f \in ESIs \ {e} : MismoEsi(f)
  BY <1>2, <1>3, <1>7 DEF MismoEsi, varsEsi
<1>10. QED
  BY <1>1, <1>3, <1>8, <1>9, FasesDelActual DEF Fases, FaseDeCadaUno

(* The thread of an ESI that waits or sends says nothing to the planner, nor *)
(* takes anything of the ESI.                                                *)
LEMMA DecideEnSilencio ==
  ASSUME Tipos, Registradas, TablaDisponible, NEW e \in ESIs,
         DecideSET(e) \/ DecideSTORE(e) \/ EnviaAInstancia(e) \/ EnviaSinConexion(e)
  PROVE  UNCHANGED <<aEsi, deEsi, aCoord, coordAPlan, sistema>>
<1>1. UNCHANGED <<aEsi, deEsi, aCoord, sistema>>
  BY DEF DecideSET, DecideSTORE, EnviaAInstancia, EnviaSinConexion, canalesDeInst,
         canales, varsPeticion, varsHiloEsi
<1>2. CASE DecideSET(e)
  <2> DEFINE k == pedido[e].clave
  <2>1. ~(Algoritmo # "KE" \/ Duena(k) # Nada) \/ InstanciaParaSET(k) # Nada
    BY HayInstancia
  <2> HIDE DEF k
  <2>2. \/ UNCHANGED coordAPlan
        \/ (Algoritmo # "KE" \/ Duena(k) # Nada) /\ InstanciaParaSET(k) = Nada
    BY <1>2, Zenon DEF DecideSET, k
  <2>3. QED
    BY <1>1, <2>1, <2>2
<1>3. CASE DecideSTORE(e)
  <2> DEFINE k == pedido[e].clave
             i == IF Duena(k) # Nada THEN Duena(k) ELSE PrimeraDe(tabla, ConClave(k))
  <2>1. k \in sistema
    BY <1>3 DEF DecideSTORE, Registradas
  <2>2. i # Nada => disponible[i]
    BY EstaEnLaTabla DEF Duena, Disponibles
  <2> HIDE DEF k, i
  <2>3. UNCHANGED coordAPlan \/ k \notin sistema \/ (i # Nada /\ ~disponible[i])
    BY <1>3, Zenon DEF DecideSTORE, k, i
  <2>4. QED
    BY <1>1, <2>1, <2>2, <2>3
<1>4. CASE EnviaAInstancia(e) \/ EnviaSinConexion(e)
  BY <1>1, <1>4 DEF EnviaAInstancia, EnviaSinConexion, canales
<1>5. QED
  BY <1>2, <1>3, <1>4

(* The threads of the ESIs                                                   *)
LEMMA FasesHiloDeEsi ==
  ASSUME GuionesBien, RetardoSuficiente, Tipos, Fases, Registradas, TablaDisponible,
         NEW e \in ESIs, HiloDeEsi(e)
  PROVE  FaseDeCadaUno'
<1>1. UNCHANGED <<varsPlan, varsEsi>>
  BY DEF HiloDeEsi
<1>2. CASE TomaGET(e)
  <2>1. /\ aCoord[e] # <<>> /\ TrasRetardo(e) /\ UNCHANGED <<aEsi, deEsi>>
        /\ aCoord' = Recibido(aCoord, e)
        /\ coordAPlan' = Append(coordAPlan, Head(aCoord[e]))
        /\ sistema' = sistema \cup {Head(aCoord[e]).clave}
    BY <1>2 DEF TomaGET, LlegaOp, canalesDeInst
  <2>2. Sentencia(e) = Head(aCoord[e])
    BY <2>1, SaleLaSentencia
  <2>3. QED
    BY <1>1, <2>1, <2>2, FasesToma
<1>3. CASE TomaSET(e) \/ TomaSTORE(e)
  <2>1. aCoord[e] # <<>> /\ Head(aCoord[e]).op \in {"SET", "STORE"}
    BY <1>3 DEF TomaSET, TomaSTORE, LlegaOp
  <2>2. Sentencia(e) = Head(aCoord[e]) /\ Sentencia(e).clave \in tomadas[e]
    BY <2>1, SaleLaSentencia
  <2>3. Head(aCoord[e]).clave \in sistema
    BY <2>2 DEF Registradas, Nombres
  <2>4. /\ TrasRetardo(e) /\ UNCHANGED <<aEsi, deEsi, sistema>>
        /\ aCoord' = Recibido(aCoord, e)
        /\ coordAPlan' = Append(coordAPlan, Head(aCoord[e]))
    BY <1>3, <2>3 DEF TomaSET, TomaSTORE, canalesDeInst
  <2>5. QED
    BY <1>1, <2>1, <2>2, <2>3, <2>4, FasesToma
<1>4. ~TomaErrorTamanio(e)
  BY SaleLaSentencia DEF TomaErrorTamanio, LlegaOp, Operaciones
<1>5. CASE DecideSET(e) \/ DecideSTORE(e) \/ EnviaAInstancia(e) \/ EnviaSinConexion(e)
  <2>1. UNCHANGED <<aEsi, deEsi, aCoord, coordAPlan, sistema>>
    BY <1>5, DecideEnSilencio
  <2>2. QED
    BY <1>1, <2>1, FasesQuietas
<1>6. QED
  BY <1>2, <1>3, <1>4, <1>5 DEF HiloDeEsi, PasoHiloEsi

-----------------------------------------------------------------------------
(* All of them *)

(* Only an ESI thread of the coordinator registers a key or keeps a          *)
(* statement.                                                                *)
LEMMA PedidosQuietos ==
  ASSUME [Next]_vars
  PROVE  UNCHANGED <<paso, pedido, elegida, sistema>> \/ \E e \in ESIs : HiloDeEsi(e)
<1>1. CASE HiloDePlan
  BY <1>1, Zenon
  DEF HiloDePlan, PasoHiloPlan, RecibeRespuesta, AsignaRespuesta, ProcesarStatus,
      varsPeticion, varsHiloEsi
<1>2. ASSUME NEW i \in Instancias, HiloDeInst(i) PROVE UNCHANGED <<paso, pedido, elegida, sistema>>
  BY <1>2, Zenon
  DEF HiloDeInst, PasoHiloInst, RecibeNombreInstancia, PresentaInstancia,
      RecibeSetOk, RecibeStoreOk,
      RecibeClaveEliminada, RecibeEspacioInsuficiente, BloqueaInstancia,
      CompactaInstancia, RecibeCompactar, RecibeSetDefinitivo, DesconectaInstancia,
      RecibeRespuestaValor, varsPeticion, varsHiloEsi, varsCoord
<1>3. CASE UNCHANGED varsCoord
  BY <1>3 DEF varsCoord
<1>4. QED
  BY <1>1, <1>2, <1>3, Zenon
  DEF Next, PasoDeEsi, PasoDeInstancia, HiloAlgoritmos, HiloCoordinador,
      HiloServidor, ProcesoEsi, MuereEsi, EsiSinPlanificador, ProcesoInstancia,
      EntornoInstancia, vars

(* The threads of the planner's connection and of the instances, and the     *)
(* instances, have no part in a turn.                                        *)
LEMMA FueraDelTurno ==
  ASSUME HiloDePlan \/ (\E i \in Instancias : PasoDeInstancia(i)) \/ UNCHANGED vars
  PROVE  UNCHANGED <<varsPlan, varsEsi, aEsi, deEsi, aCoord, coordAPlan>>
<1>1. CASE HiloDePlan
  BY <1>1, Zenon
  DEF HiloDePlan, PasoHiloPlan, RecibeRespuesta, AsignaRespuesta, ProcesarStatus,
      canalesSinPlanACoord, canales
<1>2. ASSUME NEW i \in Instancias, HiloDeInst(i)
      PROVE  UNCHANGED <<varsPlan, varsEsi, aEsi, deEsi, aCoord, coordAPlan>>
  BY <1>2, Zenon
  DEF HiloDeInst, PasoHiloInst, RecibeNombreInstancia, PresentaInstancia,
      RecibeSetOk, RecibeStoreOk,
      RecibeClaveEliminada, RecibeEspacioInsuficiente, BloqueaInstancia,
      CompactaInstancia, RecibeCompactar, RecibeSetDefinitivo, DesconectaInstancia,
      RecibeRespuestaValor, canalesSinInst, canales
<1>3. ASSUME NEW i \in Instancias, ProcesoInstancia(i) \/ EntornoInstancia(i)
      PROVE  UNCHANGED <<varsPlan, varsEsi, aEsi, deEsi, aCoord, coordAPlan>>
  BY <1>3, Zenon
  DEF ProcesoInstancia, EntornoInstancia, PasoInstancia, ConectarInstancia,
      ProcesarEnviarInfoInstancia, AtenderSinTablas, ProcesarSet,
      ProcesarSetDefinitivo, ProcesarStore,
      ProcesarCompactacion, ProcesarSolicitudValor, Dump, MatarInstancia,
      canalesDeOtros, canales
<1>4. CASE UNCHANGED vars
  BY <1>4 DEF vars, canales
<1>5. QED
  BY <1>1, <1>2, <1>3, <1>4 DEF PasoDeInstancia

(* hiloServidor frees nobody, and does not begin to.                         *)
LEMMA NadieLibera ==
  ASSUME Fases PROVE \A e : ~LiberaESI(e)
<1>1. libera.paso = "nada"
  BY DEF Fases, Ocioso, Liberacion
<1>2. QED
  BY <1>1, Zenon
  DEF LiberaESI, LiberaNombre, QuitaListo, QuitaDeLista, QuitaClave, LiberaClaves

LEMMA LiberaQuieta ==
  ASSUME Tipos, Fases, [Next]_vars PROVE libera' = Ocioso
<1>1. libera = Ocioso
  BY DEF Fases
<1>2. CASE HiloAlgoritmos
  BY <1>1, <1>2, Zenon
  DEF HiloAlgoritmos, PasoAlgoritmos, TomaEntrada, Elige, Pide, EsperaContinua, Sale,
      Bloquea, Despide, Desaloja, DejaBloqueado, Cierra
<1>3. CASE HiloCoordinador
  BY <1>1, <1>3, Zenon
  DEF HiloCoordinador, PasoCoordinador, RecibeGET, RecibeSET, RecibeSTORE, RecibeError
<1>4. ASSUME NEW e \in ESIs, HiloServidor(e) PROVE libera' = Ocioso
  <2>1. CASE RecibeNombre(e) \/ RecibeTermino(e)
    BY <1>1, <2>1, Zenon DEF RecibeNombre, RecibeTermino
  <2>2. CASE DesconectaESI(e)
    <3>1. FinDelActual
      BY <2>2, LoQueLlegaDeUno DEF DesconectaESI, Llega, Cerrando, FinDelActual
    <3>2. QED
      BY <1>1, <2>2, <3>1, Zenon DEF DesconectaESI
  <2>3. QED
    BY <1>4, <2>1, <2>2, NadieLibera DEF HiloServidor, PasoServidor
<1>5. CASE UNCHANGED varsPlan
  BY <1>1, <1>5 DEF varsPlan
<1>6. QED
  BY <1>2, <1>3, <1>4, <1>5, Zenon
  DEF Next, PasoDeEsi, PasoDeInstancia, ProcesoEsi, HiloDeEsi, MuereEsi,
      EsiSinPlanificador, HiloDePlan, HiloDeInst, ProcesoInstancia,
      EntornoInstancia, vars

(* Every step keeps the turn in its phases.                                  *)
LEMMA FasesNext ==
  ASSUME GuionesBien, SoloElSistema, RetardoSuficiente, Tipos, NuncaEnDosLugares,
         DesbloqueoSeguro, CoordinadorEnPie, Turnos, [Next]_vars
  PROVE  Fases'
<1>1. Fases /\ Registradas /\ TablaDisponible /\ EnPie
  BY DEF Turnos, Fases, FaseDeCadaUno, EnPie, CoordinadorEnPie
<1> SUFFICES FaseDeCadaUno'
  BY <1>1, LiberaQuieta DEF Fases
<1>2. pc = "elige" => listos # {}
  <2>1. ASSUME listos = {}, pc = "elige" PROVE FALSE
    <3>1. Cardinality(listos) = 0 /\ ESIentrada \in Nat
      BY <2>1, FS_EmptySet DEF Tipos, TypeOK, PlanTypeOK
    <3>2. ESIentrada + 1 = Cardinality(listos)
      BY <2>1 DEF Turnos, Contados, ListosContados, Uno
    <3>3. QED
      BY <3>1, <3>2
  <2>2. QED
    BY <2>1
<1>3. CASE HiloAlgoritmos
  BY <1>1, <1>2, <1>3, FasesAlgoritmos
<1>4. CASE HiloCoordinador
  BY <1>1, <1>4, FasesCoordinador
<1>5. ASSUME NEW e \in ESIs, PasoDeEsi(e) PROVE FaseDeCadaUno'
  <2>1. CASE HiloServidor(e)
    BY <1>1, <2>1, FasesRecibeNombre, FasesRecibeTermino, FasesDesconecta, NadieLibera
    DEF HiloServidor, PasoServidor
  <2>2. CASE ProcesoEsi(e)
    BY <1>1, <2>2, FasesEsi
  <2>3. CASE HiloDeEsi(e)
    BY <1>1, <2>3, FasesHiloDeEsi
  <2>4. ~MuereEsi(e) /\ ~EsiSinPlanificador(e)
    BY <1>1 DEF MuereEsi, Matar, SoloElSistema, EsiSinPlanificador
  <2>5. QED
    BY <1>5, <2>1, <2>2, <2>3, <2>4 DEF PasoDeEsi
<1>6. CASE HiloDePlan \/ (\E i \in Instancias : PasoDeInstancia(i)) \/ UNCHANGED vars
  <2>1. UNCHANGED <<varsPlan, varsEsi, aEsi, deEsi, aCoord, coordAPlan>>
    BY <1>6, FueraDelTurno
  <2>2. sistema \subseteq sistema'
    <3>1. ASSUME NEW e \in ESIs, HiloDeEsi(e) PROVE sistema \subseteq sistema'
      BY <3>1, Zenon
      DEF HiloDeEsi, PasoHiloEsi, TomaGET, TomaSET, TomaSTORE, TomaErrorTamanio,
          DecideSET, DecideSTORE, EnviaAInstancia, EnviaSinConexion, varsCoord,
        varsPeticion, varsHiloEsi
    <3>2. QED
      BY PedidosQuietos, <3>1
  <2>3. QED
    BY <1>1, <2>1, <2>2, FasesQuietas
<1>7. QED
  BY <1>3, <1>4, <1>5, <1>6 DEF Next

(* Only a GET gives away a key.                                              *)
LEMMA SoloUnGETDa ==
  ASSUME Tipos, [Next]_vars, ~RecibeGET
  PROVE  \A n \in Nombres : tomadas'[n] \subseteq tomadas[n]
<1>1. tomadas \in [Nombres -> SUBSET Claves]
  BY DEF Tipos, TypeOK, PlanTypeOK
<1>2. \/ tomadas' = tomadas
      \/ \E n : \E k : tomadas' \in {SinClaves(n), ClaveLiberada(n, k)}
  <2>1. CASE RecibeSET \/ RecibeSTORE \/ RecibeError \/ Bloquea
    BY <2>1, Zenon DEF RecibeSET, RecibeSTORE, RecibeError, Aborta, Bloquea
  <2>2. ASSUME NEW e \in ESIs, DesconectaESI(e) \/ LiberaESI(e)
        PROVE  tomadas' = tomadas \/ \E n : tomadas' = SinClaves(n)
    BY <2>2, Zenon
    DEF DesconectaESI, LiberaESI, LiberaNombre, QuitaListo, QuitaDeLista, QuitaClave,
        LiberaClaves, tablas
  <2>3. QED
    BY <2>1, <2>2, TablasQuietas DEF CambiaTablas
<1>3. QED
  BY <1>1, <1>2 DEF SinClaves, ClaveLiberada

(* A key is given away once the coordinator has registered it, and nobody    *)
(* stores one that was not.                                                  *)
LEMMA RegistradasNext ==
  ASSUME GuionesBien, Tipos, Fases, Registradas, [Next]_vars PROVE Registradas'
<1>1. UNCHANGED <<paso, pedido, elegida, sistema>> \/ \E e \in ESIs : HiloDeEsi(e)
  BY PedidosQuietos
<1>2. sistema \subseteq sistema'
  <2>1. ASSUME NEW e \in ESIs, HiloDeEsi(e) PROVE sistema \subseteq sistema'
    BY <2>1, Zenon
    DEF HiloDeEsi, PasoHiloEsi, TomaGET, TomaSET, TomaSTORE, TomaErrorTamanio,
        DecideSET, DecideSTORE, EnviaAInstancia, EnviaSinConexion, varsCoord,
        varsPeticion, varsHiloEsi
  <2>2. QED
    BY <1>1, <2>1
<1>3. ASSUME NEW n \in Nombres PROVE tomadas'[n] \subseteq sistema
  <2>1. CASE \A m \in Nombres : tomadas'[m] \subseteq tomadas[m]
    BY <2>1 DEF Registradas
  <2>2. CASE RecibeGET
    <3> DEFINE k == Head(coordAPlan).clave
    <3>1. tomadas' = tomadas \/ \E m : tomadas' = [tomadas EXCEPT ![m] = @ \cup {k}]
      BY <2>2, Zenon DEF RecibeGET
    <3>2. coordAPlan # <<>>
      BY <2>2 DEF RecibeGET, LlegaOp
    <3>3. k \in sistema
      BY <3>2, LlegaLaSentencia DEF EnviadaAlPlan
    <3>4. tomadas \in [Nombres -> SUBSET Claves]
      BY DEF Tipos, TypeOK, PlanTypeOK
    <3>5. QED
      BY <3>1, <3>3, <3>4 DEF Registradas
  <2>3. QED
    BY <2>1, <2>2, SoloUnGETDa
<1>4. ASSUME NEW e \in ESIs, paso'[e] = "esperaSTORE" PROVE pedido'[e].clave \in sistema
  <2>1. CASE UNCHANGED <<paso, pedido, elegida, sistema>>
    BY <1>4, <2>1 DEF Registradas
  <2>2. ASSUME NEW f \in ESIs, HiloDeEsi(f)
        PROVE  \/ f = e /\ TomaSTORE(f)
               \/ paso[e] = "esperaSTORE" /\ pedido'[e] = pedido[e]
    <3> USE DEF Tipos, TypeOK, CoordTypeOK
    <3>1. CASE TomaGET(f) \/ TomaErrorTamanio(f)
      BY <1>4, <3>1 DEF TomaGET, TomaErrorTamanio, varsCoord
    <3>2. CASE TomaSET(f)
      BY <1>4, <3>2 DEF TomaSET
    <3>3. CASE TomaSTORE(f)
      BY <1>4, <3>3 DEF TomaSTORE
    <3>4. CASE DecideSET(f)
      <4>1. \/ \E q \in {"planificaKE", "enviaSET"} :
                 paso' = [paso EXCEPT ![f] = q] /\ UNCHANGED pedido
            \/ LibreOtraVez(f)
        BY <3>4, Zenon DEF DecideSET
      <4>2. QED
        BY <1>4, <4>1 DEF LibreOtraVez
    <3>5. CASE DecideSTORE(f)
      <4>1. \/ paso' = [paso EXCEPT ![f] = "enviaSTORE"] /\ UNCHANGED pedido
            \/ LibreOtraVez(f)
        BY <3>5, Zenon DEF DecideSTORE
      <4>2. QED
        BY <1>4, <4>1 DEF LibreOtraVez
    <3>6. CASE EnviaAInstancia(f) \/ EnviaSinConexion(f)
      BY <1>4, <3>6
      DEF EnviaAInstancia, EnviaSinConexion, LibreOtraVez, varsPeticion, varsHiloEsi
    <3>7. QED
      BY <2>2, <3>1, <3>2, <3>3, <3>4, <3>5, <3>6 DEF HiloDeEsi, PasoHiloEsi
  <2>3. CASE TomaSTORE(e)
    <3>1. aCoord[e] # <<>> /\ Head(aCoord[e]).op = "STORE"
      BY <2>3 DEF TomaSTORE, LlegaOp
    <3>2. Head(aCoord[e]).clave \in tomadas[e]
      BY <3>1, SaleLaSentencia
    <3>3. pedido'[e] = Head(aCoord[e])
      BY <2>3 DEF TomaSTORE, Tipos, TypeOK, CoordTypeOK
    <3>4. QED
      BY <3>2, <3>3 DEF Registradas, Nombres
  <2>4. QED
    BY <1>1, <2>1, <2>2, <2>3 DEF Registradas
<1>5. QED
  BY <1>2, <1>3, <1>4 DEF Registradas

(* Nobody leaves the table or enters it.                                     *)
LEMMA TablaDisponibleNext ==
  ASSUME SinCompactaciones, NadieMata, Tipos, Protocolo, Vistas, TablaDisponible,
         [Next]_vars
  PROVE  TablaDisponible'
  BY VistasNext DEF TablaDisponible

(* The steps that count an entry of g_listos, or discount it.                *)
CambiaListos ==
  \/ TomaEntrada \/ Elige \/ Desaloja \/ RecibeSTORE
  \/ \E e \in ESIs : RecibeNombre(e) \/ LiberaESI(e)

(* The others leave g_listos and its count alone.                            *)
LEMMA ListosQuietos ==
  ASSUME [Next]_vars
  PROVE  \/ CambiaListos
         \/ UNCHANGED <<listos, ESIentrada>> /\ (pc = "elige" <=> pc' = "elige")
<1>1. CASE HiloAlgoritmos
  <2>1. ASSUME PasoAlgoritmos, ~CambiaListos PROVE UNCHANGED <<listos, ESIentrada>>
    BY <2>1, Zenon
    DEF CambiaListos, PasoAlgoritmos, Pide, EsperaContinua, Sale, Bloquea, Despide,
        DejaBloqueado, Cierra, tablas
  <2>2. ASSUME PasoAlgoritmos, ~CambiaListos PROVE pc # "elige" /\ pc' # "elige"
    BY <2>2
    DEF CambiaListos, PasoAlgoritmos, Pide, EsperaContinua, Sale, Bloquea, Despide,
        DejaBloqueado, Cierra
  <2>3. QED
    BY <1>1, <2>1, <2>2 DEF HiloAlgoritmos
<1>2. CASE HiloCoordinador
  <2>1. CambiaListos \/ UNCHANGED <<listos, ESIentrada, pc>>
    BY <1>2, Zenon
    DEF HiloCoordinador, PasoCoordinador, CambiaListos, RecibeGET, RecibeSET,
        RecibeError
  <2>2. QED
    BY <2>1
<1>3. ASSUME NEW e \in ESIs, HiloServidor(e)
      PROVE  CambiaListos \/ UNCHANGED <<listos, ESIentrada, pc>>
  BY <1>3, Zenon
  DEF HiloServidor, PasoServidor, RecibeTermino, DesconectaESI, CambiaListos, tablas
<1>4. CASE UNCHANGED varsPlan
  BY <1>4 DEF varsPlan, tablas
<1>5. HiloAlgoritmos \/ HiloCoordinador \/ (\E e \in ESIs : HiloServidor(e))
        \/ UNCHANGED varsPlan
  BY Zenon
  DEF Next, PasoDeEsi, PasoDeInstancia, HiloDePlan, ProcesoEsi, MuereEsi,
      EsiSinPlanificador, HiloDeEsi, HiloDeInst, ProcesoInstancia,
      EntornoInstancia, vars
<1>6. QED
  BY <1>1, <1>2, <1>3, <1>4, <1>5

(* An ESI that was nowhere is ready, and ESIentrada is posted.               *)
LEMMA UnListoMas ==
  ASSUME Tipos, Contados, NEW e, e \notin listos,
         listos' = listos \cup {e}, ESIentrada' = ESIentrada + 1,
         pc = "elige" <=> pc' = "elige"
  PROVE  Contados'
<1>1. /\ IsFiniteSet(listos') /\ Cardinality(listos') = Cardinality(listos) + 1
      /\ Cardinality(listos) \in Nat
  BY FS_AddElement, FS_CardinalityType DEF Contados
<1>2. ESIentrada \in Nat /\ Uno(pc = "elige") \in Nat
  BY DEF Tipos, TypeOK, PlanTypeOK, Uno
<1>3. Uno(pc' = "elige") = Uno(pc = "elige")
  BY DEF Uno
<1>4. QED
  BY <1>1, <1>2, <1>3 DEF Contados, ListosContados

(* ESIentrada keeps counting the entries of g_listos: nothing dies, so       *)
(* liberarESI never takes one out.                                           *)
LEMMA ContadosNext ==
  ASSUME Tipos, EnUnLugar, Fases, Contados, [Next]_vars PROVE Contados'
<1>1. /\ IsFiniteSet(listos) /\ Cardinality(listos) \in Nat
      /\ ESIentrada + Uno(pc = "elige") = Cardinality(listos)
      /\ ESIentrada \in Nat
  BY FS_CardinalityType DEF Contados, ListosContados, Tipos, TypeOK, PlanTypeOK
<1>2. CASE TomaEntrada
  <2>1. /\ listos' = listos /\ ESIentrada' = ESIentrada - 1
        /\ pc # "elige" /\ pc' = "elige"
    BY <1>2 DEF TomaEntrada, tablas
  <2>2. QED
    BY <1>1, <2>1 DEF Contados, ListosContados, Uno
<1>3. CASE Elige
  <2>1. pc = "elige" /\ listos # {}
    <3>1. pc = "elige" /\ Cardinality(listos) # 0
      BY <1>1, <1>3 DEF Elige, Uno
    <3>2. QED
      BY <3>1, FS_EmptySet
  <2>2. PICK e \in listos : listos' = listos \ {e}
    BY <1>3, <2>1 DEF Elige
  <2>3. ESIentrada' = ESIentrada /\ pc' # "elige"
    BY <1>3, <2>1 DEF Elige
  <2>4. IsFiniteSet(listos') /\ Cardinality(listos') = Cardinality(listos) - 1
    BY <1>1, <2>2, FS_RemoveElement
  <2>5. QED
    BY <1>1, <2>1, <2>3, <2>4 DEF Contados, ListosContados, Uno
<1>4. CASE Desaloja
  <2>1. actual \in ESIs /\ EnSuTurno(actual)
    BY <1>4 DEF Desaloja, Tipos, ActualEnCurso, EnSuTurno
  <2>2. actual \notin listos
    BY <2>1 DEF EnUnLugar, NuncaEnDosLugares
  <2>3. /\ listos' = listos \cup {actual} /\ ESIentrada' = ESIentrada + 1
        /\ pc # "elige" /\ pc' # "elige"
    BY <1>4 DEF Desaloja
  <2>4. QED
    BY <2>2, <2>3, UnListoMas
<1>5. CASE RecibeSTORE
  <2>1. \/ UNCHANGED <<listos, ESIentrada, pc>>
        \/ \E k : k \in enBloq /\ cola[k] # <<>> /\ DesbloqueaESI(k) /\ UNCHANGED pc
    BY <1>5, Zenon DEF RecibeSTORE
  <2>2. ASSUME NEW k \in enBloq, cola[k] # <<>>, DesbloqueaESI(k), UNCHANGED pc
        PROVE  Contados'
    <3>1. k \in Claves /\ cola[k] \in Seq(ESIs)
      BY DEF Tipos, TypeOK, PlanTypeOK
    <3>2. /\ 1 \in DOMAIN cola[k] /\ cola[k][1] = Head(cola[k])
          /\ Head(cola[k]) \in ESIs
      BY <2>2, <3>1, SinElPrimero
    <3>3. EnAlgunaCola(Head(cola[k]))
      BY <3>1, <3>2 DEF EnAlgunaCola, Range
    <3>4. Head(cola[k]) \notin listos
      BY <3>2, <3>3 DEF EnUnLugar, NuncaEnDosLugares
    <3>5. QED
      BY <2>2, <3>4, UnListoMas DEF DesbloqueaESI
  <2>3. QED
    BY <1>1, <2>1, <2>2 DEF Contados, ListosContados
<1>6. ASSUME NEW e \in ESIs, RecibeNombre(e) PROVE Contados'
  <2>1. deEsi[e] # <<>> /\ Head(deEsi[e]) = "ENVIAR_NOMBRE_ESI"
    BY <1>6 DEF RecibeNombre, Llega
  <2>2. e \notin listos
    <3>1. 1 \in DOMAIN deEsi[e] /\ deEsi[e][1] = "ENVIAR_NOMBRE_ESI"
      BY <2>1, SinElPrimero DEF Tipos, TypeOK, CanalesTypeOK
    <3>2. QED
      BY <3>1 DEF EnUnLugar, NombresPendientes, EnNingunLugar
  <2>3. QED
    BY <1>6, <2>2, UnListoMas DEF RecibeNombre
<1>7. \A e : ~LiberaESI(e)
  BY NadieLibera
<1>8. CASE UNCHANGED <<listos, ESIentrada>> /\ (pc = "elige" <=> pc' = "elige")
  BY <1>8 DEF Contados, ListosContados, Uno
<1>9. QED
  BY <1>2, <1>3, <1>4, <1>5, <1>6, <1>7, <1>8, ListosQuietos DEF CambiaListos

(* Nobody is in its turn at the start.                                       *)
LEMMA TurnosIniciales == HayInstancias /\ Init => Turnos
<1> SUFFICES ASSUME HayInstancias, Init PROVE Turnos
  OBVIOUS
<1>1. /\ ~caido /\ ~huboError /\ ~termino /\ ~bloqueo /\ continua = 0
      /\ listos = {} /\ liberados = {} /\ libera = Ocioso
      /\ pc \in {"arranque", "espera"} /\ ESIentrada = 0
      /\ tomadas = [n \in Nombres |-> {}] /\ \A k \in Claves : cola[k] = <<>>
  BY DEF Init, PlanInit
<1>2. /\ coordAPlan = <<>>
      /\ \A e \in ESIs : aEsi[e] = <<>> /\ deEsi[e] = <<>> /\ aCoord[e] = <<>>
      /\ \A e \in ESIs : vida[e] = "nueva" /\ ipActual[e] = 1 /\ paso[e] = "libre"
  BY DEF Init, CanalesInit, EsiInit, CoordInit
<1>3. Fases
  <2>1. ~EnTurno /\ NadieEnTurno
    BY <1>1, <1>2 DEF EnTurno, NadieEnTurno
  <2>2. ASSUME NEW e \in ESIs PROVE Fuera(e)
    <3>1. ~Conocida(e) /\ tomadas[e] = {}
      BY <1>1 DEF Conocida, EnAlgunaCola, Range, Nombres
    <3>2. QED
      BY <1>1, <1>2, <3>1 DEF Fuera, Nueva, Callada
  <2>3. QED
    BY <1>1, <2>1, <2>2 DEF Fases, FaseDeCadaUno
<1>4. Registradas
  BY <1>1, <1>2 DEF Registradas
<1>5. TablaDisponible
  <2>1. /\ tabla = TablaInicial /\ TablaInicial # <<>> /\ TablaInicial \in Seq(Instancias)
        /\ disponible = [i \in Instancias |-> i \in Range(TablaInicial)]
    BY TablaInicialAssumption DEF Init, CoordInit, HayInstancias
  <2>2. Range(TablaInicial) \subseteq Instancias
    BY <2>1, RangeOfSeq
  <2>3. QED
    BY <2>1, <2>2 DEF TablaDisponible
<1>6. Contados
  BY <1>1, FS_EmptySet DEF Contados, ListosContados, Uno
<1>7. QED
  BY <1>3, <1>4, <1>5, <1>6 DEF Turnos

(* What is assumed of the scripts and of what surrounds the processes.       *)
Supuestos ==
  /\ GuionesBien /\ SoloElSistema /\ HayInstancias /\ RetardoSuficiente
  /\ SinCompactaciones /\ NadieMata /\ InstanciasListas

(* What Turnos is proved on top of.                                          *)
Bases ==
  /\ Tipos /\ Protocolo /\ Vistas /\ EnUnLugar /\ VacioSoloDePaso /\ CoordinadorEnPie

(* Without liberarESI no list is found empty.                                *)
LEMMA ListasConAlguien ==
  ASSUME Fases, VacioSoloDePaso PROVE libera.vacia = Nada /\ DesbloqueoSeguro
<1>1. libera.vacia = Nada
  BY DEF Fases, Ocioso, Liberacion
<1>2. QED
  BY <1>1, NadaAssumption, SinLiberarEsSeguro

(* Every step keeps it.                                                      *)
LEMMA TurnosNext ==
  ASSUME Supuestos, Bases, Turnos, [Next]_vars PROVE Turnos'
<1>1. Fases /\ Registradas /\ TablaDisponible /\ Contados
  BY DEF Turnos
<1>2. Fases'
  BY <1>1, ListasConAlguien, FasesNext DEF Supuestos, Bases, EnUnLugar
<1>3. Registradas'
  BY <1>1, RegistradasNext DEF Supuestos, Bases
<1>4. TablaDisponible'
  BY <1>1, TablaDisponibleNext DEF Supuestos, Bases
<1>5. Contados'
  BY <1>1, ContadosNext DEF Bases
<1>6. QED
  BY <1>2, <1>3, <1>4, <1>5 DEF Turnos

(* Turnos is an invariant.                                                   *)
LEMMA TurnosSiempre == ASSUME Supuestos PROVE Spec => [](Bases /\ Turnos)
<1>1. SinCompactaciones /\ NadieMata /\ HayInstancias /\ InstanciasListas
  BY DEF Supuestos
<1>2. Spec => [](Tipos /\ Protocolo /\ Vistas)
  BY <1>1, VistasSiempre
<1>3. Spec => []AlmacenEnPie
  BY <1>1, AlmacenSiempreEnPie
<1>4. Tipos /\ Protocolo /\ Vistas /\ EnUnLugar /\ VacioSoloDePaso /\ AlmacenEnPie => Bases
  BY DEF Bases, AlmacenEnPie
<1>5. Init => Turnos
  BY <1>1, TurnosIniciales
<1>6. Bases /\ Turnos /\ [Next]_vars => Turnos'
  BY TurnosNext
<1>7. QED
  BY <1>2, <1>3, <1>4, <1>5, <1>6, EnUnLugarSiempre, VacioSoloDePasoSiempre, PTL
  DEF Spec

-----------------------------------------------------------------------------
(* What follows from it *)

(* No semaphore of the planner is left uncounted nor counted twice.          *)
THEOREM ListosSiempreContados ==
  ASSUME Supuestos PROVE Spec => []ListosContados
<1>1. Turnos => ListosContados
  BY DEF Turnos, Contados
<1>2. QED
  BY <1>1, TurnosSiempre, PTL

(***************************************************************************)
(* No STORE finds a key in g_bloq with an empty list: without deaths       *)
(* liberarESI, which leaves one there for a while, never runs.             *)
(***************************************************************************)
THEOREM DesbloqueoSiempreSeguro == ASSUME Supuestos PROVE Spec => []DesbloqueoSeguro
<1>1. Bases /\ Turnos => DesbloqueoSeguro
  BY ListasConAlguien DEF Bases, Turnos
<1>2. QED
  BY <1>1, TurnosSiempre, PTL

(***************************************************************************)
(* And g_bloq and g_clavesTomadas are locks with waiters in order, with no *)
(* exception: nobody leaves a list but to get the key it waits for.        *)
(***************************************************************************)
THEOREM SonCerrojosSiempre == ASSUME Supuestos PROVE Spec => SonCerrojos
<1>1. Init => LosCerrojos!Inicio
  BY InicioDeCerrojos
<1>2. Bases /\ Turnos /\ [Next]_vars => [LosCerrojos!Paso]_<<tomadas, cola, liberados>>
  <2>1. ASSUME Bases, Turnos, [Next]_vars
        PROVE  [LosCerrojos!Paso \/ PierdeLista]_MisTablas
    BY <2>1, CerrojosNext DEF Bases, VacioSoloDePaso
  <2>2. Bases /\ Turnos => ~PierdeLista
    BY ListasConAlguien DEF PierdeLista, Bases, Turnos
  <2>3. QED
    BY <2>1, <2>2, Zenon DEF MisTablas
<1>3. QED
  BY <1>1, <1>2, TurnosSiempre, PTL DEF Spec, SonCerrojos, LosCerrojos!Promesa

(***************************************************************************)
(* Nobody dereferences NULL: planificar never takes the branches that do,  *)
(* the keys asked for are known and no STORE misses its key.               *)
(***************************************************************************)
THEOREM NuncaHayCaidas == ASSUME Supuestos PROVE Spec => []SinCaidas
<1>1. SinCompactaciones /\ NadieMata /\ InstanciasListas
  BY DEF Supuestos
<1>2. Spec => []AlmacenEnPie
  BY <1>1, AlmacenSiempreEnPie
<1>3. Turnos /\ AlmacenEnPie => SinCaidas
  BY DEF Turnos, Fases, FaseDeCadaUno, SinCaidas
<1>4. QED
  BY <1>2, <1>3, TurnosSiempre, PTL

(* An ESI that is gone left no key behind, or its end is still to be read.   *)
THEOREM ClavesSiempreDeVivos == ASSUME Supuestos PROVE Spec => []ClavesDeVivos
<1>1. Turnos => ClavesDeVivos
  <2> SUFFICES ASSUME Turnos, NEW e \in ESIs, tomadas[e] # {}
               PROVE  vida[e] = "conectada" \/ "ENVIAR_ERROR" \in Range(deEsi[e])
    BY DEF ClavesDeVivos
  <2>1. Fuera(e) => vida[e] = "conectada"
    BY DEF Fuera, Nueva, Anunciada, Sigue, Ida, Conectada
  <2>2. ASSUME EnSuFase(e)
        PROVE  vida[e] = "conectada" \/ deEsi[e] = <<"ENVIAR_ERROR">>
    BY <2>2
    DEF EnSuFase, Respondida, Pedida, EnviadaPorEsi, EnviadaAlPlan, EnCurso, Cerrando,
        Ida, Conectada
  <2>3. "ENVIAR_ERROR" \in Range(<<"ENVIAR_ERROR">>)
    BY DEF Range
  <2>4. QED
    BY <2>1, <2>2, <2>3 DEF Turnos, Fases, FaseDeCadaUno
<1>2. QED
  BY <1>1, TurnosSiempre, PTL

(* An ESI waits in one list at most, once.                                   *)
LEMMA EsperasDeUno ==
  ASSUME NuncaEnDosLugares, NEW e \in ESIs
  PROVE  Cardinality(Esperas(e)) = Uno(EnAlgunaCola(e))
<1>1. \A x \in Esperas(e) :
        \E k \in Claves : \E p \in DOMAIN cola[k] : x = <<k, p>> /\ cola[k][p] = e
  BY DEF Esperas, Donde
<1>2. \A k \in Claves : \A p \in DOMAIN cola[k] : cola[k][p] = e => <<k, p>> \in Esperas(e)
  BY DEF Esperas, Donde
<1>3. CASE EnAlgunaCola(e)
  <2>1. PICK k \in Claves : \E p \in DOMAIN cola[k] : cola[k][p] = e
    BY <1>3, EnColaTienePosicion
  <2>2. PICK p \in DOMAIN cola[k] : cola[k][p] = e
    BY <2>1
  <2>3. Esperas(e) = {<<k, p>>}
    BY <1>1, <1>2, <2>2 DEF NuncaEnDosLugares, EsperasUnicas
  <2>4. QED
    BY <1>3, <2>3, FS_Singleton DEF Uno
<1>4. CASE ~EnAlgunaCola(e)
  <2>1. Esperas(e) = {}
    BY <1>1, <1>4, EnColaTienePosicion
  <2>2. QED
    BY <1>4, <2>1, FS_EmptySet DEF Uno
<1>5. QED
  BY <1>3, <1>4

(***************************************************************************)
(* An ESI whose name the planner has read is ready, in its turn or waiting *)
(* for one key, and in one of these only, until it ends.                   *)
(***************************************************************************)
THEOREM SiempreEnUnSoloLugar == ASSUME Supuestos PROVE Spec => []UnSoloLugar
<1>1. NuncaEnDosLugares /\ Turnos => UnSoloLugar
  <2> SUFFICES ASSUME NuncaEnDosLugares, Turnos, NEW e \in ESIs
               PROVE  /\ Lugares(e) <= 1
                      /\ vida[e] = "conectada" /\ "ENVIAR_NOMBRE_ESI" \notin Range(deEsi[e])
                           => Lugares(e) = 1
    BY DEF UnSoloLugar
  <2>1. Lugares(e) = Uno(e \in listos) + Uno(EnEjecucion(e)) + Uno(EnAlgunaCola(e))
    BY EsperasDeUno DEF Lugares
  <2>2. EnEjecucion(e) <=> e = actual /\ EnTurno
    BY DEF EnEjecucion, EnTurno
  <2>3. ~(e \in listos /\ EnAlgunaCola(e))
    BY DEF NuncaEnDosLugares
  <2>4. CASE EnEjecucion(e)
    <3>1. ~Conocida(e)
      BY <2>2, <2>4 DEF Turnos, Fases, FaseDeCadaUno, EnSuFase
    <3>2. QED
      BY <2>1, <2>4, <3>1 DEF Conocida, Uno
  <2>5. CASE ~EnEjecucion(e)
    <3>1. Fuera(e)
      BY <2>2, <2>5 DEF Turnos, Fases, FaseDeCadaUno
    <3>2. ASSUME vida[e] = "conectada", "ENVIAR_NOMBRE_ESI" \notin Range(deEsi[e])
          PROVE  Conocida(e)
      <4>1. "ENVIAR_NOMBRE_ESI" \in Range(<<"ENVIAR_NOMBRE_ESI">>)
        BY DEF Range
      <4>2. QED
        BY <3>1, <3>2, <4>1 DEF Fuera, Nueva, Anunciada, Ida
    <3>3. QED
      BY <2>1, <2>3, <2>5, <3>2 DEF Conocida, Uno
  <2>6. QED
    BY <2>4, <2>5
<1>2. Bases => NuncaEnDosLugares
  BY DEF Bases, EnUnLugar
<1>3. QED
  BY <1>1, <1>2, TurnosSiempre, PTL

(* Where the request is in what an ESI has to read.                          *)
LEMMA DondeElPedido ==
  LET m == "SOLICITUD_EJECUCION"
      b == "ENVIAR_BLOQUEO_ESI"
  IN /\ Donde(<<>>, m) = {} /\ Donde(<<b>>, m) = {} /\ Donde(<<"CONTINUA_ESI">>, m) = {}
     /\ Donde(<<m>>, m) = {1} /\ Donde(<<b, m>>, m) = {2}
BY DEF Donde

(* Only an ESI in its turn has a statement under way.                        *)
LEMMA EnCursoDeUno ==
  ASSUME NEW e \in ESIs
  PROVE  /\ Fuera(e) => Pedidas(e) \cup Enviadas(e) = {}
         /\ EnSuFase(e) =>
              \/ Respondida(e) /\ Pedidas(e) \cup Enviadas(e) = {}
              \/ Cerrando(e) /\ pc = "cierre" /\ Pedidas(e) \cup Enviadas(e) = {}
              \/ /\ Pedida(e) /\ pc = "continua"
                 /\ \E p : Pedidas(e) \cup Enviadas(e) = {<<"aEsi", p>>}
              \/ /\ EnviadaPorEsi(e) /\ pc = "continua"
                 /\ Pedidas(e) \cup Enviadas(e) = {<<"aCoord", 1>>}
              \/ /\ EnviadaAlPlan(e) /\ pc = "continua"
                 /\ Pedidas(e) \cup Enviadas(e) = {}
<1> DEFINE m == "SOLICITUD_EJECUCION"
           b == "ENVIAR_BLOQUEO_ESI"
<1>1. /\ aEsi[e] \in {<<>>, <<b>>, <<"CONTINUA_ESI">>} => Pedidas(e) = {}
      /\ aEsi[e] \in {<<m>>, <<b, m>>} => \E p : Pedidas(e) = {<<"aEsi", p>>}
  <2>1. \A p : {"aEsi"} \X {p} = {<<"aEsi", p>>}
    OBVIOUS
  <2>2. {"aEsi"} \X {} = {}
    OBVIOUS
  <2>3. Pedidas(e) = {"aEsi"} \X Donde(aEsi[e], m)
    BY DEF Pedidas
  <2>4. QED
    BY <2>1, <2>2, <2>3, DondeElPedido
<1>2. /\ aCoord[e] = <<>> => Enviadas(e) = {}
      /\ \A s : aCoord[e] = <<s>> => Enviadas(e) = {<<"aCoord", 1>>}
  <2>1. DOMAIN <<>> = {} /\ \A s : DOMAIN <<s>> = {1}
    OBVIOUS
  <2>2. QED
    BY <2>1 DEF Enviadas
<1>3. Fuera(e) => aCoord[e] = <<>> /\ aEsi[e] \in {<<>>, <<b>>}
  BY DEF Fuera, Nueva, Anunciada, Sigue, Ida, Callada
<1>4. Respondida(e) => aCoord[e] = <<>> /\ aEsi[e] \in {<<>>, <<b>>}
  BY DEF Respondida, Sigue, Callada
<1>5. Cerrando(e) => aCoord[e] = <<>> /\ aEsi[e] \in {<<>>, <<"CONTINUA_ESI">>}
  BY DEF Cerrando, Ida, Callada
<1>6. Pedida(e) => aCoord[e] = <<>> /\ aEsi[e] \in {<<m>>, <<b, m>>}
  BY DEF Pedida, Callada
<1>7. EnviadaPorEsi(e) => aCoord[e] = <<Sentencia(e)>> /\ aEsi[e] = <<>>
  BY DEF EnviadaPorEsi, EnCurso
<1>8. EnviadaAlPlan(e) => aCoord[e] = <<>> /\ aEsi[e] = <<>>
  BY DEF EnviadaAlPlan, EnCurso, Callada
<1> HIDE DEF m, b
<1>9. Fuera(e) => Pedidas(e) \cup Enviadas(e) = {}
  BY <1>1, <1>2, <1>3
<1>10. ASSUME EnSuFase(e)
       PROVE  \/ Respondida(e) \/ (Cerrando(e) /\ pc = "cierre")
              \/ pc = "continua" /\ (Pedida(e) \/ EnviadaPorEsi(e) \/ EnviadaAlPlan(e))
  BY <1>10 DEF EnSuFase
<1>11. /\ Respondida(e) \/ Cerrando(e) \/ EnviadaAlPlan(e) =>
            Pedidas(e) \cup Enviadas(e) = {}
       /\ Pedida(e) => \E p : Pedidas(e) \cup Enviadas(e) = {<<"aEsi", p>>}
       /\ EnviadaPorEsi(e) => Pedidas(e) \cup Enviadas(e) = {<<"aCoord", 1>>}
  BY <1>1, <1>2, <1>4, <1>5, <1>6, <1>7, <1>8
<1>12. QED
  BY <1>9, <1>10, <1>11

(***************************************************************************)
(* The protocol of the turn: from the request until the answer of the      *)
(* planner there is one statement, on the way to the ESI, to the           *)
(* coordinator or to the planner, and then the unit of continua that tells *)
(* it; out of the wait for continua there is none.                         *)
(***************************************************************************)
THEOREM TurnoSiempreUnico == ASSUME Supuestos PROVE Spec => []TurnoUnico
<1>1. Tipos /\ Turnos => TurnoUnico
  <2> SUFFICES ASSUME Tipos, Turnos PROVE TurnoUnico
    OBVIOUS
  <2> DEFINE suyas(e) == Pedidas(e) \cup Enviadas(e)
             delPlan == {Nada} \X ({"coordAPlan"} \X DOMAIN coordAPlan)
  <2>1. SentenciasEnCurso = (UNION {{e} \X suyas(e) : e \in ESIs}) \cup delPlan
    BY DEF SentenciasEnCurso
  <2>2. coordAPlan = <<>> => delPlan = {}
    <3>1. DOMAIN <<>> = {}
      OBVIOUS
    <3>2. QED
      BY <3>1
  <2>3. Turnos => Fases
    BY DEF Turnos
  <2> HIDE DEF suyas, delPlan
  <2>4. CASE EnTurno
    <3> PICK a \in ESIs : a = actual
      BY <2>3, <2>4, UnTurno
    <3>1. EnSuFase(a) /\ \A f \in ESIs \ {a} : suyas(f) = {}
      BY <2>3, <2>4, UnTurno, EnCursoDeUno DEF suyas
    <3>2. SentenciasEnCurso = ({a} \X suyas(a)) \cup delPlan
      <4>1. \A f \in ESIs \ {a} : {f} \X suyas(f) = {}
        <5>1. \A f : {f} \X {} = {}
          OBVIOUS
        <5>2. QED
          BY <3>1, <5>1
      <4>2. UNION {{e} \X suyas(e) : e \in ESIs} = {a} \X suyas(a)
        <5> DEFINE par(e) == {e} \X suyas(e)
        <5>1. \A f \in ESIs \ {a} : par(f) = {}
          BY <4>1
        <5> HIDE DEF par
        <5>2. UNION {par(e) : e \in ESIs} = par(a)
          BY <5>1
        <5>3. QED
          BY <5>2 DEF par
      <4>3. QED
        BY <2>1, <4>2
    <3>3. CASE Respondida(a) /\ suyas(a) = {}
      <4>1. SentenciasEnCurso = {}
        BY <2>2, <3>2, <3>3 DEF Respondida
      <4>2. continua = Uno(pc = "continua")
        BY <3>3 DEF Respondida
      <4>3. QED
        BY <4>1, <4>2, FS_EmptySet DEF TurnoUnico, Uno
    <3>4. CASE Cerrando(a) /\ pc = "cierre" /\ suyas(a) = {}
      <4>1. SentenciasEnCurso = {}
        BY <2>2, <3>2, <3>4 DEF Cerrando
      <4>2. QED
        BY <3>4, <4>1 DEF TurnoUnico
    <3>5. ASSUME pc = "continua", continua = 0, NEW x, SentenciasEnCurso = {x}
          PROVE  TurnoUnico
      BY <3>5, FS_Singleton DEF TurnoUnico
    <3>6. CASE Pedida(a) /\ pc = "continua" /\ \E p : suyas(a) = {<<"aEsi", p>>}
      <4>1. PICK x : suyas(a) = {x}
        BY <3>6
      <4>2. SentenciasEnCurso = {<<a, x>>}
        BY <2>2, <3>2, <3>6, <4>1 DEF Pedida
      <4>3. pc = "continua" /\ continua = 0
        BY <3>6 DEF Pedida
      <4>4. QED
        BY <3>5, <4>2, <4>3
    <3>7. CASE EnviadaPorEsi(a) /\ pc = "continua" /\ suyas(a) = {<<"aCoord", 1>>}
      <4>1. SentenciasEnCurso = {<<a, <<"aCoord", 1>>>>}
        BY <2>2, <3>2, <3>7 DEF EnviadaPorEsi
      <4>2. pc = "continua" /\ continua = 0
        BY <3>7 DEF EnviadaPorEsi, EnCurso
      <4>3. QED
        BY <3>5, <4>1, <4>2
    <3>8. CASE EnviadaAlPlan(a) /\ pc = "continua" /\ suyas(a) = {}
      <4>1. delPlan = {<<Nada, <<"coordAPlan", 1>>>>}
        <5>1. DOMAIN <<Sentencia(a)>> = {1}
          OBVIOUS
        <5>2. QED
          BY <3>8, <5>1 DEF EnviadaAlPlan, delPlan
      <4>2. SentenciasEnCurso = {<<Nada, <<"coordAPlan", 1>>>>}
        BY <3>2, <3>8, <4>1
      <4>3. pc = "continua" /\ continua = 0
        BY <3>8 DEF EnviadaAlPlan, EnCurso
      <4>4. QED
        BY <3>5, <4>2, <4>3
    <3>9. QED
      BY <3>1, <3>3, <3>4, <3>6, <3>7, <3>8, EnCursoDeUno DEF suyas
  <2>5. CASE ~EnTurno
    <3>1. \A f \in ESIs : suyas(f) = {}
      BY <2>3, <2>5, EnCursoDeUno DEF suyas, Fases, FaseDeCadaUno
    <3>2. coordAPlan = <<>> /\ pc # "continua"
      BY <2>3, <2>5 DEF Fases, FaseDeCadaUno, NadieEnTurno, EnTurno
    <3>3. SentenciasEnCurso = {}
      BY <2>1, <2>2, <3>1, <3>2
    <3>4. QED
      BY <3>2, <3>3 DEF TurnoUnico
  <2>6. QED
    BY <2>4, <2>5
<1>2. Bases => Tipos
  BY DEF Bases
<1>3. QED
  BY <1>1, <1>2, TurnosSiempre, PTL

-----------------------------------------------------------------------------
(* The SETs under way *)

(* The last statement of a script is a STORE.                                *)
GuionesCierran == \A g \in Guiones : g[Len(g)].op = "STORE"

(* A SET of k by e was taken by the coordinator and no instance has it yet.  *)
Escribe(e, k) ==
  \/ paso[e] \in {"esperaSET", "enviaSET"} /\ pedido[e].clave = k
  \/ \E i \in Instancias : \E p \in DOMAIN aInst[i] :
       aInst[i][p].tipo = "SET" /\ aInst[i][p].de = e /\ aInst[i][p].clave = k

(* The next packet that frees a key of e needs nothing more from e.          *)
Soltara(e) ==
  /\ e = actual /\ EnTurno /\ aCoord[e] = <<>>
  /\ termino \/ LlegaOp(coordAPlan, "STORE")

(* The key of a SET under way is held, and nothing that would free it can    *)
(* be read before the SET arrives.                                           *)
Escrituras ==
  \A e \in ESIs, k \in Claves : Escribe(e, k) => k \in tomadas[e] /\ ~Soltara(e)

-----------------------------------------------------------------------------
(* The request lock *)

(* Every STORE comes after a SET of its key by the same script.              *)
GuionesEscriben ==
  \A g \in Guiones : \A p \in DOMAIN g :
    g[p].op = "STORE" =>
      \E q \in 1..(p - 1) : g[q].op = "SET" /\ g[q].clave = g[p].clave

(* No instance evicts.                                                       *)
SinReemplazos == Reemplazan = {}

(* A SET of k is with the instance i, or its SET_OK is still to be read.     *)
EnCamino(i, k) ==
  \/ \E p \in DOMAIN aInst[i] : aInst[i][p].tipo = "SET" /\ aInst[i][p].clave = k
  \/ Hay(deInst[i], {"SET_OK"}) /\ trabajo[i].clave = k

(* A SET of k is under way, from the thread that took it on.                 *)
PorEscribir(k) ==
  \/ \E e \in ESIs : /\ paso[e] \in {"esperaSET", "enviaSET", "planificaKE"}
                     /\ pedido[e].clave = k
  \/ \E i \in Instancias : EnCamino(i, k)

(* The coordinator has k in the list of an instance.                         *)
Listada(k) == \E i \in Instancias : k \in Range(claves[i])

(* The coordinator has taken the statement p of e.                           *)
YaTomada(e, p) == p < ipAnterior[e] \/ (p < ipActual[e] /\ aCoord[e] = <<>>)

(* What an ESI has written is listed, or is going to be.                     *)
Escritas ==
  \A e \in ESIs : \A p \in DOMAIN guion[e] :
    YaTomada(e, p) /\ guion[e][p].op = "SET" =>
      Listada(guion[e][p].clave) \/ PorEscribir(guion[e][p].clave)

(* Every statement has an instance to go to, which is in the table.          *)
ConLugar ==
  /\ \A e \in ESIs : paso[e] \in {"enviaSET", "enviaSTORE"} => elegida[e] \in Range(tabla)
  /\ \A e \in ESIs : paso[e] = "esperaSTORE" => Listada(pedido[e].clave)
  /\ \A i \in Instancias : Ocupada(i) \/ claves[i] # <<>> => i \in Range(tabla)
  /\ \A i \in Instancias : \A p \in DOMAIN deInst[i] :
       deInst[i][p].tipo = "ENVIAR_CLAVE_ELIMINADA" => deInst[i][p].clave = trabajo[i].clave

(* The planner has refused nothing and cut nobody off.                       *)
Aceptadas ==
  /\ cortadas = {} /\ respuesta = TRUE /\ hiloPlan # "asignaFALSE"
  /\ \A p \in DOMAIN planACoord : planACoord[p].tipo \in {"SET_OK", "STORE_OK"}

(* The request lock is free, or a thread or an instance answers for it.      *)
HayDueno ==
  peticion > 0 \/ (\E e \in ESIs : paso[e] # "libre") \/ \E i \in Instancias : Ocupada(i)

-----------------------------------------------------------------------------
(* What changes a thread of the coordinator, a connection, and who lets go   *)

(* A thread of an ESI takes a statement, or waits, or sends it, or is free.  *)
LEMMA PasosDelHilo ==
  ASSUME Tipos, Vistas, NEW e \in ESIs, HiloDeEsi(e)
  PROVE  /\ \A f \in ESIs \ {e} : paso'[f] = paso[f] /\ pedido'[f] = pedido[f]
         /\ \/ paso'[e] = "libre"
            \/ TomaSET(e) /\ paso'[e] = "esperaSET" /\ pedido'[e] = Head(aCoord[e])
            \/ TomaSTORE(e) /\ paso'[e] = "esperaSTORE" /\ pedido'[e] = Head(aCoord[e])
            \/ /\ DecideSET(e) /\ paso'[e] \in {"planificaKE", "enviaSET"}
               /\ pedido'[e] = pedido[e]
            \/ DecideSTORE(e) /\ paso'[e] = "enviaSTORE" /\ pedido'[e] = pedido[e]
<1> USE DEF Tipos, TypeOK, CoordTypeOK
<1>1. CASE TomaGET(e) \/ TomaErrorTamanio(e)
  BY <1>1 DEF TomaGET, TomaErrorTamanio, varsCoord
<1>2. CASE TomaSET(e)
  <2>1. \/ UNCHANGED <<paso, pedido>> /\ paso[e] = "libre"
        \/ /\ paso' = [paso EXCEPT ![e] = "esperaSET"]
           /\ pedido' = [pedido EXCEPT ![e] = Head(aCoord[e])]
    BY <1>2 DEF TomaSET
  <2>2. QED
    BY <1>2, <2>1
<1>3. CASE TomaSTORE(e)
  BY <1>3 DEF TomaSTORE
<1>4. CASE DecideSET(e)
  <2>1. \/ \E q \in {"planificaKE", "enviaSET"} :
             paso' = [paso EXCEPT ![e] = q] /\ UNCHANGED pedido
        \/ LibreOtraVez(e)
    BY <1>4, Zenon DEF DecideSET
  <2>2. QED
    BY <1>4, <2>1 DEF LibreOtraVez
<1>5. CASE DecideSTORE(e)
  <2>1. \/ paso' = [paso EXCEPT ![e] = "enviaSTORE"] /\ UNCHANGED pedido
        \/ LibreOtraVez(e)
    BY <1>5, Zenon DEF DecideSTORE
  <2>2. QED
    BY <1>5, <2>1 DEF LibreOtraVez
<1>6. CASE EnviaAInstancia(e)
  BY <1>6 DEF EnviaAInstancia, LibreOtraVez
<1>7. QED
  BY <1>1, <1>2, <1>3, <1>4, <1>5, <1>6, ConConexion DEF HiloDeEsi, PasoHiloEsi

(* What a thread of an ESI sends to the instance it chose.                   *)
PaqueteDe(e) == [tipo |-> pedido[e].op, clave |-> pedido[e].clave, de |-> e]

(* The instance takes its first packet, or gets one more.                    *)
LEMMA CambiosDeAInst ==
  ASSUME Tipos, Protocolo, Vistas, [Next]_vars, NEW i \in Instancias
  PROVE  \/ aInst'[i] = aInst[i]
         \/ aInst[i] # <<>> /\ aInst'[i] = Tail(aInst[i])
         \/ \E e \in ESIs : /\ EnviaAInstancia(e) /\ PaqueteDe(e) \in MensajesAInst
                            /\ aInst'[i] = Append(aInst[i], PaqueteDe(e))
<1>1. aInst \in [Instancias -> Seq(MensajesAInst)]
  BY DEF Tipos, TypeOK, CanalesTypeOK
<1>2. ASSUME NEW j \in Instancias, HiloDeInst(j) PROVE aInst' = aInst
  <2>1. RecibeSetOk(j) \/ RecibeStoreOk(j) \/ RecibeClaveEliminada(j)
    BY <1>2, NadieVieneNiVa, LlegaAlHilo
  <2>2. QED
    BY <2>1 DEF RecibeSetOk, RecibeStoreOk, RecibeClaveEliminada
<1>3. ASSUME NEW j \in Instancias, ProcesoInstancia(j)
      PROVE  aInst[j] # <<>> /\ aInst' = [aInst EXCEPT ![j] = Tail(@)]
  <2>1. ProcesarSet(j) \/ ProcesarStore(j)
    BY <1>3, NadieVieneNiVa, LlegaALaInstancia
  <2>2. QED
    BY <2>1 DEF ProcesarSet, ProcesarStore, LlegaPedido, Recibido
<1>4. ASSUME NEW j \in Instancias, EntornoInstancia(j) PROVE aInst' = aInst
  BY <1>4 DEF EntornoInstancia, ConectarInstancia, Dump, MatarInstancia, canales
<1>5. ASSUME NEW e \in ESIs, HiloDeEsi(e), ~EnviaAInstancia(e) PROVE aInst' = aInst
  BY <1>5, Zenon
  DEF HiloDeEsi, PasoHiloEsi, TomaGET, TomaSET, TomaSTORE, TomaErrorTamanio,
      DecideSET, DecideSTORE, EnviaSinConexion, canalesDeInst, canales
<1>6. ASSUME NEW e \in ESIs, EnviaAInstancia(e)
      PROVE  \/ aInst' = aInst
             \/ /\ PaqueteDe(e) \in MensajesAInst
                /\ aInst' = [aInst EXCEPT ![elegida[e]] = Append(@, PaqueteDe(e))]
  <2>1. pedido[e] \in [op : {"SET", "STORE"}, clave : Claves]
    BY <1>6 DEF EnviaAInstancia, Tipos, PedidosEnCurso
  <2>2. PaqueteDe(e) \in MensajesAInst
    BY <2>1 DEF MensajesAInst, PaqueteDe
  <2>3. QED
    BY <1>6, <2>2 DEF EnviaAInstancia, EnviadoA, Enviado, PaqueteDe
<1>7. CASE PasoAjeno
  BY <1>7, FueraDeLosEnlaces DEF varsProtocolo, varsEnlaces
<1>8. CASE \E j \in Instancias : PasoDeInstancia(j)
  BY <1>1, <1>2, <1>3, <1>4, <1>8 DEF PasoDeInstancia
<1>9. CASE \E e \in ESIs : HiloDeEsi(e)
  BY <1>1, <1>5, <1>6, <1>9
<1>10. QED
  BY <1>7, <1>8, <1>9 DEF Next, PasoDeEsi, PasoAjeno

-----------------------------------------------------------------------------
(* A SET is written while its key is held *)

(* A SET is under way since the thread of its ESI took it.                   *)
LEMMA SoloUnSETEscribe ==
  ASSUME Tipos, Protocolo, Vistas, [Next]_vars, NEW e \in ESIs, NEW k \in Claves, Escribe(e, k)'
  PROVE  Escribe(e, k) \/ (TomaSET(e) /\ HiloDeEsi(e) /\ Head(aCoord[e]).clave = k)
<1>1. CASE paso'[e] \in {"esperaSET", "enviaSET"} /\ pedido'[e].clave = k
  <2>1. CASE UNCHANGED <<paso, pedido, elegida, sistema>>
    BY <1>1, <2>1 DEF Escribe
  <2>2. CASE HiloDeEsi(e)
    <3>1. \/ TomaSET(e) /\ pedido'[e] = Head(aCoord[e])
          \/ DecideSET(e) /\ pedido'[e] = pedido[e]
      BY <1>1, <2>2, PasosDelHilo
    <3>2. DecideSET(e) => paso[e] = "esperaSET"
      BY DEF DecideSET
    <3>3. QED
      BY <1>1, <2>2, <3>1, <3>2 DEF Escribe
  <2>3. ASSUME NEW f \in ESIs \ {e}, HiloDeEsi(f)
        PROVE  paso'[e] = paso[e] /\ pedido'[e] = pedido[e]
    BY <2>3, PasosDelHilo
  <2>4. QED
    BY <1>1, <2>1, <2>2, <2>3, PedidosQuietos DEF Escribe
<1>2. ASSUME NEW i \in Instancias, NEW p \in DOMAIN aInst'[i],
             aInst'[i][p].tipo = "SET", aInst'[i][p].de = e, aInst'[i][p].clave = k
      PROVE  Escribe(e, k)
  <2> DEFINE a == aInst[i]
             b == aInst'[i]
             x == b[p]
  <2>1. a \in Seq(MensajesAInst)
    BY TiposDeEnlace
  <2>2. CASE \E q \in DOMAIN a : a[q] = x
    BY <1>2, <2>2 DEF Escribe
  <2>3. CASE b = a
    BY <2>2, <2>3
  <2>4. CASE a # <<>> /\ b = Tail(a)
    <3>1. p + 1 \in DOMAIN a /\ x = a[p + 1]
      BY <2>1, <2>4, SinElPrimero
    <3>2. QED
      BY <2>2, <3>1
  <2>6. ASSUME NEW m \in MensajesAInst, b = Append(a, m)
        PROVE  x = m \/ \E q \in DOMAIN a : a[q] = x
    BY <2>1, <2>6, ConUnoAlFinal
  <2>7. ASSUME NEW f \in ESIs, EnviaAInstancia(f), x = PaqueteDe(f)
        PROVE  Escribe(e, k)
    <3>1. f = e /\ pedido[f].op = "SET" /\ pedido[f].clave = k
      BY <1>2, <2>7 DEF PaqueteDe
    <3>2. paso[f] = "enviaSET"
      BY <2>7, <3>1 DEF EnviaAInstancia, Protocolo, PedidoDelPaso
    <3>3. QED
      BY <3>1, <3>2 DEF Escribe
  <2> HIDE DEF a, b, x
  <2>9. \/ b = a \/ (a # <<>> /\ b = Tail(a))
        \/ \E f \in ESIs : /\ EnviaAInstancia(f) /\ PaqueteDe(f) \in MensajesAInst
                           /\ b = Append(a, PaqueteDe(f))
    BY CambiosDeAInst DEF a, b
  <2>10. QED
    BY <2>2, <2>3, <2>4, <2>6, <2>7, <2>9
<1>3. QED
  BY <1>1, <1>2 DEF Escribe

(* A key is let go by the STORE of the ESI in its turn, or when that ESI     *)
(* ends: it has nothing on the way to the coordinator.                       *)
LEMMA QuienSuelta ==
  ASSUME GuionesBien, Tipos, Fases, [Next]_vars,
         NEW e \in ESIs, NEW k \in tomadas[e], k \notin tomadas'[e]
  PROVE  Soltara(e)
<1>1. tomadas \in [Nombres -> SUBSET Claves] /\ e \in Nombres
  BY DEF Tipos, TypeOK, PlanTypeOK, Nombres
<1>2. ~RecibeGET
  <2>1. RecibeGET => \/ tomadas' = tomadas
                     \/ \E n, l : tomadas' = [tomadas EXCEPT ![n] = @ \cup {l}]
    BY Zenon DEF RecibeGET
  <2>2. QED
    BY <1>1, <2>1
<1>3. ~RecibeError
  BY LlegaLaSentencia DEF RecibeError, LlegaOp, Operaciones
<1>4. ~RecibeSET
  <2>1. SUFFICES ASSUME RecibeSET PROVE FALSE
    OBVIOUS
  <2>2. coordAPlan # <<>> /\ Head(coordAPlan).op = "SET"
    BY <2>1 DEF RecibeSET, LlegaOp
  <2>3. NombresLeidos = {actual} /\ TieneClave(Head(coordAPlan).clave, actual)
    BY <2>2, LlegaLaSentencia DEF TieneClave
  <2>4. tomadas' = tomadas
    BY <2>1, <2>3 DEF RecibeSET
  <2>5. QED
    BY <2>4
<1>5. CASE RecibeSTORE
  <2>1. coordAPlan # <<>> /\ Head(coordAPlan).op = "STORE"
    BY <1>5 DEF RecibeSTORE, LlegaOp
  <2>2. /\ NombresLeidos = {actual} /\ TieneClave(Head(coordAPlan).clave, actual)
        /\ EnTurno /\ aCoord[actual] = <<>>
    BY <2>1, LlegaLaSentencia DEF TieneClave, EnviadaAlPlan, Callada
  <2>3. tomadas' = ClaveLiberada(actual, Head(coordAPlan).clave)
    BY <1>5, <2>2 DEF RecibeSTORE
  <2>4. e = actual
    BY <1>1, <2>3 DEF ClaveLiberada
  <2>5. QED
    BY <2>1, <2>2, <2>4 DEF Soltara, LlegaOp
<1>6. ASSUME NEW f \in ESIs, DesconectaESI(f) PROVE Soltara(e)
  <2>1. f = actual /\ EnTurno /\ Cerrando(f)
    BY <1>6, LoQueLlegaDeUno DEF DesconectaESI, Llega
  <2>2. NombresLeidos = {f} /\ FinDelActual
    BY <2>1, UnTurno DEF Cerrando, FinDelActual
  <2>3. tomadas' = SinClaves(f)
    BY <1>6, <2>2 DEF DesconectaESI
  <2>4. e = f
    BY <1>1, <2>3 DEF SinClaves
  <2>5. QED
    BY <2>1, <2>4 DEF Soltara, Cerrando
<1>7. ~Bloquea
  BY Zenon DEF Bloquea
<1>8. CambiaTablas
  BY TablasQuietas
<1>9. QED
  BY <1>2, <1>3, <1>4, <1>5, <1>6, <1>7, <1>8, NadieLibera DEF CambiaTablas

(* Only when the coordinator takes its statement comes an ESI to have        *)
(* nothing more on the way to it.                                            *)
LEMMA EmpiezaASoltar ==
  ASSUME GuionesBien, Tipos, Fases, Registradas, TablaDisponible, [Next]_vars,
         NEW e \in ESIs, Soltara(e)'
  PROVE  Soltara(e) \/ (HiloDeEsi(e) /\ (TomaGET(e) \/ TomaSET(e) \/ TomaSTORE(e)))
<1>1. ASSUME aCoord'[e] = <<>> => aCoord[e] = <<>>,
             coordAPlan' = coordAPlan \/ coordAPlan' = <<>>,
             termino' => termino, EnTurno /\ EnTurno' => actual' = actual
      PROVE  Soltara(e)
  <2>1. /\ e = actual' /\ EnTurno' /\ aCoord[e] = <<>>
        /\ termino \/ LlegaOp(coordAPlan, "STORE")
    BY <1>1 DEF Soltara, LlegaOp
  <2>2. EnTurno
    BY <2>1 DEF Fases, FaseDeCadaUno, NadieEnTurno, LlegaOp
  <2>3. QED
    BY <1>1, <2>1, <2>2 DEF Soltara
<1>2. CASE HiloAlgoritmos
  <2>1. UNCHANGED <<aCoord, coordAPlan>>
    BY <1>2, Zenon
    DEF HiloAlgoritmos, PasoAlgoritmos, TomaEntrada, Elige, Pide, EsperaContinua,
        Sale, Bloquea, Despide, Desaloja, DejaBloqueado, Cierra, canalesSinAEsi, canales
  <2>2. termino' = termino \/ termino' = FALSE
    BY <1>2, Zenon
    DEF HiloAlgoritmos, PasoAlgoritmos, TomaEntrada, Elige, Pide, EsperaContinua,
        Sale, Bloquea, Despide, Desaloja, DejaBloqueado, Cierra, flags
  <2>3. actual' = actual \/ pc = "elige"
    BY <1>2, Zenon
    DEF HiloAlgoritmos, PasoAlgoritmos, TomaEntrada, Elige, Pide, EsperaContinua,
        Sale, Bloquea, Despide, Desaloja, DejaBloqueado, Cierra
  <2>4. QED
    BY <1>1, <2>1, <2>2, <2>3 DEF EnTurno
<1>3. CASE HiloCoordinador
  <2>1. /\ coordAPlan # <<>> /\ coordAPlan' = Tail(coordAPlan)
        /\ UNCHANGED <<aCoord, termino, actual>>
    BY <1>3
    DEF HiloCoordinador, PasoCoordinador, RecibeGET, RecibeSET, RecibeSTORE,
        RecibeError,
        LlegaOp
  <2>2. coordAPlan' = <<>>
    BY <2>1, LlegaLaSentencia
  <2>3. QED
    BY <1>1, <2>1, <2>2
<1>4. ASSUME NEW f \in ESIs, HiloServidor(f) PROVE Soltara(e)
  <2>1. UNCHANGED <<aCoord, coordAPlan, actual, pc>>
    BY <1>4, NadieLibera
    DEF HiloServidor, PasoServidor, RecibeNombre, RecibeTermino, DesconectaESI
  <2>2. CASE termino' = termino
    BY <1>1, <2>1, <2>2
  <2>3. CASE RecibeTermino(f)
    <3>1. f = actual /\ aCoord[f] # <<>>
      BY <2>3, LoQueLlegaDeUno, Colas DEF RecibeTermino, Llega, EnviadaPorEsi
    <3>2. QED
      BY <2>1, <3>1 DEF Soltara
  <2>4. QED
    BY <1>4, <2>2, <2>3, NadieLibera
    DEF HiloServidor, PasoServidor, RecibeNombre, DesconectaESI, flags
<1>5. ASSUME NEW f \in ESIs, ProcesoEsi(f) \/ MuereEsi(f) \/ EsiSinPlanificador(f)
      PROVE  Soltara(e)
  <2>1. UNCHANGED <<coordAPlan, termino, actual>>
    BY <1>5, Zenon
    DEF ProcesoEsi, MuereEsi, EsiSinPlanificador, PasoEsi, ConectarEsi, varsPlan, flags,
        ProcesarSolicitudEjecucion, ProcesarSolicitudAnterior,
        ProcesarRespuestaSolicitud, ProcesarError, Matar, conexionesAjenas
  <2>2. aCoord' = aCoord \/ \E s : aCoord' = [aCoord EXCEPT ![f] = Append(@, s)]
    <3>1. CASE ProcesarSolicitudEjecucion(f)
      BY <3>1, Zenon DEF ProcesarSolicitudEjecucion, Enviado
    <3>2. QED
      BY <1>5, <3>1, Zenon
      DEF ProcesoEsi, MuereEsi, EsiSinPlanificador, PasoEsi, ConectarEsi,
          ProcesarSolicitudAnterior, ProcesarRespuestaSolicitud, ProcesarError, Matar
  <2>3. aCoord'[e] = <<>> => aCoord[e] = <<>>
    <3>1. aCoord \in [ESIs -> Seq(MensajesACoord)]
      BY DEF Tipos, TypeOK, CanalesTypeOK
    <3>2. \A s : Append(aCoord[f], s) # <<>>
      BY <3>1
    <3>3. QED
      BY <2>2, <3>1, <3>2
  <2>4. QED
    BY <1>1, <2>1, <2>3
<1>6. ASSUME NEW f \in ESIs, HiloDeEsi(f)
      PROVE  Soltara(e) \/ (f = e /\ (TomaGET(e) \/ TomaSET(e) \/ TomaSTORE(e)))
  <2>1. UNCHANGED <<termino, actual, pc>>
    BY <1>6 DEF HiloDeEsi, varsPlan, flags
  <2>2. CASE TomaGET(f) \/ TomaSET(f) \/ TomaSTORE(f)
    <3>1. aCoord[f] # <<>>
      BY <2>2 DEF TomaGET, TomaSET, TomaSTORE, LlegaOp
    <3>2. f = actual
      BY <3>1, SaleLaSentencia
    <3>3. f = e
      BY <2>1, <3>2 DEF Soltara
    <3>4. QED
      BY <2>2, <3>3
  <2>3. ~TomaErrorTamanio(f)
    BY SaleLaSentencia DEF TomaErrorTamanio, LlegaOp, Operaciones
  <2>4. CASE DecideSET(f) \/ DecideSTORE(f) \/ EnviaAInstancia(f) \/ EnviaSinConexion(f)
    BY <1>1, <2>1, <2>4, DecideEnSilencio
  <2>5. QED
    BY <1>6, <2>2, <2>3, <2>4 DEF HiloDeEsi, PasoHiloEsi
<1>7. CASE HiloDePlan \/ (\E i \in Instancias : PasoDeInstancia(i)) \/ UNCHANGED vars
  BY <1>1, <1>7, FueraDelTurno DEF varsPlan, flags
<1>8. QED
  BY <1>2, <1>3, <1>4, <1>5, <1>6, <1>7 DEF Next, PasoDeEsi

(* When the coordinator takes a statement no other one is under way.         *)
LEMMA NadaBajoEscritura ==
  ASSUME Tipos, Protocolo, NEW e \in ESIs, peticion > 0
  PROVE  \A f \in ESIs : \A k : ~Escribe(f, k)
<1>1. \A f \in ESIs : paso[f] = "libre"
  BY SuTurno
<1>2. \A i \in Instancias : ~Hay(aInst[i], DeSentencia)
  BY SuTurno DEF Ocupada, Ocupa
<1>3. QED
  BY <1>1, <1>2 DEF Escribe, Hay, DeSentencia

(* A SET under way keeps its key, if no script ends with one.                *)
LEMMA EscriturasNext ==
  ASSUME GuionesBien, GuionesCierran, Tipos, Protocolo, Vistas, Fases, Fases',
         Registradas, TablaDisponible, Escrituras, [Next]_vars
  PROVE  Escrituras'
<1> SUFFICES ASSUME NEW e \in ESIs, NEW k \in Claves, Escribe(e, k)'
             PROVE  k \in tomadas'[e] /\ ~Soltara(e)'
  BY DEF Escrituras
<1>1. CASE Escribe(e, k)
  <2>1. k \in tomadas[e] /\ ~Soltara(e)
    BY <1>1 DEF Escrituras
  <2>2. k \in tomadas'[e]
    BY <2>1, QuienSuelta
  <2>3. ~(TomaGET(e) \/ TomaSET(e) \/ TomaSTORE(e))
    BY <1>1, NadaBajoEscritura DEF TomaGET, TomaSET, TomaSTORE, TrasRetardo
  <2>4. ~Soltara(e)'
    BY <2>1, <2>3, EmpiezaASoltar
  <2>5. QED
    BY <2>2, <2>4
<1>2. CASE TomaSET(e) /\ HiloDeEsi(e) /\ Head(aCoord[e]).clave = k
  <2>1. aCoord[e] # <<>> /\ Head(aCoord[e]).op = "SET"
    BY <1>2 DEF TomaSET, LlegaOp
  <2>2. /\ e = actual /\ EnTurno /\ pc = "continua"
        /\ Head(aCoord[e]) = Sentencia(e) /\ coordAPlan = <<>>
        /\ k \in tomadas[e] /\ EnCurso(e)
    BY <1>2, <2>1, SaleLaSentencia
  <2>3. UNCHANGED <<tomadas, termino, pc, actual, varsEsi>>
    BY <1>2 DEF HiloDeEsi, varsPlan, tablas, flags
  <2>4. coordAPlan' = <<Sentencia(e)>>
    <3>1. k \in sistema
      BY <2>2 DEF Registradas, Nombres
    <3>2. QED
      BY <1>2, <2>2, <3>1, Colas DEF TomaSET
  <2>5. ~Ultima(e)
    <3>1. guion[e] \in Guiones
      BY DEF Tipos, TypeOK, EsiTypeOK
    <3>2. QED
      BY <2>1, <2>2, <3>1 DEF GuionesCierran, Ultima, Sentencia
  <2>6. ~termino'
    <3>1. EnviadaAlPlan(e)'
      <4>1. EnSuFase(e)' /\ coordAPlan' # <<>>
        BY <2>2, <2>3, <2>4, Colas DEF Fases, FaseDeCadaUno, EnTurno
      <4>2. QED
        BY <4>1 DEF EnSuFase, Respondida, Pedida, EnviadaPorEsi, Cerrando
    <3>2. QED
      BY <2>3, <2>5, <3>1 DEF EnviadaAlPlan, Ultima, varsEsi
  <2>7. ~LlegaOp(coordAPlan', "STORE")
    BY <2>1, <2>2, <2>4, Colas DEF LlegaOp
  <2>8. QED
    BY <2>2, <2>3, <2>6, <2>7 DEF Soltara
<1>3. QED
  BY <1>1, <1>2, SoloUnSETEscribe

(***************************************************************************)
(* No write reaches an instance after its key was released: the SET that   *)
(* is on its way is of the ESI that holds the key, whatever the delays of  *)
(* the threads between the answer of the planner and the packet.  A script *)
(* that ended with a SET would release its keys before.                    *)
(***************************************************************************)
THEOREM EscrituraSiempreExclusiva ==
  ASSUME Supuestos, GuionesCierran PROVE Spec => []EscrituraExclusiva
<1>1. Init => Escrituras
  <2>1. SUFFICES ASSUME Init PROVE Escrituras
    OBVIOUS
  <2>2. /\ \A e \in ESIs : paso[e] = "libre"
        /\ \A i \in Instancias : aInst[i] = <<>>
    BY <2>1 DEF Init, CoordInit, CanalesInit
  <2>3. DOMAIN <<>> = {}
    OBVIOUS
  <2>4. QED
    BY <2>2, <2>3 DEF Escrituras, Escribe
<1>2. (Bases /\ Turnos) /\ (Bases /\ Turnos)' /\ Escrituras /\ [Next]_vars => Escrituras'
  BY EscriturasNext DEF Supuestos, Bases, Turnos
<1>3. Bases /\ Escrituras => EscrituraExclusiva
  <2> SUFFICES ASSUME Bases, Escrituras, NEW i \in Instancias, NEW p \in DOMAIN aInst[i],
                      aInst[i][p].tipo = "SET"
               PROVE  aInst[i][p].clave \in tomadas[aInst[i][p].de]
    BY DEF EscrituraExclusiva
  <2>1. aInst[i] \in Seq(MensajesAInst)
    BY TiposDeEnlace DEF Bases
  <2>2. aInst[i][p] \in MensajesAInst
    BY <2>1, ElementOfSeq, LenProperties
  <2>3. aInst[i][p].de \in ESIs /\ aInst[i][p].clave \in Claves
    BY <2>2 DEF MensajesAInst
  <2>4. Escribe(aInst[i][p].de, aInst[i][p].clave)
    BY DEF Escribe
  <2>5. QED
    BY <2>3, <2>4 DEF Escrituras
<1>4. QED
  BY <1>1, <1>2, <1>3, TurnosSiempre, PTL DEF Spec

(* What a step may do to the connection with i and to the keys listed.       *)
EnlaceIgual(i) ==
  /\ aInst'[i] = aInst[i] /\ deInst'[i] = deInst[i] /\ claves'[i] = claves[i]

SentenciaEnviada(i, e) ==
  /\ EnviaAInstancia(e) /\ elegida[e] = i /\ PaqueteDe(e) \in MensajesAInst
  /\ aInst'[i] = Append(aInst[i], PaqueteDe(e))
  /\ deInst'[i] = deInst[i] /\ claves'[i] = claves[i]

RespuestaLeida(i) ==
  /\ deInst[i] # <<>> /\ Head(deInst[i]).tipo \in DeRespuesta
  /\ deInst'[i] = Tail(deInst[i]) /\ aInst'[i] = aInst[i]
  /\ peticion' = peticion + 1
  /\ claves'[i] = IF Head(deInst[i]).tipo = "SET_OK"
                    THEN Append(claves[i], trabajo[i].clave) ELSE claves[i]

EliminadaLeida(i) ==
  /\ deInst[i] # <<>> /\ Head(deInst[i]).tipo = "ENVIAR_CLAVE_ELIMINADA"
  /\ deInst'[i] = Tail(deInst[i]) /\ aInst'[i] = aInst[i]
  /\ claves'[i] = RemoveFirst(claves[i], Head(deInst[i]).clave)

PedidoServido(i) ==
  /\ aInst[i] # <<>> /\ deInst[i] = <<>>
  /\ aInst'[i] = Tail(aInst[i]) /\ claves'[i] = claves[i]
  /\ \/ Head(aInst[i]).tipo = "STORE" /\ deInst'[i] = <<Mensaje("STORE_OK")>>
     \/ /\ Head(aInst[i]).tipo = "SET" /\ Hay(deInst'[i], {"SET_OK"})
        /\ \A p \in DOMAIN deInst'[i] :
             deInst'[i][p].tipo = "ENVIAR_CLAVE_ELIMINADA" =>
               deInst'[i][p].clave = Head(aInst[i]).clave

(* The thread of an instance reads one packet.                               *)
LEMMA EnlaceDelHilo ==
  ASSUME Tipos, Protocolo, Vistas, NEW i \in Instancias, HiloDeInst(i)
  PROVE  /\ RespuestaLeida(i) \/ EliminadaLeida(i)
         /\ \A j \in Instancias \ {i} : EnlaceIgual(j)
<1> USE DEF Tipos, TypeOK, CanalesTypeOK, CoordTypeOK
<1>1. ASSUME NEW t, LlegaTipo(i, t)
      PROVE  /\ deInst[i] # <<>> /\ Head(deInst[i]).tipo = t
             /\ deInst'[i] = Tail(deInst[i])
             /\ \A j \in Instancias \ {i} : deInst'[j] = deInst[j]
  BY <1>1, TomaElPrimero
<1>2. CASE RecibeSetOk(i)
  <2>1. LlegaTipo(i, "SET_OK") /\ trabajo[i] # SinTrabajo
    <3>1. LlegaTipo(i, "SET_OK")
      BY <1>2 DEF RecibeSetOk
    <3>2. 1 \in DOMAIN deInst[i] /\ deInst[i][1].tipo = "SET_OK"
      <4> DEFINE d == deInst[i]
      <4>1. d # <<>> /\ Head(d).tipo = "SET_OK"
        BY <1>1, <3>1
      <4>2. d \in Seq(MensajesDeInst)
        BY TiposDeEnlace
      <4> HIDE DEF d
      <4>3. 1 \in DOMAIN d /\ d[1] = Head(d)
        BY <4>1, <4>2, SinElPrimero
      <4>4. QED
        BY <4>1, <4>3 DEF d
    <3>3. Hay(deInst[i], {"SET_OK"})
      BY <3>2 DEF Hay
    <3>4. trabajo[i].clave \in Claves
      BY <3>3 DEF Protocolo, Enlace, EnlaceEnOrden, TrabajoBien
    <3>5. QED
      BY <3>1, <3>4, NadaAssumption DEF SinTrabajo
  <2>2. /\ claves' = [claves EXCEPT ![i] = Append(@, trabajo[i].clave)]
        /\ peticion' = peticion + 1 /\ UNCHANGED aInst
    BY <1>2, <2>1 DEF RecibeSetOk, ClaveAgregada, SueltaPeticion
  <2>3. /\ claves'[i] = Append(claves[i], trabajo[i].clave)
        /\ \A j \in Instancias \ {i} : claves'[j] = claves[j]
    BY <2>2
  <2>4. QED
    BY <1>1, <2>1, <2>2, <2>3 DEF RespuestaLeida, EnlaceIgual, DeRespuesta
<1>3. CASE RecibeStoreOk(i)
  <2>1. /\ LlegaTipo(i, "STORE_OK") /\ peticion' = peticion + 1
        /\ UNCHANGED <<aInst, claves>>
    BY <1>3 DEF RecibeStoreOk, SueltaPeticion, varsTabla
  <2>2. Head(deInst[i]).tipo # "SET_OK"
    BY <1>1, <2>1
  <2>3. QED
    BY <1>1, <2>1, <2>2 DEF RespuestaLeida, EnlaceIgual, DeRespuesta
<1>4. CASE RecibeClaveEliminada(i)
  <2>1. /\ LlegaTipo(i, "ENVIAR_CLAVE_ELIMINADA") /\ UNCHANGED aInst
        /\ claves' = [claves EXCEPT ![i] = RemoveFirst(@, Head(deInst[i]).clave)]
    BY <1>4 DEF RecibeClaveEliminada, ClaveQuitada
  <2>2. /\ claves'[i] = RemoveFirst(claves[i], Head(deInst[i]).clave)
        /\ \A j \in Instancias \ {i} : claves'[j] = claves[j]
    BY <2>1
  <2>3. QED
    BY <2>1, <2>2, TomaElPrimero DEF EliminadaLeida, EnlaceIgual
<1>5. QED
  BY <1>2, <1>3, <1>4, NadieVieneNiVa, LlegaAlHilo

(* When nothing is evicted a SET takes off the old value of its key only.    *)
LEMMA SoloAvisaLaSuya ==
  ASSUME Tipos, SinCompactaciones, SinReemplazos, NEW i \in Instancias, ProcesarSet(i)
  PROVE  \E ms \in Seq(MensajesDeInst) :
           /\ Contesta(i, ms) /\ Hay(ms, {"SET_OK"})
           /\ \A p \in DOMAIN ms : ms[p].tipo = "ENVIAR_CLAVE_ELIMINADA" =>
                ms[p].clave = Head(aInst[i]).clave
<1> DEFINE k == Head(aInst[i]).clave
           c == contenido[i]
<1>1. PICK quedan \in SUBSET c, ms \in Seq(MensajesDeInst) :
        /\ k \notin quedan /\ RespuestaDeSet(ms, c, quedan)
        /\ contenido' = [contenido EXCEPT ![i] = quedan \cup {k}]
        /\ Contesta(i, ms)
  BY HaceSet
<1>2. contenido' = [contenido EXCEPT ![i] = (c \ {k}) \cup {k}]
  <2>1. PICK victimas \in SetToAllKPermutations({}) :
          contenido' = [contenido EXCEPT ![i] = (c \ (Range(victimas) \cup {k})) \cup {k}]
    BY DEF ProcesarSet, SinCompactaciones, SinReemplazos
  <2>2. PICK S \in SUBSET {} : victimas \in [1..Cardinality(S) -> S]
    BY <2>1 DEF SetToAllKPermutations, SetToSeqs
  <2>3. Range(victimas) = {}
    BY <2>2 DEF Range
  <2>4. QED
    BY <2>1, <2>3
<1> HIDE DEF k
<1>3. quedan = c \ {k}
  <2>1. contenido \in [Instancias -> SUBSET Claves]
    BY DEF Tipos, TypeOK, InstTypeOK
  <2>2. quedan \cup {k} = (c \ {k}) \cup {k}
    BY <1>1, <1>2, <2>1
  <2>3. QED
    BY <1>1, <2>2
<1>4. \A p \in DOMAIN ms : p = Len(ms) \/ ms[p] = Eliminada(k)
  BY <1>1, <1>3 DEF RespuestaDeSet
<1>5. Len(ms) \in DOMAIN ms /\ ms[Len(ms)] = Mensaje("SET_OK")
  BY <1>1 DEF RespuestaDeSet
<1>6. Hay(ms, {"SET_OK"})
  BY <1>5 DEF Hay, Mensaje
<1>7. \A p \in DOMAIN ms : ms[p].tipo = "ENVIAR_CLAVE_ELIMINADA" => ms[p].clave = k
  BY <1>4, <1>5 DEF Mensaje, Eliminada
<1>8. QED
  BY <1>1, <1>6, <1>7 DEF k

(* An instance serves one packet, having answered the others.                *)
LEMMA EnlaceDelProceso ==
  ASSUME Tipos, SinCompactaciones, SinReemplazos, Protocolo, Vistas,
         NEW i \in Instancias, ProcesoInstancia(i)
  PROVE  PedidoServido(i) /\ \A j \in Instancias \ {i} : EnlaceIgual(j)
<1>1. UNCHANGED claves /\ Enlace(i) /\ Vista(i) /\ i \in listas
  BY DEF ProcesoInstancia, varsCoord, Protocolo, Vistas, EnVista, Conectadas
<1>2. ASSUME NEW t, LlegaPedido(i, t)
      PROVE  /\ aInst[i] # <<>> /\ Head(aInst[i]).tipo = t /\ aInst'[i] = Tail(aInst[i])
             /\ \A j \in Instancias \ {i} : aInst'[j] = aInst[j]
             /\ deInst[i] = <<>>
  BY <1>1, <1>2, TomaElPedido, NadaPendiente
<1>4. CASE ProcesarSet(i)
  <2>1. LlegaPedido(i, "SET")
    BY <1>4 DEF ProcesarSet
  <2>2. PICK ms \in Seq(MensajesDeInst) :
          /\ Contesta(i, ms) /\ Hay(ms, {"SET_OK"})
          /\ \A p \in DOMAIN ms : ms[p].tipo = "ENVIAR_CLAVE_ELIMINADA" =>
               ms[p].clave = Head(aInst[i]).clave
    BY <1>4, SoloAvisaLaSuya
  <2>3. deInst'[i] = ms /\ \A j \in Instancias \ {i} : deInst'[j] = deInst[j]
    BY <1>2, <2>1, <2>2, ContestaEn, ContestaTrasNada
  <2>4. QED
    BY <1>1, <1>2, <2>1, <2>2, <2>3 DEF PedidoServido, EnlaceIgual
<1>5. CASE ProcesarStore(i)
  <2>1. LlegaPedido(i, "STORE")
    BY <1>5, Zenon DEF ProcesarStore
  <2>2. Head(aInst[i]).clave \in contenido[i]
    <3>1. 1 \in DOMAIN aInst[i] /\ aInst[i][1] = Head(aInst[i])
      BY <1>2, <2>1, TiposDeEnlace, SinElPrimero
    <3>2. QED
      BY <1>1, <1>2, <2>1, <3>1 DEF Vista, VistaDe
  <2>3. Contesta(i, <<Mensaje("STORE_OK")>>)
    BY <1>5, <2>2 DEF ProcesarStore
  <2>4. <<Mensaje("STORE_OK")>> \in Seq(MensajesDeInst)
    BY DEF Mensaje, MensajesDeInst
  <2>5. /\ deInst'[i] = <<Mensaje("STORE_OK")>>
        /\ \A j \in Instancias \ {i} : deInst'[j] = deInst[j]
    BY <1>2, <2>1, <2>3, <2>4, ContestaEn, ContestaTrasNada
  <2>6. QED
    BY <1>1, <1>2, <2>1, <2>5 DEF PedidoServido, EnlaceIgual
<1>6. QED
  BY <1>4, <1>5, NadieVieneNiVa, LlegaALaInstancia

(* Otherwise it only dumps.                                                  *)
LEMMA EnlaceDelEntorno ==
  ASSUME Tipos, Protocolo, Vistas, NadieMata, NEW i \in Instancias, EntornoInstancia(i)
  PROVE  \A j \in Instancias : EnlaceIgual(j)
<1>1. UNCHANGED claves
  BY DEF EntornoInstancia, varsCoord
<1>3. CASE Dump(i)
  BY <1>1, <1>3 DEF Dump, canales, EnlaceIgual
<1>4. ~MatarInstancia(i)
  BY DEF MatarInstancia, NadieMata
<1>5. QED
  BY <1>3, <1>4, NadieVieneNiVa DEF EntornoInstancia

(* A statement is sent to the instance its thread chose, whose socket is     *)
(* open.                                                                     *)
LEMMA EnlaceAlEnviar ==
  ASSUME Tipos, TablaDisponible, ConLugar, Aceptadas, NEW e \in ESIs, EnviaAInstancia(e)
  PROVE  /\ elegida[e] \in Range(tabla) \cap Instancias
         /\ SentenciaEnviada(elegida[e], e)
         /\ \A j \in Instancias \ {elegida[e]} : EnlaceIgual(j)
<1>1. paso[e] \in {"enviaSET", "enviaSTORE"}
  BY DEF EnviaAInstancia
<1>2. elegida[e] \in Range(tabla) \cap Instancias
  BY <1>1 DEF ConLugar, Tipos, PedidosEnCurso
<1> PICK i \in Instancias : i = elegida[e]
  BY <1>2
<1>3. disponible[i] /\ cortadas = {}
  BY <1>2 DEF TablaDisponible, Aceptadas
<1>4. PaqueteDe(e) \in MensajesAInst
  BY <1>1 DEF Tipos, PedidosEnCurso, PaqueteDe, MensajesAInst
<1>5. aInst' = [aInst EXCEPT ![i] = Append(@, PaqueteDe(e))]
  BY <1>3 DEF EnviaAInstancia, EnviadoA, Enviado, PaqueteDe
<1>6. UNCHANGED <<deInst, claves>>
  BY DEF EnviaAInstancia, varsTabla
<1>7. /\ aInst'[i] = Append(aInst[i], PaqueteDe(e))
      /\ \A j \in Instancias \ {i} : aInst'[j] = aInst[j]
  BY <1>5 DEF Tipos, TypeOK, CanalesTypeOK
<1>8. QED
  BY <1>2, <1>4, <1>6, <1>7 DEF SentenciaEnviada, EnlaceIgual

(* The steps of a connection, and only these.                                *)
LEMMA CambiosDeEnlace ==
  ASSUME SinCompactaciones, NadieMata, SinReemplazos, Tipos, Protocolo, Vistas,
         TablaDisponible, ConLugar, Aceptadas, [Next]_vars, NEW i \in Instancias
  PROVE  \/ EnlaceIgual(i) \/ RespuestaLeida(i) \/ EliminadaLeida(i) \/ PedidoServido(i)
         \/ \E e \in ESIs : HiloDeEsi(e) /\ SentenciaEnviada(i, e)
<1>1. CASE PasoAjeno
  BY <1>1, FueraDeLosEnlaces DEF varsProtocolo, varsEnlaces, EnlaceIgual
<1>2. ASSUME NEW j \in Instancias, PasoDeInstancia(j)
      PROVE  EnlaceIgual(i) \/ RespuestaLeida(i) \/ EliminadaLeida(i) \/ PedidoServido(i)
  <2>1. CASE HiloDeInst(j)
    BY <2>1, EnlaceDelHilo
  <2>2. CASE ProcesoInstancia(j)
    BY <2>2, EnlaceDelProceso
  <2>3. CASE EntornoInstancia(j)
    BY <2>3, EnlaceDelEntorno
  <2>4. QED
    BY <1>2, <2>1, <2>2, <2>3 DEF PasoDeInstancia
<1>3. ASSUME NEW e \in ESIs, HiloDeEsi(e)
      PROVE  EnlaceIgual(i) \/ SentenciaEnviada(i, e)
  <2>1. CASE EnviaAInstancia(e)
    BY <2>1, EnlaceAlEnviar
  <2>2. CASE ~EnviaAInstancia(e)
    <3>1. UNCHANGED <<aInst, deInst, claves>>
      BY <1>3, <2>2, Zenon
      DEF HiloDeEsi, PasoHiloEsi, TomaGET, TomaSET, TomaSTORE, TomaErrorTamanio,
          DecideSET, DecideSTORE, EnviaSinConexion, canalesDeInst, canales, varsTabla,
          varsCoord
    <3>2. QED
      BY <3>1 DEF EnlaceIgual
  <2>3. QED
    BY <2>1, <2>2
<1>4. QED
  BY <1>1, <1>2, <1>3 DEF Next, PasoDeEsi, PasoAjeno

-----------------------------------------------------------------------------
(* What the planner answers *)

(* The planner refuses nothing: every answer read, kept and on its way is an *)
(* acceptance.                                                               *)
LEMMA AceptadasNext ==
  ASSUME GuionesBien, Tipos, Protocolo, Vistas, Fases, Aceptadas, [Next]_vars
  PROVE  Aceptadas'
<1>1. planACoord \in Seq(MensajesPlanACoord)
  BY DEF Tipos, TypeOK, CanalesTypeOK
<1>2. ASSUME NEW m \in MensajesPlanACoord, m.tipo \in {"SET_OK", "STORE_OK"},
             planACoord' = Append(planACoord, m)
      PROVE  \A p \in DOMAIN planACoord' : planACoord'[p].tipo \in {"SET_OK", "STORE_OK"}
  BY <1>1, <1>2, ConUnoAlFinal DEF Aceptadas
<1>3. CASE HiloDePlan
  <2>1. UNCHANGED cortadas
    BY <1>3, SoloRespuestas, Zenon
    DEF HiloDePlan, PasoHiloPlan, RecibeRespuesta, AsignaRespuesta, varsPeticion
  <2>2. CASE RecibeRespuesta
    <3>1. /\ planACoord # <<>> /\ planACoord' = Tail(planACoord)
          /\ \/ /\ respuesta' = (Head(planACoord).tipo \in {"SET_OK", "STORE_OK"})
                /\ UNCHANGED hiloPlan
             \/ /\ hiloPlan' = IF Head(planACoord).tipo \in {"SET_OK", "STORE_OK"}
                                 THEN "asignaTRUE" ELSE "asignaFALSE"
                /\ UNCHANGED respuesta
      BY <2>2 DEF RecibeRespuesta
    <3>2. Head(planACoord).tipo \in {"SET_OK", "STORE_OK"}
      BY <1>1, <3>1, SinElPrimero DEF Aceptadas
    <3>3. respuesta' = TRUE /\ hiloPlan' # "asignaFALSE"
      BY <3>1, <3>2 DEF Aceptadas
    <3>4. \A p \in DOMAIN planACoord' : planACoord'[p].tipo \in {"SET_OK", "STORE_OK"}
      BY <1>1, <3>1, SinElPrimero DEF Aceptadas
    <3>5. QED
      BY <2>1, <3>3, <3>4 DEF Aceptadas
  <2>3. CASE AsignaRespuesta
    <3>1. hiloPlan = "asignaTRUE"
      BY <2>3 DEF AsignaRespuesta, Aceptadas, Tipos, TypeOK, CoordTypeOK
    <3>2. UNCHANGED planACoord /\ respuesta' = TRUE /\ hiloPlan' = "libre"
      BY <2>3, <3>1 DEF AsignaRespuesta, canales
    <3>3. QED
      BY <2>1, <3>2 DEF Aceptadas
  <2>4. QED
    BY <1>3, <2>2, <2>3, SoloRespuestas DEF HiloDePlan, PasoHiloPlan
<1>4. CASE HiloCoordinador
  <2>1. UNCHANGED <<cortadas, respuesta, hiloPlan>>
    BY <1>4 DEF HiloCoordinador, varsCoord, varsRespuesta
  <2>2. coordAPlan # <<>>
    BY <1>4
    DEF HiloCoordinador, PasoCoordinador, RecibeGET, RecibeSET, RecibeSTORE,
        RecibeError,
        LlegaOp
  <2>3. /\ NombresLeidos = {actual} /\ Head(coordAPlan).op \in Operaciones
        /\ Head(coordAPlan).op # "GET" => TieneClave(Head(coordAPlan).clave, actual)
    BY <2>2, LlegaLaSentencia DEF TieneClave
  <2>4. ~RecibeError
    BY <2>3 DEF RecibeError, LlegaOp, Operaciones
  <2>5. CASE RecibeGET
    <3>1. UNCHANGED planACoord
      BY <2>5, Zenon DEF RecibeGET
    <3>2. QED
      BY <2>1, <3>1 DEF Aceptadas
  <2>6. CASE RecibeSET
    <3>1. planACoord' = Append(planACoord, Mensaje("SET_OK"))
      BY <2>3, <2>6 DEF RecibeSET, LlegaOp
    <3>2. QED
      BY <1>2, <2>1, <3>1 DEF Mensaje, MensajesPlanACoord, RespuestasDelPlan, Aceptadas
  <2>7. CASE RecibeSTORE
    <3>1. planACoord' = Append(planACoord, Mensaje("STORE_OK"))
      BY <2>3, <2>7 DEF RecibeSTORE, LlegaOp
    <3>2. QED
      BY <1>2, <2>1, <3>1 DEF Mensaje, MensajesPlanACoord, RespuestasDelPlan, Aceptadas
  <2>8. QED
    BY <1>4, <2>4, <2>5, <2>6, <2>7 DEF HiloCoordinador, PasoCoordinador
<1>5. ASSUME NEW e \in ESIs, HiloDeEsi(e) PROVE Aceptadas'
  <2>1. UNCHANGED <<respuesta, hiloPlan, planACoord>>
    BY <1>5, Zenon
    DEF HiloDeEsi, PasoHiloEsi, TomaGET, TomaSET, TomaSTORE, TomaErrorTamanio,
        DecideSET, DecideSTORE, EnviaAInstancia, EnviaSinConexion, varsRespuesta,
        varsCoord, canalesDeInst, canales
  <2>2. cortadas' = cortadas \/ cortadas' = cortadas \ {e}
    BY <1>5, Zenon
    DEF HiloDeEsi, PasoHiloEsi, TomaGET, TomaSET, TomaSTORE, TomaErrorTamanio,
        DecideSET, DecideSTORE, EnviaAInstancia, EnviaSinConexion, varsCoord,
        varsPeticion, varsHiloEsi
  <2>3. QED
    BY <2>1, <2>2 DEF Aceptadas
<1>6. ASSUME NEW i \in Instancias, PasoDeInstancia(i) PROVE Aceptadas'
  <2>1. CASE HiloDeInst(i)
    <3>1. UNCHANGED <<cortadas, respuesta, hiloPlan, planACoord>>
      BY <2>1, NadieVieneNiVa, LlegaAlHilo, Zenon
      DEF RecibeSetOk, RecibeStoreOk, RecibeClaveEliminada, varsPeticion, varsRespuesta,
          canalesSinInst
    <3>2. QED
      BY <3>1 DEF Aceptadas
  <2>2. CASE ProcesoInstancia(i) \/ EntornoInstancia(i)
    <3>1. UNCHANGED <<cortadas, respuesta, hiloPlan>>
      BY <2>2 DEF ProcesoInstancia, EntornoInstancia, varsCoord
    <3>2. UNCHANGED planACoord
      BY <2>2, Zenon
      DEF ProcesoInstancia, EntornoInstancia, PasoInstancia, ConectarInstancia,
          ProcesarEnviarInfoInstancia, ProcesarSet, ProcesarSetDefinitivo,
          ProcesarStore, ProcesarCompactacion, ProcesarSolicitudValor,
          AtenderSinTablas, Dump, MatarInstancia, canalesDeOtros, canales
    <3>3. QED
      BY <3>1, <3>2 DEF Aceptadas
  <2>3. QED
    BY <1>6, <2>1, <2>2 DEF PasoDeInstancia
<1>7. ASSUME PasoAjeno, ~HiloDePlan, ~HiloCoordinador PROVE Aceptadas'
  <2>1. UNCHANGED varsCoord
    BY <1>7, Zenon
    DEF PasoAjeno, HiloAlgoritmos, HiloServidor, ProcesoEsi, MuereEsi,
        EsiSinPlanificador, vars
  <2>2. UNCHANGED planACoord
    <3>1. ASSUME HiloAlgoritmos PROVE UNCHANGED planACoord
      BY <3>1, Zenon
      DEF HiloAlgoritmos, PasoAlgoritmos, TomaEntrada, Elige, Pide, EsperaContinua,
          Sale, Bloquea, Despide, Desaloja, DejaBloqueado, Cierra, canalesSinAEsi,
          canales
    <3>2. ASSUME NEW e \in ESIs, HiloServidor(e) PROVE UNCHANGED planACoord
      BY <3>2, NadieLibera, Zenon
      DEF HiloServidor, PasoServidor, RecibeNombre, RecibeTermino, DesconectaESI
    <3>3. ASSUME NEW e \in ESIs, ProcesoEsi(e) \/ MuereEsi(e) \/ EsiSinPlanificador(e)
          PROVE  UNCHANGED planACoord
      BY <3>3, Zenon
      DEF ProcesoEsi, MuereEsi, EsiSinPlanificador, PasoEsi, ConectarEsi,
          ProcesarSolicitudEjecucion, ProcesarSolicitudAnterior,
          ProcesarRespuestaSolicitud, ProcesarError, Matar, conexionesAjenas
    <3>4. QED
      BY <1>7, <3>1, <3>2, <3>3, Zenon DEF PasoAjeno, vars, canales
  <2>3. QED
    BY <2>1, <2>2 DEF varsCoord, Aceptadas
<1>8. QED
  BY <1>3, <1>4, <1>5, <1>6, <1>7 DEF Next, PasoDeEsi, PasoAjeno

(* The instance the tables give for a key is one of the table.               *)
LEMMA InstanciaDeLaTabla ==
  ASSUME Tipos, TablaDisponible, NEW k
  PROVE  /\ InstanciaParaSET(k) \in Range(tabla) \cup {Nada}
         /\ Duena(k) \in Range(tabla) \cup {Nada}
         /\ PrimeraDe(tabla, ConClave(k)) \in Range(tabla) \cup {Nada}
<1>1. Disponibles = Range(tabla) /\ uso \in Seq(Instancias) /\ tabla \in Seq(Instancias)
  <2>1. Range(tabla) \subseteq Instancias
    BY RangeOfSeq DEF Tipos, TypeOK, CoordTypeOK
  <2>2. QED
    BY <2>1 DEF Disponibles, TablaDisponible, Tipos, TypeOK, CoordTypeOK
<1>2. \A S : /\ PrimeraDe(tabla, S) \in Range(tabla) \cup {Nada}
             /\ UltimaDe(tabla, S) \in Range(tabla) \cup {Nada}
  BY <1>1, EstaEnLaTabla
<1>3. PrimeraDe(uso, Disponibles) \in Range(tabla) \cup {Nada}
  BY <1>1, PrimeraDeEsUna
<1>4. TraerUltimaInstanciaUsada \in Range(tabla) \cup {Nada}
  <2> DEFINE nueva == UltimaDe(tabla, Disponibles \ Range(uso))
  <2>1. nueva \in Range(tabla) \cup {Nada}
    BY <1>2
  <2> HIDE DEF nueva
  <2>2. TraerUltimaInstanciaUsada = IF nueva # Nada THEN nueva ELSE PrimeraDe(uso, Disponibles)
    BY DEF TraerUltimaInstanciaUsada, nueva
  <2>3. QED
    BY <1>3, <2>1, <2>2
<1>5. TraerInstanciaMasEspacioDisponible \in Range(tabla) \cup {Nada}
  BY <1>2 DEF TraerInstanciaMasEspacioDisponible
<1>6. Duena(k) \in Range(tabla) \cup {Nada}
  BY <1>2 DEF Duena
<1>7. PlanificarInstancia \in Range(tabla) \cup {Nada}
  BY <1>4, <1>5, AlgoritmoAssumption DEF PlanificarInstancia
<1>8. QED
  BY <1>2, <1>6, <1>7 DEF InstanciaParaSET

(* The thread of an ESI never gives a statement up: what it takes it waits   *)
(* with, decides and sends.                                                  *)
LEMMA HiloSinVueltas ==
  ASSUME GuionesBien, Tipos, Fases, Registradas, TablaDisponible, ConLugar, Aceptadas,
         NEW e \in ESIs, HiloDeEsi(e)
  PROVE  /\ \A f \in ESIs \ {e} :
              paso'[f] = paso[f] /\ pedido'[f] = pedido[f] /\ elegida'[f] = elegida[f]
         /\ \/ paso'[e] = paso[e] /\ pedido'[e] = pedido[e] /\ elegida'[e] = elegida[e]
            \/ /\ paso[e] = "libre" /\ pedido'[e] = Head(aCoord[e])
               /\ \/ TomaSET(e) /\ paso'[e] = "esperaSET"
                  \/ TomaSTORE(e) /\ paso'[e] = "esperaSTORE"
            \/ /\ paso[e] = "esperaSET" /\ DecideSET(e) /\ pedido'[e] = pedido[e]
               /\ \/ paso'[e] = "planificaKE"
                  \/ paso'[e] = "enviaSET" /\ elegida'[e] \in Range(tabla)
            \/ /\ paso[e] = "esperaSTORE" /\ DecideSTORE(e) /\ pedido'[e] = pedido[e]
               /\ paso'[e] = "enviaSTORE" /\ elegida'[e] \in Range(tabla)
            \/ /\ paso[e] \in {"enviaSET", "enviaSTORE"} /\ EnviaAInstancia(e)
               /\ paso'[e] = "libre"
         /\ TomaSET(e) => paso'[e] = "esperaSET"
<1> USE DEF Tipos, TypeOK, CoordTypeOK
<1>1. CASE TomaGET(e) \/ TomaErrorTamanio(e)
  <2>1. UNCHANGED <<paso, pedido, elegida>> /\ ~TomaSET(e)
    BY <1>1 DEF TomaGET, TomaErrorTamanio, TomaSET, LlegaOp, varsCoord
  <2>2. QED
    BY <2>1
<1>2. CASE TomaSET(e)
  <2>1. aCoord[e] # <<>> /\ Head(aCoord[e]).op = "SET" /\ paso[e] = "libre"
    BY <1>2 DEF TomaSET, LlegaOp
  <2>2. Head(aCoord[e]).clave \in sistema
    BY <2>1, SaleLaSentencia DEF Registradas, Nombres
  <2>3. /\ paso' = [paso EXCEPT ![e] = "esperaSET"]
        /\ pedido' = [pedido EXCEPT ![e] = Head(aCoord[e])]
        /\ UNCHANGED elegida
    BY <1>2, <2>2 DEF TomaSET
  <2>4. QED
    BY <1>2, <2>1, <2>3
<1>3. CASE TomaSTORE(e)
  <2>1. /\ paso[e] = "libre" /\ ~TomaSET(e)
        /\ paso' = [paso EXCEPT ![e] = "esperaSTORE"]
        /\ pedido' = [pedido EXCEPT ![e] = Head(aCoord[e])]
        /\ UNCHANGED elegida
    BY <1>3 DEF TomaSTORE, TomaSET, LlegaOp
  <2>2. QED
    BY <1>3, <2>1
<1>4. CASE DecideSET(e)
  <2> DEFINE k == pedido[e].clave
             i == InstanciaParaSET(k)
  <2>1. Algoritmo # "KE" \/ Duena(k) # Nada => i # Nada
    BY HayInstancia
  <2>2. i \in Range(tabla) \cup {Nada}
    BY InstanciaDeLaTabla
  <2>3. respuesta = TRUE
    BY DEF Aceptadas
  <2>4. /\ paso[e] = "esperaSET" /\ ~TomaSET(e)
        /\ UNCHANGED pedido
        /\ \/ paso' = [paso EXCEPT ![e] = "planificaKE"] /\ UNCHANGED elegida
           \/ /\ paso' = [paso EXCEPT ![e] = "enviaSET"] /\ i # Nada
              /\ elegida' = [elegida EXCEPT ![e] = i]
    <3>1. paso[e] = "esperaSET" /\ ~TomaSET(e)
      BY <1>4 DEF DecideSET, TomaSET
    <3> HIDE DEF k, i
    <3>2. /\ UNCHANGED pedido
          /\ \/ paso' = [paso EXCEPT ![e] = "planificaKE"] /\ UNCHANGED elegida
             \/ /\ paso' = [paso EXCEPT ![e] = "enviaSET"] /\ i # Nada
                /\ elegida' = [elegida EXCEPT ![e] = i]
      BY <1>4, <2>1, <2>3, Zenon DEF DecideSET, k, i
    <3>3. QED
      BY <3>1, <3>2
  <2> HIDE DEF k, i
  <2>5. QED
    BY <1>4, <2>2, <2>4
<1>5. CASE DecideSTORE(e)
  <2> DEFINE k == pedido[e].clave
             i == IF Duena(k) # Nada THEN Duena(k) ELSE PrimeraDe(tabla, ConClave(k))
  <2>1. paso[e] = "esperaSTORE" /\ ~TomaSET(e) /\ respuesta = TRUE /\ k \in sistema
    BY <1>5 DEF DecideSTORE, TomaSET, Aceptadas, Registradas
  <2>2. PICK j \in Instancias : k \in Range(claves[j])
    BY <2>1 DEF ConLugar, Listada
  <2>3. j \in ConClave(k) \cap Range(tabla)
    <3>1. Range(<<>>) = {}
      BY DEF Range
    <3>2. claves[j] # <<>>
      BY <2>2, <3>1
    <3>3. QED
      BY <2>2, <3>2 DEF ConClave, ConLugar
  <2>4. i # Nada /\ i \in Range(tabla)
    BY <2>3, EstaEnLaTabla, InstanciaDeLaTabla
  <2>5. disponible[i]
    BY <2>4 DEF TablaDisponible
  <2> HIDE DEF k, i
  <2>6. /\ paso' = [paso EXCEPT ![e] = "enviaSTORE"]
        /\ elegida' = [elegida EXCEPT ![e] = i] /\ UNCHANGED pedido
    BY <1>5, <2>1, <2>4, <2>5, Zenon DEF DecideSTORE, k, i
  <2>7. QED
    BY <1>5, <2>1, <2>4, <2>6
<1>6. CASE EnviaAInstancia(e)
  <2>1. paso[e] \in {"enviaSET", "enviaSTORE"} /\ ~TomaSET(e) /\ LibreOtraVez(e)
    BY <1>6 DEF EnviaAInstancia, TomaSET
  <2>2. QED
    BY <1>6, <2>1 DEF LibreOtraVez
<1>7. CASE EnviaSinConexion(e)
  <2>1. UNCHANGED <<paso, pedido, elegida>> /\ ~TomaSET(e)
    BY <1>7 DEF EnviaSinConexion, TomaSET, varsPeticion, varsHiloEsi
  <2>2. QED
    BY <2>1
<1>8. QED
  BY <1>1, <1>2, <1>3, <1>4, <1>5, <1>6, <1>7 DEF HiloDeEsi, PasoHiloEsi

(* The job of an instance is recorded by the thread that chose it.           *)
LEMMA TrabajoQuieto ==
  ASSUME [Next]_vars
  PROVE  UNCHANGED trabajo \/ \E e \in ESIs : HiloDeEsi(e) /\ DecideSET(e)
<1>1. ASSUME NEW i \in Instancias, HiloDeInst(i) PROVE UNCHANGED trabajo
  BY <1>1, Zenon
  DEF HiloDeInst, PasoHiloInst, RecibeNombreInstancia, PresentaInstancia,
      RecibeSetOk, RecibeStoreOk,
      RecibeClaveEliminada, RecibeEspacioInsuficiente, BloqueaInstancia,
      CompactaInstancia, RecibeCompactar, RecibeSetDefinitivo, DesconectaInstancia,
      RecibeRespuestaValor, varsTabla, varsCoord
<1>2. ASSUME NEW e \in ESIs, HiloDeEsi(e), ~DecideSET(e) PROVE UNCHANGED trabajo
  BY <1>2, Zenon
  DEF HiloDeEsi, PasoHiloEsi, TomaGET, TomaSET, TomaSTORE, TomaErrorTamanio,
      DecideSTORE, EnviaAInstancia, EnviaSinConexion, varsTabla, varsCoord
<1>3. CASE HiloDePlan
  BY <1>3, Zenon
  DEF HiloDePlan, PasoHiloPlan, RecibeRespuesta, AsignaRespuesta, ProcesarStatus,
      varsTabla
<1>4. CASE UNCHANGED varsCoord
  BY <1>4 DEF varsCoord
<1>5. QED
  BY <1>1, <1>2, <1>3, <1>4, Zenon
  DEF Next, PasoDeEsi, PasoDeInstancia, HiloAlgoritmos, HiloCoordinador,
      HiloServidor, ProcesoEsi, MuereEsi, EsiSinPlanificador, ProcesoInstancia,
      EntornoInstancia, vars

(* The request lock is taken by the thread of an ESI, and stays free         *)
(* otherwise.                                                                *)
LEMMA PeticionQueda ==
  ASSUME Tipos, Protocolo, Vistas, [Next]_vars, peticion > 0
  PROVE  \/ peticion' > 0
         \/ \E e \in ESIs : HiloDeEsi(e) /\ (TomaSET(e) \/ TomaSTORE(e))
<1>1. peticion \in Nat
  BY DEF Tipos, TypeOK, CoordTypeOK
<1>2. ASSUME NEW i \in Instancias, HiloDeInst(i) PROVE peticion' > 0
  <2>1. peticion' = peticion \/ peticion' = peticion + 1
    BY <1>2, NadieVieneNiVa, LlegaAlHilo, Zenon
    DEF RecibeSetOk, RecibeStoreOk, RecibeClaveEliminada,
        SueltaPeticion
  <2>2. QED
    BY <1>1, <2>1
<1>3. ASSUME NEW e \in ESIs, HiloDeEsi(e), ~TomaSET(e), ~TomaSTORE(e)
      PROVE  UNCHANGED peticion
  BY <1>3, Zenon
  DEF HiloDeEsi, PasoHiloEsi, TomaGET, TomaErrorTamanio, DecideSET, DecideSTORE,
      EnviaAInstancia, EnviaSinConexion, varsCoord
<1>4. CASE HiloDePlan
  BY <1>4, Zenon
  DEF HiloDePlan, PasoHiloPlan, RecibeRespuesta, AsignaRespuesta, ProcesarStatus
<1>5. CASE UNCHANGED varsCoord
  BY <1>5 DEF varsCoord
<1>6. QED
  BY <1>2, <1>3, <1>4, <1>5, Zenon
  DEF Next, PasoDeEsi, PasoDeInstancia, HiloAlgoritmos, HiloCoordinador,
      HiloServidor, ProcesoEsi, MuereEsi, EsiSinPlanificador, ProcesoInstancia,
      EntornoInstancia, vars

-----------------------------------------------------------------------------
(* A key that was written *)

(* What is left of a queue when its first packet is read, or one more comes. *)
LEMMA QuedaEnLaCola ==
  ASSUME NEW M, NEW s \in Seq(M), NEW T
  PROVE  /\ s # <<>> /\ Hay(s, T) => Head(s).tipo \in T \/ Hay(Tail(s), T)
         /\ s # <<>> /\ Hay(Tail(s), T) => Hay(s, T)
         /\ \A m \in M : Hay(Append(s, m), T) <=> Hay(s, T) \/ m.tipo \in T
<1>1. ASSUME s # <<>>
      PROVE  /\ Hay(s, T) => Head(s).tipo \in T \/ Hay(Tail(s), T)
             /\ Hay(Tail(s), T) => Hay(s, T)
  <2>1. ASSUME NEW p \in DOMAIN s, s[p].tipo \in T
        PROVE  Head(s).tipo \in T \/ Hay(Tail(s), T)
    BY <1>1, <2>1, SinElPrimero DEF Hay
  <2>2. ASSUME NEW p \in DOMAIN Tail(s), Tail(s)[p].tipo \in T PROVE Hay(s, T)
    BY <1>1, <2>2, SinElPrimero DEF Hay
  <2>3. QED
    BY <2>1, <2>2 DEF Hay
<1>2. ASSUME NEW m \in M PROVE Hay(Append(s, m), T) <=> Hay(s, T) \/ m.tipo \in T
  <2> DEFINE t == Append(s, m)
  <2>1. /\ Len(t) \in DOMAIN t /\ t[Len(t)] = m
        /\ \A p \in DOMAIN s : p \in DOMAIN t /\ t[p] = s[p]
        /\ \A p \in DOMAIN t : p = Len(t) \/ (p \in DOMAIN s /\ t[p] = s[p])
    BY ConUnoAlFinal
  <2> HIDE DEF t
  <2>2. Hay(t, T) <=> Hay(s, T) \/ m.tipo \in T
    BY <2>1 DEF Hay
  <2>3. QED
    BY <2>2 DEF t
<1>3. QED
  BY <1>1, <1>2

(* The job of an instance does not change while a statement is in it.        *)
LEMMA TrabajoDeOcupada ==
  ASSUME Tipos, Protocolo, [Next]_vars, NEW i \in Instancias, Ocupada(i)
  PROVE  UNCHANGED trabajo
<1>1. ASSUME NEW e \in ESIs, DecideSET(e) PROVE FALSE
  <2>1. paso[e] # "libre"
    BY <1>1 DEF DecideSET
  <2>2. QED
    BY <2>1, SuTurno
<1>2. QED
  BY <1>1, TrabajoQuieto

(* A notice of a key taken off comes before the SET_OK of its instance.      *)
LEMMA AvisoConSetOk ==
  ASSUME Protocolo, NEW i \in Instancias, NEW p \in DOMAIN deInst[i],
         deInst[i][p].tipo = "ENVIAR_CLAVE_ELIMINADA"
  PROVE  Hay(deInst[i], {"SET_OK"}) /\ Ocupada(i)
<1>1. Hay(deInst[i], {"SET_OK"})
  BY DEF Protocolo, Enlace, EnlaceEnOrden, TrabajoBien, Hay
<1>2. QED
  BY <1>1 DEF Ocupada, Ocupa, Hay, DeRespuesta

(* An instance with a SET under way has a statement.                         *)
LEMMA EnCaminoOcupa ==
  ASSUME NEW i \in Instancias, NEW k, EnCamino(i, k) PROVE Ocupada(i)
BY DEF EnCamino, Ocupada, Ocupa, Hay, DeSentencia, DeRespuesta

(* A key whose SET is on its way to an instance is listed for it in the end, *)
(* and remains so: nothing is evicted, and the notice of the old value of a  *)
(* key comes before the SET_OK that lists it again.                          *)
LEMMA EnLaInstanciaSigue ==
  ASSUME SinCompactaciones, NadieMata, SinReemplazos, Tipos, Protocolo, Vistas,
         TablaDisponible, ConLugar, Aceptadas, [Next]_vars,
         NEW i \in Instancias, NEW k, k \in Range(claves[i]) \/ EnCamino(i, k)
  PROVE  k \in Range(claves'[i]) \/ EnCamino(i, k)'
<1> DEFINE a == aInst[i]
           d == deInst[i]
           l == claves[i]
<1>1. a \in Seq(MensajesAInst) /\ d \in Seq(MensajesDeInst) /\ l \in Seq(Claves)
  BY TiposDeEnlace
<1>2. Ocupada(i) => trabajo'[i].clave = trabajo[i].clave
  BY TrabajoDeOcupada
<1>3. Hay(d, {"SET_OK"}) => Ocupada(i) /\ trabajo[i].clave \in Claves
  BY DEF Protocolo, Enlace, EnlaceEnOrden, TrabajoBien, Ocupada, Ocupa, Hay, DeRespuesta
<1>4. ASSUME NEW p \in DOMAIN a, a[p].tipo = "SET", a[p].clave = k
      PROVE  Ocupada(i) /\ trabajo[i].clave = k
  BY <1>4, EnCaminoOcupa DEF Protocolo, Enlace, EnlaceEnOrden, TrabajoBien, EnCamino
<1>5. CASE EnlaceIgual(i)
  BY <1>2, <1>5, EnCaminoOcupa DEF EnlaceIgual, EnCamino
<1>6. ASSUME NEW m \in MensajesAInst, aInst'[i] = Append(a, m), deInst'[i] = d,
             claves'[i] = l
      PROVE  k \in Range(claves'[i]) \/ EnCamino(i, k)'
  <2>1. \A p \in DOMAIN a : p \in DOMAIN aInst'[i] /\ aInst'[i][p] = a[p]
    BY <1>1, <1>6, ConUnoAlFinal
  <2>2. QED
    BY <1>2, <1>6, <2>1, EnCaminoOcupa DEF EnCamino
<1>8. CASE RespuestaLeida(i)
  <2>1. d # <<>> /\ deInst'[i] = Tail(d) /\ aInst'[i] = a
    BY <1>8 DEF RespuestaLeida
  <2>2. CASE Head(d).tipo = "SET_OK"
    <3>1. Hay(d, {"SET_OK"})
      BY <1>1, <2>1, <2>2, SinElPrimero DEF Hay
    <3>2. claves'[i] = Append(l, trabajo[i].clave)
      BY <1>8, <2>2 DEF RespuestaLeida
    <3>3. Range(claves'[i]) = Range(l) \cup {trabajo[i].clave}
      BY <1>1, <1>3, <3>1, <3>2, RangoConUno
    <3>4. QED
      BY <1>4, <3>3 DEF EnCamino
  <2>3. CASE Head(d).tipo # "SET_OK"
    <3>1. claves'[i] = l
      BY <1>8, <2>3 DEF RespuestaLeida
    <3>2. Hay(d, {"SET_OK"}) => Hay(deInst'[i], {"SET_OK"})
      BY <1>1, <2>1, <2>3, QuedaEnLaCola
    <3>3. QED
      BY <1>2, <2>1, <3>1, <3>2, EnCaminoOcupa DEF EnCamino
  <2>4. QED
    BY <2>2, <2>3
<1>9. CASE EliminadaLeida(i)
  <2>1. /\ d # <<>> /\ Head(d).tipo = "ENVIAR_CLAVE_ELIMINADA"
        /\ deInst'[i] = Tail(d) /\ aInst'[i] = a
        /\ claves'[i] = RemoveFirst(l, Head(d).clave)
    BY <1>9 DEF EliminadaLeida
  <2>2. 1 \in DOMAIN d /\ d[1] = Head(d)
    BY <1>1, <2>1, SinElPrimero
  <2>3. Hay(d, {"SET_OK"}) /\ Head(d).clave = trabajo[i].clave
    BY <2>1, <2>2, AvisoConSetOk DEF ConLugar
  <2>4. Hay(deInst'[i], {"SET_OK"})
    BY <1>1, <2>1, <2>3, QuedaEnLaCola
  <2>5. Range(l) \ {Head(d).clave} \subseteq Range(claves'[i])
    BY <1>1, <2>1, RangoSinUno
  <2>6. QED
    BY <1>2, <1>3, <2>1, <2>3, <2>4, <2>5 DEF EnCamino
<1>10. CASE PedidoServido(i)
  <2>1. a # <<>> /\ d = <<>> /\ aInst'[i] = Tail(a) /\ claves'[i] = l
    BY <1>10 DEF PedidoServido
  <2>2. ~Hay(d, {"SET_OK"})
    BY <2>1 DEF Hay
  <2>3. ASSUME NEW p \in DOMAIN a, a[p].tipo = "SET", a[p].clave = k
        PROVE  EnCamino(i, k)'
    <3>1. trabajo'[i].clave = k
      BY <1>2, <1>4, <2>3
    <3>2. CASE p = 1
      <4>1. Head(a).tipo = "SET"
        BY <1>1, <2>1, <2>3, <3>2, SinElPrimero
      <4>2. Hay(deInst'[i], {"SET_OK"})
        BY <1>10, <4>1 DEF PedidoServido
      <4>3. QED
        BY <3>1, <4>2 DEF EnCamino
    <3>3. CASE p # 1
      <4>1. \E q \in DOMAIN Tail(a) : Tail(a)[q] = a[p]
        BY <1>1, <2>1, <3>3, SinElPrimero
      <4>2. QED
        BY <2>1, <2>3, <4>1 DEF EnCamino
    <3>4. QED
      BY <3>2, <3>3
  <2>4. QED
    BY <2>1, <2>2, <2>3 DEF EnCamino
<1>12. ASSUME NEW e \in ESIs, SentenciaEnviada(i, e)
       PROVE  k \in Range(claves'[i]) \/ EnCamino(i, k)'
  BY <1>6, <1>12 DEF SentenciaEnviada
<1>13. QED
  BY <1>5, <1>8, <1>9, <1>10, <1>12, CambiosDeEnlace

(* A key written stays listed, or with a SET of it not yet done.             *)
LEMMA NadaSePierde ==
  ASSUME GuionesBien, SinCompactaciones, NadieMata, SinReemplazos, Tipos, Protocolo,
         Vistas, Fases, Registradas, TablaDisponible, ConLugar, Aceptadas, [Next]_vars,
         NEW k, Listada(k) \/ PorEscribir(k)
  PROVE  Listada(k)' \/ PorEscribir(k)'
<1>1. ASSUME NEW i \in Instancias, k \in Range(claves[i]) \/ EnCamino(i, k)
      PROVE  Listada(k)' \/ PorEscribir(k)'
  BY <1>1, EnLaInstanciaSigue DEF Listada, PorEscribir
<1>2. ASSUME NEW e \in ESIs, paso[e] \in {"esperaSET", "enviaSET", "planificaKE"},
             pedido[e].clave = k
      PROVE  PorEscribir(k)'
  <2>1. CASE paso'[e] = paso[e] /\ pedido'[e] = pedido[e]
    BY <1>2, <2>1 DEF PorEscribir
  <2>2. CASE HiloDeEsi(e)
    <3>1. CASE EnviaAInstancia(e)
      <4>1. paso[e] = "enviaSET"
        BY <1>2, <3>1 DEF EnviaAInstancia
      <4>2. PICK i \in Instancias : SentenciaEnviada(i, e)
        BY <3>1, EnlaceAlEnviar
      <4>3. /\ PaqueteDe(e) \in MensajesAInst
            /\ aInst'[i] = Append(aInst[i], PaqueteDe(e))
            /\ aInst[i] \in Seq(MensajesAInst)
        BY <4>2, TiposDeEnlace DEF SentenciaEnviada
      <4>4. Len(aInst'[i]) \in DOMAIN aInst'[i] /\ aInst'[i][Len(aInst'[i])] = PaqueteDe(e)
        BY <4>3, ConUnoAlFinal
      <4>5. PaqueteDe(e).tipo = "SET" /\ PaqueteDe(e).clave = k
        BY <1>2, <4>1 DEF Protocolo, PedidoDelPaso, PaqueteDe
      <4>6. EnCamino(i, k)'
        BY <4>4, <4>5 DEF EnCamino
      <4>7. QED
        BY <4>6 DEF PorEscribir
    <3>2. CASE ~EnviaAInstancia(e)
      <4>1. /\ paso'[e] \in {"esperaSET", "enviaSET", "planificaKE"}
            /\ pedido'[e] = pedido[e]
        BY <1>2, <2>2, <3>2, HiloSinVueltas
      <4>2. QED
        BY <1>2, <4>1 DEF PorEscribir
    <3>3. QED
      BY <3>1, <3>2
  <2>3. ASSUME NEW f \in ESIs \ {e}, HiloDeEsi(f)
        PROVE  paso'[e] = paso[e] /\ pedido'[e] = pedido[e]
    BY <2>3, HiloSinVueltas
  <2>4. QED
    BY <2>1, <2>2, <2>3, PedidosQuietos
<1>3. QED
  BY <1>1, <1>2 DEF Listada, PorEscribir

-----------------------------------------------------------------------------
(* The owner of the request lock *)

(* An instance has a statement until its reply is read, which frees the      *)
(* request lock, and gets one from the thread of an ESI only.                *)
LEMMA Ocupaciones ==
  ASSUME SinCompactaciones, NadieMata, SinReemplazos, Tipos, Protocolo, Vistas,
         TablaDisponible, ConLugar, Aceptadas, [Next]_vars, NEW i \in Instancias
  PROVE  /\ Ocupada(i) => Ocupada(i)' \/ peticion' > 0
         /\ Ocupada(i)' => \/ Ocupada(i)
                           \/ \E e \in ESIs : HiloDeEsi(e) /\ SentenciaEnviada(i, e)
<1> DEFINE a == aInst[i]
           d == deInst[i]
<1>1. a \in Seq(MensajesAInst) /\ d \in Seq(MensajesDeInst)
  BY TiposDeEnlace
<1>2. Ocupada(i) <=> Hay(a, DeSentencia) \/ Hay(d, DeRespuesta)
  BY DEF Ocupada, Ocupa
<1>3. Ocupada(i)' <=> Hay(aInst'[i], DeSentencia) \/ Hay(deInst'[i], DeRespuesta)
  BY DEF Ocupada, Ocupa, Hay
<1> HIDE DEF a, d
<1>4. CASE EnlaceIgual(i)
  BY <1>2, <1>3, <1>4 DEF EnlaceIgual, a, d
<1>6. CASE RespuestaLeida(i)
  <2>1. peticion' > 0
    BY <1>6 DEF RespuestaLeida, Tipos, TypeOK, CoordTypeOK
  <2>2. d # <<>> /\ Head(d).tipo \in DeRespuesta /\ aInst'[i] = a
    BY <1>6 DEF RespuestaLeida, a, d
  <2>3. Hay(d, DeRespuesta)
    BY <1>1, <2>2, SinElPrimero DEF Hay
  <2>4. QED
    BY <1>2, <2>1, <2>3
<1>7. CASE EliminadaLeida(i)
  <2>1. /\ d # <<>> /\ Head(d).tipo = "ENVIAR_CLAVE_ELIMINADA"
        /\ deInst'[i] = Tail(d) /\ aInst'[i] = a
    BY <1>7 DEF EliminadaLeida, a, d
  <2>2. Hay(deInst'[i], DeRespuesta) <=> Hay(d, DeRespuesta)
    BY <1>1, <2>1, QuedaEnLaCola DEF DeRespuesta
  <2>3. QED
    BY <1>2, <1>3, <2>1, <2>2
<1>8. CASE PedidoServido(i)
  <2>1. a # <<>> /\ d = <<>> /\ aInst'[i] = Tail(a)
    BY <1>8 DEF PedidoServido, a, d
  <2>2. CASE Head(a).tipo \in DeSentencia
    <3>1. Hay(a, DeSentencia)
      BY <1>1, <2>1, <2>2, SinElPrimero DEF Hay
    <3>2. Hay(deInst'[i], DeRespuesta)
      <4>1. CASE Head(a).tipo = "STORE"
        <5>1. deInst'[i] = <<Mensaje("STORE_OK")>>
          BY <1>8, <4>1 DEF PedidoServido, a
        <5>2. 1 \in DOMAIN <<Mensaje("STORE_OK")>>
          OBVIOUS
        <5>3. QED
          BY <5>1, <5>2 DEF Hay, DeRespuesta, Mensaje
      <4>2. CASE Head(a).tipo = "SET"
        BY <1>8, <4>2 DEF PedidoServido, a, Hay, DeRespuesta
      <4>3. QED
        BY <2>2, <4>1, <4>2 DEF DeSentencia
    <3>3. QED
      BY <1>2, <1>3, <3>1, <3>2
  <2>3. Head(a).tipo \in DeSentencia
    BY <1>8 DEF PedidoServido, DeSentencia, a
  <2>4. QED
    BY <2>2, <2>3
<1>10. ASSUME NEW e \in ESIs, SentenciaEnviada(i, e) PROVE Ocupada(i) => Ocupada(i)'
  <2>1. /\ aInst'[i] = Append(a, PaqueteDe(e)) /\ PaqueteDe(e) \in MensajesAInst
        /\ deInst'[i] = d
    BY <1>10 DEF SentenciaEnviada, a, d
  <2>2. Hay(a, DeSentencia) => Hay(aInst'[i], DeSentencia)
    BY <1>1, <2>1, QuedaEnLaCola
  <2>3. QED
    BY <1>2, <1>3, <2>1, <2>2
<1>11. QED
  BY <1>4, <1>6, <1>7, <1>8, <1>10, CambiosDeEnlace

(* An instance that is sent a statement has it.                              *)
LEMMA EnviadaOcupa ==
  ASSUME Tipos, Protocolo, NEW i \in Instancias, NEW e \in ESIs, SentenciaEnviada(i, e)
  PROVE  Ocupada(i)'
<1>1. paso[e] \in {"enviaSET", "enviaSTORE"}
  BY DEF SentenciaEnviada, EnviaAInstancia
<1>2. PaqueteDe(e).tipo \in DeSentencia
  BY <1>1 DEF Protocolo, PedidoDelPaso, PaqueteDe, DeSentencia
<1>3. /\ aInst'[i] = Append(aInst[i], PaqueteDe(e)) /\ PaqueteDe(e) \in MensajesAInst
      /\ aInst[i] \in Seq(MensajesAInst)
  BY TiposDeEnlace DEF SentenciaEnviada
<1>4. Hay(aInst'[i], DeSentencia)
  BY <1>2, <1>3, QuedaEnLaCola
<1>5. QED
  BY <1>4 DEF Ocupada, Ocupa, Hay

(* The request lock passes from a thread to an instance, and from there it   *)
(* is freed: it always has an owner.                                         *)
LEMMA HayDuenoNext ==
  ASSUME GuionesBien, SinCompactaciones, NadieMata, SinReemplazos, Tipos, Protocolo,
         Vistas, Fases, Registradas, TablaDisponible, ConLugar, Aceptadas, HayDueno,
         [Next]_vars
  PROVE  HayDueno'
<1>1. CASE peticion > 0
  <2>1. ASSUME NEW e \in ESIs, HiloDeEsi(e), TomaSET(e) \/ TomaSTORE(e) PROVE HayDueno'
    <3>1. TomaSTORE(e) => paso'[e] = "esperaSTORE"
      BY DEF TomaSTORE, Tipos, TypeOK, CoordTypeOK
    <3>2. paso'[e] # "libre"
      BY <2>1, <3>1, HiloSinVueltas
    <3>3. QED
      BY <3>2 DEF HayDueno
  <2>2. CASE peticion' > 0
    BY <2>2 DEF HayDueno
  <2>3. QED
    BY <1>1, <2>1, <2>2, PeticionQueda
<1>2. ASSUME NEW e \in ESIs, paso[e] # "libre" PROVE HayDueno'
  <2>1. CASE paso'[e] # "libre"
    BY <2>1 DEF HayDueno
  <2>2. CASE HiloDeEsi(e) /\ EnviaAInstancia(e)
    <3>1. PICK i \in Instancias : SentenciaEnviada(i, e)
      BY <2>2, EnlaceAlEnviar
    <3>2. Ocupada(i)'
      BY <3>1, EnviadaOcupa
    <3>3. QED
      BY <3>2 DEF HayDueno
  <2>3. ASSUME HiloDeEsi(e), ~EnviaAInstancia(e) PROVE paso'[e] # "libre"
    BY <1>2, <2>3, HiloSinVueltas
  <2>4. ASSUME NEW f \in ESIs \ {e}, HiloDeEsi(f) PROVE paso'[e] # "libre"
    BY <1>2, <2>4, HiloSinVueltas
  <2>5. QED
    BY <1>2, <2>1, <2>2, <2>3, <2>4, PedidosQuietos
<1>3. ASSUME NEW i \in Instancias, Ocupada(i) PROVE HayDueno'
  BY <1>3, Ocupaciones DEF HayDueno
<1>4. QED
  BY <1>1, <1>2, <1>3 DEF HayDueno

-----------------------------------------------------------------------------
(* A place for every statement *)

(* The statement a thread sends goes to an instance of the table.            *)
LEMMA ElegidasEnLaTabla ==
  ASSUME GuionesBien, SinCompactaciones, NadieMata, Tipos, Protocolo, Vistas, Fases,
         Registradas, TablaDisponible, ConLugar, Aceptadas, [Next]_vars, NEW e \in ESIs, paso'[e] \in {"enviaSET", "enviaSTORE"}
  PROVE  elegida'[e] \in Range(tabla')
<1>1. CASE paso'[e] = paso[e] /\ elegida'[e] = elegida[e]
  BY <1>1, VistasNext DEF ConLugar
<1>2. CASE elegida'[e] \in Range(tabla)
  BY <1>2, VistasNext
<1>3. ASSUME HiloDeEsi(e)
      PROVE  \/ paso'[e] = paso[e] /\ elegida'[e] = elegida[e]
             \/ elegida'[e] \in Range(tabla)
  BY <1>3, HiloSinVueltas
<1>4. ASSUME NEW f \in ESIs \ {e}, HiloDeEsi(f)
      PROVE  paso'[e] = paso[e] /\ elegida'[e] = elegida[e]
  BY <1>4, HiloSinVueltas
<1>5. QED
  BY <1>1, <1>2, <1>3, <1>4, PedidosQuietos

(* The keys listed for an instance change only while it has a statement.     *)
LEMMA ListaQuieta ==
  ASSUME SinCompactaciones, NadieMata, SinReemplazos, Tipos, Protocolo, Vistas,
         TablaDisponible, ConLugar, Aceptadas, [Next]_vars, NEW i \in Instancias,
         claves'[i] # claves[i]
  PROVE  Ocupada(i)
<1>1. RespuestaLeida(i) \/ EliminadaLeida(i)
  BY CambiosDeEnlace
  DEF EnlaceIgual, PedidoServido, SentenciaEnviada
<1>2. deInst[i] # <<>> /\ deInst[i] \in Seq(MensajesDeInst)
  BY <1>1, TiposDeEnlace DEF RespuestaLeida, EliminadaLeida
<1>3. 1 \in DOMAIN deInst[i] /\ deInst[i][1] = Head(deInst[i])
  BY <1>2, SinElPrimero
<1>4. CASE RespuestaLeida(i)
  BY <1>3, <1>4 DEF RespuestaLeida, Ocupada, Ocupa, Hay
<1>5. CASE EliminadaLeida(i)
  BY <1>3, <1>5, AvisoConSetOk DEF EliminadaLeida
<1>6. QED
  BY <1>1, <1>4, <1>5

(* An instance with a statement or with keys listed is in the table.         *)
LEMMA OcupadasEnLaTabla ==
  ASSUME SinCompactaciones, NadieMata, SinReemplazos, Tipos, Protocolo, Vistas,
         TablaDisponible, ConLugar, Aceptadas, [Next]_vars, NEW i \in Instancias,
         Ocupada(i)' \/ claves'[i] # <<>>
  PROVE  i \in Range(tabla')
<1>1. ASSUME Ocupada(i) \/ claves[i] # <<>> PROVE i \in Range(tabla')
  BY <1>1, VistasNext DEF ConLugar
<1>2. ASSUME NEW e \in ESIs, SentenciaEnviada(i, e) PROVE i \in Range(tabla')
  BY <1>2, VistasNext, EnlaceAlEnviar DEF SentenciaEnviada
<1>3. CASE Ocupada(i)'
  BY <1>1, <1>2, <1>3, Ocupaciones
<1>4. CASE claves'[i] # <<>>
  BY <1>1, <1>4, ListaQuieta
<1>5. QED
  BY <1>3, <1>4

(* The key of a STORE that waits for the planner is listed.                  *)
LEMMA StoreConLista ==
  ASSUME GuionesBien, GuionesEscriben, SinCompactaciones, NadieMata, SinReemplazos,
         Tipos, Protocolo, Vistas, Fases, Registradas, TablaDisponible, ConLugar,
         Aceptadas, Escritas, [Next]_vars, NEW e \in ESIs, paso'[e] = "esperaSTORE"
  PROVE  Listada(pedido[e].clave)'
<1>1. CASE paso[e] = "esperaSTORE" /\ pedido'[e] = pedido[e]
  <2>1. PICK i \in Instancias : pedido[e].clave \in Range(claves[i])
    BY <1>1 DEF ConLugar, Listada
  <2>2. ~Ocupada(i)
    BY <1>1 DEF Protocolo, UnDueno
  <2>3. claves'[i] = claves[i]
    BY <2>2, ListaQuieta
  <2>4. QED
    BY <1>1, <2>1, <2>3 DEF Listada
<1>2. CASE HiloDeEsi(e) /\ TomaSTORE(e) /\ pedido'[e] = Head(aCoord[e])
  <2>1. aCoord[e] # <<>> /\ Head(aCoord[e]).op = "STORE" /\ peticion > 0 /\ UNCHANGED claves
    BY <1>2 DEF TomaSTORE, LlegaOp, TrasRetardo, varsTabla
  <2>2. Head(aCoord[e]) = guion[e][ipAnterior[e]] /\ Puede(e, ipAnterior[e])
    BY <2>1, SaleLaSentencia DEF Sentencia, EnCurso
  <2> DEFINE k == Head(aCoord[e]).clave
  <2>3. guion[e] \in Guiones /\ ipAnterior[e] \in DOMAIN guion[e] /\ ipAnterior[e] \in Nat
    BY <2>2 DEF Puede, Tipos, TypeOK, EsiTypeOK
  <2>4. PICK q \in 1..(ipAnterior[e] - 1) : guion[e][q].op = "SET" /\ guion[e][q].clave = k
    BY <2>1, <2>2, <2>3 DEF GuionesEscriben
  <2>5. q \in DOMAIN guion[e] /\ YaTomada(e, q)
    BY <2>2, <2>3, <2>4, DeSuGuion DEF YaTomada
  <2>6. Listada(k) \/ PorEscribir(k)
    BY <2>4, <2>5 DEF Escritas
  <2>7. ~PorEscribir(k)
    BY <2>1, EnCaminoOcupa, SuTurno DEF PorEscribir
  <2>8. QED
    BY <1>2, <2>1, <2>6, <2>7 DEF Listada
<1>3. ASSUME HiloDeEsi(e)
      PROVE  \/ paso[e] = "esperaSTORE" /\ pedido'[e] = pedido[e]
             \/ TomaSTORE(e) /\ pedido'[e] = Head(aCoord[e])
  BY <1>3, HiloSinVueltas
<1>4. ASSUME NEW f \in ESIs \ {e}, HiloDeEsi(f)
      PROVE  paso[e] = "esperaSTORE" /\ pedido'[e] = pedido[e]
  BY <1>4, HiloSinVueltas
<1>5. QED
  BY <1>1, <1>2, <1>3, <1>4, PedidosQuietos

(* A notice is of the key being written: nothing is evicted.                 *)
LEMMA AvisosDeLaSuya ==
  ASSUME SinCompactaciones, NadieMata, SinReemplazos, Tipos, Protocolo, Vistas,
         TablaDisponible, ConLugar, Aceptadas, [Next]_vars, NEW i \in Instancias,
         NEW p \in DOMAIN deInst'[i], deInst'[i][p].tipo = "ENVIAR_CLAVE_ELIMINADA"
  PROVE  deInst'[i][p].clave = trabajo'[i].clave
<1>1. ASSUME NEW q \in DOMAIN deInst[i], deInst'[i][p] = deInst[i][q]
      PROVE  deInst'[i][p].clave = trabajo'[i].clave
  BY <1>1, AvisoConSetOk, TrabajoDeOcupada DEF ConLugar
<1>2. CASE PedidoServido(i)
  <2>1. \A t : <<Mensaje(t)>>[1] = Mensaje(t) /\ DOMAIN <<Mensaje(t)>> = {1}
    OBVIOUS
  <2>2. Head(aInst[i]).tipo = "SET" /\ deInst'[i][p].clave = Head(aInst[i]).clave
    BY <1>2, <2>1 DEF PedidoServido, Mensaje
  <2>3. 1 \in DOMAIN aInst[i] /\ aInst[i][1] = Head(aInst[i])
    BY <1>2, TiposDeEnlace, SinElPrimero DEF PedidoServido
  <2>4. Head(aInst[i]).clave = trabajo[i].clave
    BY <2>2, <2>3 DEF Protocolo, Enlace, EnlaceEnOrden, TrabajoBien
  <2>5. Ocupada(i)
    BY <2>2, <2>3 DEF Ocupada, Ocupa, Hay, DeSentencia
  <2>6. QED
    BY <2>2, <2>4, <2>5, TrabajoDeOcupada
<1>4. ASSUME deInst[i] # <<>>, deInst'[i] = Tail(deInst[i])
      PROVE  \E q \in DOMAIN deInst[i] : deInst'[i][p] = deInst[i][q]
  BY <1>4, TiposDeEnlace, SinElPrimero
<1>5. QED
  BY <1>1, <1>2, <1>4, CambiosDeEnlace
  DEF EnlaceIgual, RespuestaLeida, EliminadaLeida, SentenciaEnviada

(* Every statement has where to go.                                          *)
LEMMA ConLugarNext ==
  ASSUME GuionesBien, GuionesEscriben, SinCompactaciones, NadieMata, SinReemplazos,
         Tipos, Protocolo, Vistas, Fases, Registradas, TablaDisponible, ConLugar,
         Aceptadas, Escritas, [Next]_vars
  PROVE  ConLugar'
<1>1. \A e \in ESIs : paso'[e] \in {"enviaSET", "enviaSTORE"} => elegida'[e] \in Range(tabla')
  BY ElegidasEnLaTabla
<1>2. \A e \in ESIs : paso'[e] = "esperaSTORE" => Listada(pedido[e].clave)'
  BY StoreConLista
<1>3. \A i \in Instancias : Ocupada(i)' \/ claves'[i] # <<>> => i \in Range(tabla')
  BY OcupadasEnLaTabla
<1>4. \A i \in Instancias : \A p \in DOMAIN deInst'[i] :
        deInst'[i][p].tipo = "ENVIAR_CLAVE_ELIMINADA" =>
          deInst'[i][p].clave = trabajo'[i].clave
  BY AvisosDeLaSuya
<1>5. QED
  BY <1>1, <1>2, <1>3, <1>4 DEF ConLugar

-----------------------------------------------------------------------------
(* What was taken of a script *)

(* The thread of e takes a statement.                                        *)
TomaUna(e) == TomaGET(e) \/ TomaSET(e) \/ TomaSTORE(e) \/ TomaErrorTamanio(e)

(* e stays at its statement, which is where it was.                          *)
MismoLugar(e) ==
  ipActual'[e] = ipActual[e] /\ ipAnterior'[e] = ipAnterior[e] /\ aCoord'[e] = aCoord[e]

(* The place of an ESI in its script, and what it sent, change when it is    *)
(* asked for a statement, told to repeat it, or its thread takes one.        *)
LEMMA LugarQuieto ==
  ASSUME Tipos, [Next]_vars, NEW e \in ESIs
  PROVE  /\ UNCHANGED guion
         /\ \/ MismoLugar(e)
            \/ ProcesoEsi(e) /\ ProcesarSolicitudEjecucion(e)
            \/ ProcesoEsi(e) /\ ProcesarSolicitudAnterior(e)
            \/ HiloDeEsi(e) /\ TomaUna(e)
<1> USE DEF Tipos, TypeOK, CanalesTypeOK, EsiTypeOK
<1>1. ASSUME HiloDePlan \/ (\E i \in Instancias : PasoDeInstancia(i)) \/ UNCHANGED vars
      PROVE  UNCHANGED guion /\ MismoLugar(e)
  BY <1>1, FueraDelTurno DEF varsEsi, MismoLugar
<1>2. ASSUME HiloAlgoritmos \/ HiloCoordinador \/ \E f \in ESIs : HiloServidor(f)
      PROVE  UNCHANGED guion /\ MismoLugar(e)
  <2>1. UNCHANGED varsEsi
    BY <1>2 DEF HiloAlgoritmos, HiloCoordinador, HiloServidor
  <2>2. UNCHANGED aCoord
    <3>1. ASSUME HiloAlgoritmos PROVE UNCHANGED aCoord
      BY <3>1, Zenon
      DEF HiloAlgoritmos, PasoAlgoritmos, TomaEntrada, Elige, Pide, EsperaContinua,
          Sale, Bloquea, Despide, Desaloja, DejaBloqueado, Cierra, canalesSinAEsi,
          canales
    <3>2. ASSUME HiloCoordinador PROVE UNCHANGED aCoord
      BY <3>2, Zenon
      DEF HiloCoordinador, PasoCoordinador, RecibeGET, RecibeSET, RecibeSTORE,
          RecibeError
    <3>3. ASSUME NEW f \in ESIs, HiloServidor(f) PROVE UNCHANGED aCoord
      BY <3>3, Zenon
      DEF HiloServidor, PasoServidor, RecibeNombre, RecibeTermino, DesconectaESI,
          LiberaESI, LiberaNombre, QuitaListo, QuitaDeLista, QuitaClave, LiberaClaves,
          sinLiberar, canales
    <3>4. QED
      BY <1>2, <3>1, <3>2, <3>3
  <2>3. QED
    BY <2>1, <2>2 DEF varsEsi, MismoLugar
<1>3. ASSUME NEW f \in ESIs, MuereEsi(f) \/ EsiSinPlanificador(f)
      PROVE  UNCHANGED guion /\ MismoLugar(e)
  BY <1>3, Zenon DEF MuereEsi, EsiSinPlanificador, Matar, ProcesarError, MismoLugar
<1>4. ASSUME NEW f \in ESIs, ProcesoEsi(f)
      PROVE  /\ UNCHANGED guion
             /\ \/ MismoLugar(e)
                \/ f = e /\ (ProcesarSolicitudEjecucion(e) \/ ProcesarSolicitudAnterior(e))
  <2>1. CASE ConectarEsi(f) \/ ProcesarRespuestaSolicitud(f)
    BY <2>1, Zenon DEF ConectarEsi, ProcesarRespuestaSolicitud, MismoLugar
  <2>2. CASE ProcesarSolicitudEjecucion(f)
    <3>1. /\ UNCHANGED guion
          /\ ipAnterior' = [ipAnterior EXCEPT ![f] = ipActual[f]]
          /\ ipActual' = [ipActual EXCEPT ![f] = @ + 1]
          /\ aCoord' = aCoord \/ \E m : aCoord' = [aCoord EXCEPT ![f] = Append(@, m)]
      BY <2>2, Zenon DEF ProcesarSolicitudEjecucion, Enviado
    <3>2. QED
      BY <2>2, <3>1 DEF MismoLugar
  <2>3. CASE ProcesarSolicitudAnterior(f)
    <3>1. /\ UNCHANGED <<guion, ipAnterior, aCoord>>
          /\ ipActual' = [ipActual EXCEPT ![f] = ipAnterior[f]]
      BY <2>3, Zenon DEF ProcesarSolicitudAnterior
    <3>2. QED
      BY <2>3, <3>1 DEF MismoLugar
  <2>4. QED
    BY <1>4, <2>1, <2>2, <2>3 DEF ProcesoEsi, PasoEsi
<1>5. ASSUME NEW f \in ESIs, HiloDeEsi(f)
      PROVE  UNCHANGED guion /\ (MismoLugar(e) \/ (f = e /\ TomaUna(e)))
  <2>1. UNCHANGED varsEsi
    BY <1>5 DEF HiloDeEsi
  <2>2. TomaUna(f) \/ UNCHANGED aCoord
    BY <1>5, Zenon
    DEF HiloDeEsi, PasoHiloEsi, TomaUna, DecideSET, DecideSTORE, EnviaAInstancia,
        EnviaSinConexion, canales
  <2>3. TomaUna(f) => aCoord' = [aCoord EXCEPT ![f] = Tail(@)]
    BY Zenon DEF TomaUna, TomaGET, TomaSET, TomaSTORE, TomaErrorTamanio, Recibido
  <2>4. QED
    BY <2>1, <2>2, <2>3 DEF varsEsi, MismoLugar
<1>6. QED
  BY <1>1, <1>2, <1>3, <1>4, <1>5 DEF Next, PasoDeEsi

(* A statement that was not taken and now is was at the head of what its ESI *)
(* sent: asking for the next, or for the same again, takes none.             *)
LEMMA RecienTomada ==
  ASSUME GuionesBien, Tipos, Fases, [Next]_vars, NEW e \in ESIs,
         NEW p \in DOMAIN guion[e], YaTomada(e, p)', ~YaTomada(e, p)
  PROVE  /\ HiloDeEsi(e) /\ TomaUna(e) /\ aCoord[e] # <<>>
         /\ Head(aCoord[e]) = guion[e][p]
<1> USE DEF Tipos, TypeOK, CanalesTypeOK, EsiTypeOK
<1>1. /\ ipActual[e] \in Nat /\ ipAnterior[e] \in Nat /\ aCoord[e] \in Seq(MensajesACoord)
      /\ guion[e] \in Seq(Sentencias) /\ p \in Nat
  BY GuionesAssumption
<1>2. ~MismoLugar(e)
  BY DEF YaTomada, MismoLugar
<1>3. ASSUME ProcesarSolicitudAnterior(e) PROVE FALSE
  <2>1. /\ ipAnterior'[e] = ipAnterior[e] /\ aCoord'[e] = aCoord[e]
        /\ ipActual'[e] = ipAnterior[e]
    BY <1>3 DEF ProcesarSolicitudAnterior
  <2>2. QED
    BY <2>1 DEF YaTomada
<1>4. ASSUME ProcesarSolicitudEjecucion(e) PROVE FALSE
  <2>1. aEsi[e] # <<>> /\ Head(aEsi[e]) = "SOLICITUD_EJECUCION"
    BY <1>4 DEF ProcesarSolicitudEjecucion, Llega
  <2>2. aCoord[e] = <<>> /\ Puede(e, ipActual[e])
    BY <2>1, LoQueLeLlegaAUno DEF Pedida, Callada
  <2>3. ipActual[e] <= Len(guion[e]) /\ guion[e][ipActual[e]].op \in Operaciones
    BY <2>2, DeSuGuion
  <2>4. /\ ipAnterior'[e] = ipActual[e]
        /\ aCoord' = [aCoord EXCEPT ![e] = Append(@, guion[e][ipActual[e]])]
    BY <1>4, <2>3 DEF ProcesarSolicitudEjecucion, Enviado, Operaciones
  <2>5. aCoord'[e] = Append(aCoord[e], guion[e][ipActual[e]])
    BY <2>4
  <2>6. aCoord'[e] # <<>>
    BY <2>2, <2>5, Colas
  <2>7. QED
    BY <1>1, <2>2, <2>4, <2>6 DEF YaTomada
<1>5. HiloDeEsi(e) /\ TomaUna(e)
  BY <1>2, <1>3, <1>4, LugarQuieto
<1>6. aCoord[e] # <<>>
  BY <1>5 DEF TomaUna, TomaGET, TomaSET, TomaSTORE, TomaErrorTamanio, LlegaOp
<1>7. ipActual[e] = ipAnterior[e] + 1 /\ Head(aCoord[e]) = guion[e][ipAnterior[e]]
  BY <1>6, SaleLaSentencia DEF EnCurso, Sentencia
<1>8. UNCHANGED <<ipActual, ipAnterior>>
  BY <1>5 DEF HiloDeEsi, varsEsi
<1>9. p = ipAnterior[e]
  BY <1>1, <1>7, <1>8 DEF YaTomada
<1>10. QED
  BY <1>5, <1>6, <1>7, <1>9

(* Every key an ESI has written is listed, or is going to be.                *)
LEMMA EscritasNext ==
  ASSUME GuionesBien, SinCompactaciones, NadieMata, SinReemplazos, Tipos, Protocolo,
         Vistas, Fases, Registradas, TablaDisponible, ConLugar, Aceptadas, Escritas,
         [Next]_vars
  PROVE  Escritas'
<1>1. UNCHANGED guion \/ ESIs = {}
  BY LugarQuieto
<1>2. ASSUME NEW e \in ESIs, NEW p \in DOMAIN guion[e], YaTomada(e, p)',
             guion[e][p].op = "SET"
      PROVE  Listada(guion[e][p].clave)' \/ PorEscribir(guion[e][p].clave)'
  <2>1. PICK k : k = guion[e][p].clave
    OBVIOUS
  <2>2. CASE YaTomada(e, p)
    <3>1. Listada(k) \/ PorEscribir(k)
      BY <1>2, <2>1, <2>2 DEF Escritas
    <3>2. QED
      BY <1>1, <2>1, <3>1, NadaSePierde
  <2>3. CASE ~YaTomada(e, p)
    <3>1. HiloDeEsi(e) /\ TomaUna(e) /\ Head(aCoord[e]) = guion[e][p]
      BY <1>2, <2>3, RecienTomada
    <3>2. TomaSET(e) /\ paso[e] = "libre"
      BY <1>2, <3>1
      DEF TomaUna, TomaGET, TomaSET, TomaSTORE, TomaErrorTamanio, LlegaOp
    <3>3. paso'[e] = "esperaSET" /\ pedido'[e] = guion[e][p]
      BY <3>1, <3>2, HiloSinVueltas
    <3>4. QED
      BY <1>1, <3>3 DEF PorEscribir
  <2>4. QED
    BY <2>2, <2>3
<1>3. QED
  BY <1>1, <1>2 DEF Escritas

(* The invariant of the request lock, and what it needs.                     *)
Peticiones == Aceptadas /\ ConLugar /\ Escritas /\ HayDueno

(* It holds at the start.                                                    *)
LEMMA PeticionesIniciales == Init => Peticiones
<1> SUFFICES ASSUME Init PROVE Peticiones
  OBVIOUS
<1>1. /\ cortadas = {} /\ respuesta = TRUE /\ hiloPlan = "libre" /\ planACoord = <<>>
      /\ \A e \in ESIs : paso[e] = "libre"
      /\ \A i \in Instancias : aInst[i] = <<>> /\ deInst[i] = <<>> /\ claves[i] = <<>>
      /\ peticion = 1
  BY DEF Init, CoordInit, CanalesInit
<1>2. DOMAIN <<>> = {}
  OBVIOUS
<1>3. Aceptadas /\ HayDueno
  BY <1>1, <1>2 DEF Aceptadas, HayDueno
<1>4. ConLugar
  BY <1>1, <1>2 DEF ConLugar, Ocupada, Ocupa, Hay
<1>5. Escritas
  <2>1. ASSUME NEW e \in ESIs, NEW p \in DOMAIN guion[e] PROVE ~YaTomada(e, p)
    <3>1. guion[e] \in Seq(Sentencias) /\ ipActual[e] = 1 /\ ipAnterior[e] = 1
      BY GuionesAssumption DEF Init, EsiInit
    <3>2. p \in Nat \ {0}
      BY <3>1
    <3>3. QED
      BY <3>1, <3>2 DEF YaTomada
  <2>2. QED
    BY <2>1 DEF Escritas
<1>6. QED
  BY <1>3, <1>4, <1>5 DEF Peticiones

(* An owner is a thread that is not free, or the statement of an instance.   *)
LEMMA UnDuenoAlMenos ==
  ASSUME Tipos, Protocolo, HayDueno, peticion # 1
  PROVE  Duenos # {}
<1>1. peticion = 0
  BY DEF Tipos, TypeOK, CoordTypeOK, Protocolo, UnDueno
<1>2. ASSUME NEW e \in ESIs, paso[e] # "libre" PROVE Duenos # {}
  <2>1. <<e, <<"hilo", 0>>>> \in Duenos
    BY <1>2 DEF Duenos
  <2>2. QED
    BY <2>1
<1>3. ASSUME NEW i \in Instancias, Ocupada(i) PROVE Duenos # {}
  <2>1. PICK x \in EnInstancia(i) : TRUE
    BY <1>3, UnaSentencia DEF Protocolo
  <2>2. <<i, x>> \in {i} \X EnInstancia(i)
    BY <2>1
  <2>3. <<i, x>> \in Duenos
    BY <2>2 DEF Duenos
  <2>4. QED
    BY <2>3
<1>4. ~(peticion > 0)
  BY <1>1
<1>5. QED
  BY <1>2, <1>3, <1>4, Zenon DEF HayDueno

(***************************************************************************)
(* The request lock is never lost nor doubled, when every script writes a  *)
(* key before it stores it and nothing is evicted: no STORE finds its key  *)
(* in no instance, which is where procesarSTORE returns without releasing. *)
(***************************************************************************)
THEOREM PeticionSiempreConDueno ==
  ASSUME Supuestos, GuionesEscriben, SinReemplazos PROVE Spec => []PeticionConDueno
<1>1. Bases /\ Turnos /\ Peticiones /\ [Next]_vars => Peticiones'
  <2> SUFFICES ASSUME Bases, Turnos, Peticiones, [Next]_vars PROVE Peticiones'
    OBVIOUS
  <2> USE DEF Supuestos, Bases, Turnos, Peticiones
  <2>1. Aceptadas'
    BY AceptadasNext
  <2>2. ConLugar'
    BY ConLugarNext
  <2>3. Escritas'
    BY EscritasNext
  <2>4. HayDueno'
    BY HayDuenoNext
  <2>5. QED
    BY <2>1, <2>2, <2>3, <2>4
<1>2. Bases /\ Peticiones => PeticionConDueno
  <2> SUFFICES ASSUME Tipos, Protocolo, HayDueno PROVE PeticionConDueno
    BY DEF Bases, Peticiones
  <2>1. peticion \in {0, 1}
    BY DEF Tipos, TypeOK, CoordTypeOK, Protocolo, UnDueno
  <2>2. CASE peticion = 1
    BY <2>2, UnDuenoALoSumo, FS_EmptySet DEF PeticionConDueno
  <2>3. CASE peticion = 0
    <3>1. PICK x : Duenos = {x}
      BY <2>3, UnDuenoAlMenos, UnDuenoALoSumo
    <3>2. Cardinality(Duenos) = 1
      BY <3>1, FS_Singleton
    <3>3. QED
      BY <2>3, <3>2 DEF PeticionConDueno
  <2>4. QED
    BY <2>1, <2>2, <2>3
<1>3. QED
  BY <1>1, <1>2, PeticionesIniciales, TurnosSiempre, PTL DEF Spec

-----------------------------------------------------------------------------
(* calcularSiguiente *)

(* The next estimate of every ESI is of some length: calcularRR divides by   *)
(* it.                                                                       *)
ProximaPositiva == \A x \in Datos : CalcularProximaRafaga(x) > 0

(* "Not better than" is a total preorder on what the planner has of an ESI.  *)
LEMMA PonderaOrdena ==
  ASSUME ProximaPositiva, NEW a \in {"SJF", "HRRN"},
         NEW x \in Datos, NEW y \in Datos, NEW z \in Datos
  PROVE  /\ ~Pondera(a, x, x)
         /\ Pondera(a, x, y) => ~Pondera(a, y, x)
         /\ ~Pondera(a, x, y) /\ ~Pondera(a, y, z) => ~Pondera(a, x, z)
<1>1. ASSUME NEW w \in Datos
      PROVE  CalcularProximaRafaga(w) \div 100 \in Int /\ CalcularRR(w) \in Int
  <2>1. w.est \in Nat /\ w.real \in Nat /\ w.espera \in Nat /\ Alfa \in Nat /\ 100 - Alfa \in Nat
    BY DatosAssumption, AlfaAssumption
  <2> DEFINE m == w.est * Alfa
             r == w.real * (100 - Alfa)
  <2>2. m \in Nat /\ r \in Nat
    BY <2>1
  <2>3. CalcularProximaRafaga(w) = m + r
    BY DEF CalcularProximaRafaga
  <2> HIDE DEF m, r
  <2>4. CalcularProximaRafaga(w) \in Int /\ CalcularProximaRafaga(w) > 0
    BY <2>2, <2>3 DEF ProximaPositiva
  <2>5. 100 * w.espera \in Int
    BY <2>1
  <2>6. QED
    BY <2>4, <2>5 DEF CalcularRR
<1>2. \A u, v \in Int : TRUE
  OBVIOUS
<1>3. CASE a = "HRRN"
  BY <1>1, <1>3 DEF Pondera
<1>4. CASE a = "SJF"
  <2> DEFINE P(w) == CalcularProximaRafaga(w) \div 100
  <2>1. P(x) \in Int /\ P(y) \in Int /\ P(z) \in Int
    BY <1>1
  <2>2. \A v, w : Pondera(a, v, w) <=> P(v) > P(w)
    BY <1>4 DEF Pondera
  <2> HIDE DEF P
  <2>3. QED
    BY <2>1, <2>2
<1>5. QED
  BY <1>3, <1>4

(* asignarID gives the first socket from i on, or the maximum.               *)
LEMMA AsignarIDEsPrimero ==
  ASSUME NEW ids \in SUBSET Nat, NEW max, NEW i \in Nat
  PROVE  LET j == AsignarID(ids, max, i) IN
         \/ j \in ids /\ j >= i /\ \A m \in ids : m >= i => j <= m
         \/ j = max /\ \A m \in ids : m < i
<1> DEFINE hay == {j \in ids : j >= i}
<1>1. CASE hay = {}
  <2>1. AsignarID(ids, max, i) = max
    BY <1>1 DEF AsignarID
  <2>2. QED
    BY <1>1, <2>1
<1>2. CASE hay # {}
  <2>1. AsignarID(ids, max, i) = CHOOSE j \in hay : \A m \in hay : j <= m
    BY <1>2 DEF AsignarID
  <2>2. \E j \in hay : \A m \in hay : j <= m
    BY <1>2, MinimoNat
  <2>3. QED
    BY <2>1, <2>2
<1>3. QED
  BY <1>1, <1>2

(* The search of calcularSiguiente from the socket i on, when g is that of   *)
(* the sockets after it and orden has <<x, y>> when y is better than x.      *)
Busca(g, ids, max, orden, i) ==
  LET j == AsignarID(ids, max, i)
  IN [a \in ids |-> IF i > max THEN a
                    ELSE g[Tras(j)][IF j \in ids /\ <<a, j>> \in orden THEN j ELSE a]]

EsBusqueda(g, ids, max, orden) ==
  g = [i \in 0..Tras(max) |-> Busca(g, ids, max, orden, i)]

(* It goes up, to two past the maximum at most.                              *)
LEMMA BuscaSube ==
  ASSUME NEW ids \in SUBSET Nat, NEW max \in Nat, \A x \in ids : x <= max,
         NEW i \in 0..max
  PROVE  /\ Tras(AsignarID(ids, max, i)) \in (i + 1)..Tras(max)
         /\ AsignarID(ids, max, i) \in Nat
<1>1. i \in Nat
  OBVIOUS
<1> DEFINE j == AsignarID(ids, max, i)
<1>2. \/ j \in ids /\ j >= i
      \/ j = max
  BY <1>1, AsignarIDEsPrimero
<1> HIDE DEF j
<1>3. CASE j \in ids /\ j >= i
  <2>1. j \in Nat /\ j <= max
    BY <1>3
  <2>2. QED
    BY <1>1, <1>3, <2>1 DEF Tras, j
<1>4. CASE j = max
  BY <1>1, <1>4 DEF Tras, j
<1>5. QED
  BY <1>2, <1>3, <1>4

(* There is such a search, from every socket.                                *)
LEMMA BusquedaExiste ==
  ASSUME NEW ids \in SUBSET Nat, NEW max \in Nat, \A x \in ids : x <= max, NEW orden
  PROVE  \E g : EsBusqueda(g, ids, max, orden)
<1> DEFINE t == Tras(max)
           Desde(m, g) == \A i \in m..t : g[i] = Busca(g, ids, max, orden, i)
           ns == {n \in 0..t : ~ \E g : Desde(t - n, g)}
<1>1. t \in Nat /\ t = max + 2
  BY DEF Tras
<1>2. ns = {}
  <2>1. SUFFICES ASSUME ns # {} PROVE FALSE
    OBVIOUS
  <2>2. PICK n \in ns : \A m \in ns : n <= m
    <3>1. ns \subseteq Nat /\ ns # {}
      BY <1>1, <2>1
    <3> HIDE DEF ns
    <3>2. QED
      BY <3>1, MinimoNat
  <2> DEFINE m == t - n
  <2>3. n \in 0..t /\ m \in 0..t /\ ~ \E g : Desde(m, g)
    BY <1>1, <2>2
  <2>4. PICK g : Desde(m + 1, g)
    <3>1. CASE n = 0
      <4>1. (m + 1)..t = {}
        BY <1>1, <2>3, <3>1
      <4>2. QED
        BY <4>1
    <3>2. CASE n # 0
      <4>1. n - 1 \in 0..t /\ n - 1 < n /\ t - (n - 1) = m + 1
        BY <1>1, <2>3, <3>2
      <4>2. n - 1 \notin ns
        BY <2>2, <2>3, <4>1
      <4>3. \E h : Desde(t - (n - 1), h)
        BY <4>1, <4>2
      <4>4. QED
        BY <4>1, <4>3
    <3>3. QED
      BY <3>1, <3>2
  <2> DEFINE h == [i \in m..t |-> IF i = m THEN Busca(g, ids, max, orden, m) ELSE g[i]]
  <2>5. \A i \in (m + 1)..t : h[i] = g[i]
    BY <1>1, <2>3
  <2>6. ASSUME NEW i \in m..t
        PROVE  Busca(h, ids, max, orden, i) = Busca(g, ids, max, orden, i)
    <3> DEFINE j == AsignarID(ids, max, i)
    <3>1. i > max \/ i \in 0..max
      BY <1>1, <2>3
    <3>2. i > max \/ Tras(j) \in (i + 1)..t
      BY <3>1, BuscaSube
    <3>3. i > max \/ h[Tras(j)] = g[Tras(j)]
      <4> HIDE DEF h, j
      <4>1. (i + 1)..t \subseteq (m + 1)..t
        BY <1>1, <2>3
      <4>2. QED
        BY <2>5, <3>2, <4>1
    <3> HIDE DEF h
    <3>4. QED
      BY <3>3 DEF Busca
  <2>7. ASSUME NEW i \in m..t PROVE h[i] = Busca(h, ids, max, orden, i)
    <3>1. CASE i = m
      BY <2>6, <3>1
    <3>2. CASE i # m
      <4>1. i \in (m + 1)..t
        BY <1>1, <2>3, <3>2
      <4>2. h[i] = g[i] /\ g[i] = Busca(g, ids, max, orden, i)
        BY <2>4, <2>5, <4>1
      <4>3. QED
        BY <2>6, <4>2
    <3>3. QED
      BY <3>1, <3>2
  <2>8. QED
    BY <2>3, <2>7
<1>3. PICK g : Desde(0, g)
  <2>1. t \in 0..t /\ t - t = 0
    BY <1>1
  <2>2. QED
    BY <1>2, <2>1
<1> DEFINE f == [i \in 0..t |-> g[i]]
<1>4. \A i \in 0..t : f[i] = g[i]
  OBVIOUS
<1>5. ASSUME NEW i \in 0..t PROVE Busca(f, ids, max, orden, i) = g[i]
  <2> DEFINE j == AsignarID(ids, max, i)
  <2>1. i > max \/ i \in 0..max
    BY <1>1
  <2>2. i > max \/ Tras(j) \in 0..t
    <3>1. i > max \/ Tras(j) \in (i + 1)..t
      BY <2>1, BuscaSube
    <3> HIDE DEF j
    <3>2. QED
      BY <1>1, <3>1
  <2>3. i > max \/ f[Tras(j)] = g[Tras(j)]
    BY <1>4, <2>2
  <2> HIDE DEF f
  <2>4. Busca(f, ids, max, orden, i) = Busca(g, ids, max, orden, i)
    BY <2>3 DEF Busca
  <2>5. QED
    BY <1>3, <2>4
<1>6. f = [i \in 0..t |-> Busca(f, ids, max, orden, i)]
  <2>1. \A i \in 0..t : f[i] = Busca(f, ids, max, orden, i)
    BY <1>4, <1>5
  <2> HIDE DEF t
  <2>2. QED
    BY <2>1
<1>7. EsBusqueda(f, ids, max, orden)
  <2> HIDE DEF f
  <2>1. QED
    BY <1>6 DEF EsBusqueda
<1>8. QED
  BY <1>7

(* The search from i on goes over f: it looked at p and at every second one  *)
(* of the row from p to f.                                                   *)
PasaSobre(ids, i, f) ==
  \E p \in ids :
    /\ i <= p /\ p < f /\ Impar(f - p)
    /\ p..(f - 1) \subseteq ids
    /\ p = i \/ p - 1 \notin ids

LEMMA ImparSigue ==
  ASSUME NEW n \in Nat PROVE Impar(1) /\ (Impar(n) => Impar(n + 2))
BY DEF Impar

(* It goes over the one after the first, j, and over those it goes over      *)
(* from the second after it on.                                              *)
LEMMA PasaDesde ==
  ASSUME NEW ids \in SUBSET Nat, NEW i \in Nat, NEW j \in ids, j >= i,
         \A m \in ids : m >= i => j <= m,
         NEW f \in ids, f = j + 1 \/ PasaSobre(ids, j + 2, f)
  PROVE  PasaSobre(ids, i, f)
<1>1. j \in Nat /\ f \in Nat
  OBVIOUS
<1>2. j = i \/ j - 1 \notin ids
  BY <1>1
<1>3. CASE f = j + 1
  <2>1. j < f /\ f - j = 1 /\ j..(f - 1) \subseteq ids
    BY <1>1, <1>3
  <2>2. QED
    BY <1>2, <2>1, ImparSigue DEF PasaSobre
<1>4. CASE PasaSobre(ids, j + 2, f)
  <2>1. PICK p \in ids :
          /\ j + 2 <= p /\ p < f /\ Impar(f - p)
          /\ p..(f - 1) \subseteq ids
          /\ p = j + 2 \/ p - 1 \notin ids
    BY <1>4 DEF PasaSobre
  <2>2. p \in Nat /\ i <= p
    BY <1>1, <2>1
  <2>3. CASE p - 1 \notin ids
    BY <2>1, <2>2, <2>3 DEF PasaSobre
  <2>4. CASE p = j + 2 /\ p - 1 \in ids
    <3>1. f - j \in Nat /\ f - p \in Nat /\ f - j = (f - p) + 2
      BY <1>1, <2>1, <2>2, <2>4
    <3>2. Impar(f - j)
      BY <2>1, <3>1, ImparSigue
    <3>3. j < f /\ j..(f - 1) \subseteq ids
      <4>1. j + 1 \in ids
        BY <1>1, <2>4
      <4>2. ASSUME NEW x \in j..(f - 1) PROVE x = j \/ x = j + 1 \/ x \in p..(f - 1)
        BY <1>1, <2>4
      <4>3. QED
        BY <1>1, <2>1, <2>2, <4>1, <4>2
    <3>4. QED
      BY <1>2, <3>2, <3>3 DEF PasaSobre
  <2>5. QED
    BY <2>1, <2>3, <2>4
<1>5. QED
  BY <1>3, <1>4

(* It gives none worse than a, and none of those from i on is better but     *)
(* those it goes over.                                                       *)
LEMMA BusquedaElige ==
  ASSUME NEW ids \in SUBSET Nat, NEW max \in Nat, \A x \in ids : x <= max, NEW orden,
         \A x \in ids : <<x, x>> \notin orden,
         \A x, y \in ids : <<x, y>> \in orden => <<y, x>> \notin orden,
         \A x, y, z \in ids :
           <<x, y>> \notin orden /\ <<y, z>> \notin orden => <<x, z>> \notin orden,
         NEW g, EsBusqueda(g, ids, max, orden)
  PROVE  \A i \in 0..Tras(max) : \A a \in ids :
           /\ g[i][a] \in ids /\ <<g[i][a], a>> \notin orden
           /\ \A f \in ids : f >= i =>
                \/ <<g[i][a], f>> \notin orden
                \/ PasaSobre(ids, i, f)
<1> DEFINE t == Tras(max)
           Bien(i) == \A a \in ids :
             /\ g[i][a] \in ids /\ <<g[i][a], a>> \notin orden
             /\ \A f \in ids : f >= i =>
                  \/ <<g[i][a], f>> \notin orden
                  \/ PasaSobre(ids, i, f)
           ns == {n \in 0..t : ~Bien(t - n)}
<1>1. t \in Nat /\ t = max + 2
  BY DEF Tras
<1>2. \A i \in 0..t : g[i] = Busca(g, ids, max, orden, i)
  BY DEF EsBusqueda
<1>3. ASSUME NEW i \in 0..t, \A m \in (i + 1)..t : Bien(m) PROVE Bien(i)
  <2> SUFFICES ASSUME NEW a \in ids
               PROVE  /\ g[i][a] \in ids /\ <<g[i][a], a>> \notin orden
                      /\ \A f \in ids : f >= i =>
                           \/ <<g[i][a], f>> \notin orden
                           \/ PasaSobre(ids, i, f)
    OBVIOUS
  <2> DEFINE j == AsignarID(ids, max, i)
             b == IF j \in ids /\ <<a, j>> \in orden THEN j ELSE a
             r == g[Tras(j)][b]
  <2>1. CASE i > max
    <3>1. g[i][a] = a
      BY <1>2, <2>1 DEF Busca
    <3>2. \A f \in ids : ~(f >= i)
      BY <1>1, <2>1
    <3>3. QED
      BY <3>1, <3>2
  <2>2. CASE i \in 0..max
    <3>1. g[i][a] = r
      <4>1. ~(i > max)
        BY <2>2
      <4>2. QED
        BY <1>2, <4>1 DEF Busca
    <3>2. b \in ids /\ <<b, a>> \notin orden
      OBVIOUS
    <3>3. j \in ids => <<b, j>> \notin orden
      OBVIOUS
    <3>4. Tras(j) \in (i + 1)..t /\ j \in Nat /\ Tras(j) = j + 2
      BY <2>2, BuscaSube DEF Tras
    <3>5. Bien(Tras(j))
      BY <1>3, <3>4
    <3>6. /\ r \in ids /\ <<r, b>> \notin orden
          /\ \A f \in ids : f >= Tras(j) =>
               \/ <<r, f>> \notin orden
               \/ PasaSobre(ids, Tras(j), f)
      BY <3>2, <3>5
    <3>7. \/ j \in ids /\ j >= i /\ \A m \in ids : m >= i => j <= m
          \/ \A m \in ids : m < i
      <4>1. i \in Nat
        BY <2>2
      <4>2. QED
        BY <4>1, AsignarIDEsPrimero
    <3> HIDE DEF j, b, r
    <3>8. r \in ids /\ <<r, a>> \notin orden
      BY <3>2, <3>6
    <3>9. ASSUME NEW f \in ids, f >= i
          PROVE  \/ <<r, f>> \notin orden
                 \/ PasaSobre(ids, i, f)
      <4>1. i \in Nat /\ f \in Nat
        BY <2>2
      <4>2. j \in ids /\ j >= i /\ f >= j
        BY <3>7, <3>9, <4>1
      <4>3. f = j \/ f = j + 1 \/ f >= Tras(j)
        BY <3>4, <4>1, <4>2
      <4>4. CASE f = j
        BY <3>2, <3>3, <3>6, <4>4
      <4>5. CASE f = j + 1
        BY <3>7, <4>1, <4>2, <4>5, PasaDesde
      <4>6. CASE f >= Tras(j)
        <5>1. <<r, f>> \notin orden \/ PasaSobre(ids, j + 2, f)
          BY <3>4, <3>6, <4>6
        <5>2. \A m \in ids : m >= i => j <= m
          BY <3>7, <4>1, <4>2
        <5>3. QED
          BY <4>1, <4>2, <5>1, <5>2, PasaDesde
      <4>7. QED
        BY <4>3, <4>4, <4>5, <4>6
    <3>10. QED
      BY <3>1, <3>8, <3>9
  <2>3. QED
    BY <1>1, <2>1, <2>2
<1> HIDE DEF Bien
<1>4. ns = {}
  <2>1. SUFFICES ASSUME ns # {} PROVE FALSE
    OBVIOUS
  <2>2. PICK n \in ns : \A m \in ns : n <= m
    <3>1. ns \subseteq Nat /\ ns # {}
      BY <1>1, <2>1
    <3> HIDE DEF ns
    <3>2. QED
      BY <3>1, MinimoNat
  <2>3. n \in 0..t /\ t - n \in 0..t /\ ~Bien(t - n)
    BY <1>1, <2>2
  <2>4. ASSUME NEW m \in ((t - n) + 1)..t PROVE Bien(m)
    <3>1. t - m \in 0..t /\ t - m < n /\ t - (t - m) = m
      BY <1>1, <2>3
    <3>2. t - m \notin ns
      BY <2>2, <2>3, <3>1
    <3>3. QED
      BY <3>1, <3>2
  <2>5. QED
    BY <1>3, <2>3, <2>4
<1>5. ASSUME NEW i \in 0..t PROVE Bien(i)
  <2>1. t - i \in 0..t /\ t - (t - i) = i
    BY <1>1
  <2>2. QED
    BY <1>4, <2>1
<1>6. QED
  BY <1>5 DEF Bien

(* An ESI has the greatest socket.                                           *)
LEMMA HayKeyMaxima ==
  ASSUME NEW s \in Numeraciones, ESIs # {}
  PROVE  \E e \in ESIs : \A f \in ESIs : s[f] <= s[e]
<1> DEFINE S == {s[e] : e \in ESIs}
<1>1. s \in [ESIs -> Sockets]
  BY DEF Numeraciones
<1>2. S \subseteq Sockets /\ S # {}
  BY <1>1
<1>3. S \in SUBSET Nat /\ IsFiniteSet(S)
  BY <1>2, SocketsAssumption, FS_Subset
<1>4. \E x \in S : \A y \in S : y <= x
  <2> HIDE DEF S
  <2>1. QED
    BY <1>2, <1>3, MaximoNat
<1>5. QED
  BY <1>4

(* calcularSiguiente chooses well among any ready ESIs.                      *)
LEMMA SiempreBienElegido ==
  ASSUME ProximaPositiva, NEW l \in SUBSET ESIs, l # {}
  PROVE  BienElegido(l)
<1> SUFFICES ASSUME NEW a \in {"SJF", "HRRN"}, NEW s \in Numeraciones,
                    NEW d \in [ESIs -> Datos]
             PROVE  LET c == CalcularSiguiente(a, s, d, l) IN
                    c \in l /\ \A f \in l : Pondera(a, d[c], d[f]) => Saltado(s, l, f)
  BY Zenon DEF BienElegido
<1> DEFINE ids == {s[e] : e \in l}
           ultimo == CHOOSE e \in ESIs : \A f \in ESIs : s[f] <= s[e]
           max == s[ultimo]
           de(j) == CHOOSE e \in l : s[e] = j
           orden == {x \in ids \X ids : Pondera(a, d[de(x[1])], d[de(x[2])])}
           Cuerpo(g, i) ==
             LET j == AsignarID(ids, max, i)
                 mejor(b) == j \in ids /\ Pondera(a, d[de(b)], d[de(j)])
             IN [b \in ids |-> IF i > max THEN b
                               ELSE g[Tras(j)][IF mejor(b) THEN j ELSE b]]
           sigue == CHOOSE g : g = [i \in 0..Tras(max) |-> Cuerpo(g, i)]
           primero == AsignarID(ids, max, 0)
           r == sigue[primero + 1][primero]
<1>1. CalcularSiguiente(a, s, d, l) = de(r)
  BY Zenon DEF CalcularSiguiente
<1>2. s \in [ESIs -> Sockets] /\ Sockets \subseteq Nat
  BY SocketsAssumption DEF Numeraciones
<1>3. ids \in SUBSET Nat /\ ids # {}
  BY <1>2
<1>4. ultimo \in ESIs /\ \A f \in ESIs : s[f] <= max
  BY HayKeyMaxima
<1>5. max \in Nat /\ \A x \in ids : x <= max
  BY <1>2, <1>4
<1>6. \A j \in ids : de(j) \in l /\ s[de(j)] = j
  OBVIOUS
<1>7. \A f \in l : s[f] \in ids /\ de(s[f]) = f
  <2>1. \A e, f \in ESIs : s[e] = s[f] => e = f
    BY <1>2 DEF Numeraciones, IsInjective
  <2>2. QED
    BY <1>6, <2>1
<1>8. \A x, y \in ids : <<x, y>> \in orden <=> Pondera(a, d[de(x)], d[de(y)])
  OBVIOUS
<1> HIDE DEF ids, max, de, orden
<1>9. ASSUME NEW g, NEW i \in 0..Tras(max) PROVE Cuerpo(g, i) = Busca(g, ids, max, orden, i)
  <2> DEFINE j == AsignarID(ids, max, i)
  <2>1. \A b \in ids : j \in ids /\ <<b, j>> \in orden
                         <=> j \in ids /\ Pondera(a, d[de(b)], d[de(j)])
    BY <1>8
  <2> HIDE DEF j
  <2>2. \A b \in ids : (IF j \in ids /\ <<b, j>> \in orden THEN j ELSE b)
                       = IF j \in ids /\ Pondera(a, d[de(b)], d[de(j)]) THEN j ELSE b
    BY <2>1
  <2>3. Busca(g, ids, max, orden, i) =
          [b \in ids |-> IF i > max THEN b
             ELSE g[Tras(j)][IF j \in ids /\ <<b, j>> \in orden THEN j ELSE b]]
    BY Zenon DEF Busca, j
  <2>4. Cuerpo(g, i) =
          [b \in ids |-> IF i > max THEN b
             ELSE g[Tras(j)][IF j \in ids /\ Pondera(a, d[de(b)], d[de(j)])
                               THEN j ELSE b]]
    BY Zenon DEF j
  <2> HIDE DEF Cuerpo
  <2>5. QED
    BY <2>2, <2>3, <2>4
<1> HIDE DEF Cuerpo
<1>10. EsBusqueda(sigue, ids, max, orden)
  <2>1. PICK g : EsBusqueda(g, ids, max, orden)
    BY <1>3, <1>5, BusquedaExiste
  <2>2. g = [i \in 0..Tras(max) |-> Cuerpo(g, i)]
    BY <1>9, <2>1 DEF EsBusqueda
  <2>3. sigue = [i \in 0..Tras(max) |-> Cuerpo(sigue, i)]
    BY <2>2, Zenon
  <2> HIDE DEF sigue
  <2>4. QED
    BY <1>9, <2>3 DEF EsBusqueda
<1> HIDE DEF sigue
<1>11. /\ \A x \in ids : <<x, x>> \notin orden
       /\ \A x, y \in ids : <<x, y>> \in orden => <<y, x>> \notin orden
       /\ \A x, y, z \in ids :
            <<x, y>> \notin orden /\ <<y, z>> \notin orden => <<x, z>> \notin orden
  <2>1. \A x \in ids : d[de(x)] \in Datos
    BY <1>6
  <2>2. QED
    BY <1>8, <2>1, PonderaOrdena
<1>12. primero \in ids /\ \A f \in ids : primero <= f
  <2>1. \A x \in ids : x \in Nat /\ x >= 0
    BY <1>3
  <2>2. \/ primero \in ids /\ \A m \in ids : m >= 0 => primero <= m
        \/ \A m \in ids : m < 0
    BY <1>3, AsignarIDEsPrimero
  <2> HIDE DEF primero
  <2>3. PICK x \in ids : x >= 0 /\ x \in Nat
    BY <1>3, <2>1
  <2>4. ~(x < 0)
    BY <2>3
  <2>5. QED
    BY <2>1, <2>2, <2>3, <2>4
<1> HIDE DEF primero
<1>13. primero + 1 \in 0..Tras(max) /\ primero \in Nat
  <2>1. primero \in Nat /\ primero <= max
    BY <1>3, <1>5, <1>12
  <2>2. QED
    BY <1>5, <2>1 DEF Tras
<1>14. /\ r \in ids /\ <<r, primero>> \notin orden
       /\ \A f \in ids : f >= primero + 1 =>
            \/ <<r, f>> \notin orden
            \/ PasaSobre(ids, primero + 1, f)
  BY <1>3, <1>5, <1>10, <1>11, <1>12, <1>13, BusquedaElige
<1> HIDE DEF r
<1>15. de(r) \in l
  BY <1>6, <1>14
<1>16. ASSUME NEW f \in l, Pondera(a, d[de(r)], d[f]) PROVE Saltado(s, l, f)
  <2>1. s[f] \in ids /\ s[f] \in Nat
    BY <1>3, <1>7
  <2>2. <<r, s[f]>> \in orden
    BY <1>7, <1>8, <1>14, <1>16, <2>1
  <2>3. s[f] # primero /\ s[f] >= primero + 1
    BY <1>12, <1>13, <1>14, <2>1, <2>2
  <2> DEFINE otros == {x \in ids : \E y \in ids : y < x}
  <2>4. PICK p \in ids :
          /\ primero + 1 <= p /\ p < s[f] /\ Impar(s[f] - p)
          /\ p..(s[f] - 1) \subseteq ids
          /\ p = primero + 1 \/ p - 1 \notin ids
    BY <1>14, <2>1, <2>2, <2>3 DEF PasaSobre
  <2>5. \A x \in ids : x \in otros <=> primero < x
    BY <1>3, <1>12, <1>13
  <2>6. p \in Nat /\ p \in otros
    BY <1>3, <1>13, <2>4, <2>5
  <2>7. p..(s[f] - 1) \subseteq otros
    <3>1. \A x \in p..(s[f] - 1) : x \in ids /\ primero < x
      BY <1>13, <2>1, <2>4, <2>6
    <3>2. QED
      BY <2>5, <3>1
  <2>8. p - 1 \notin otros
    <3>1. p - 1 = primero \/ p - 1 \notin ids
      BY <1>13, <2>4, <2>6
    <3>2. otros \subseteq ids /\ primero \notin otros
      BY <1>12, <1>13, <2>5
    <3>3. QED
      BY <3>1, <3>2
  <2> HIDE DEF otros
  <2>9. \E q \in otros :
          /\ q < s[f] /\ Impar(s[f] - q)
          /\ q..(s[f] - 1) \subseteq otros /\ q - 1 \notin otros
    BY <2>4, <2>6, <2>7, <2>8
  <2>10. QED
    BY <2>9, Zenon DEF Saltado, otros, ids
<1>17. QED
  BY <1>1, <1>15, <1>16

(***************************************************************************)
(* The ESI SJF and HRRN run next is ready, and none that is ready is        *)
(* better but those whose socket the search goes over: for any sockets and  *)
(* estimates, and any ready ESIs of any execution.                          *)
(***************************************************************************)
THEOREM EleccionSiempreDebida ==
  ASSUME Supuestos, ProximaPositiva PROVE Spec => []EleccionDebida
<1>1. Tipos /\ Contados => EleccionDebida
  <2>1. SUFFICES ASSUME Tipos, Contados, pc = "elige"
                 PROVE  listos \notin MalElegidos /\ listos # {}
    BY DEF EleccionDebida
  <2>2. listos \subseteq ESIs /\ ESIentrada \in Nat
    BY <2>1 DEF Tipos, TypeOK, PlanTypeOK
  <2>3. listos # {}
    BY <2>1, <2>2, FS_EmptySet DEF Contados, ListosContados, Uno
  <2>4. BienElegido(listos)
    BY <2>2, <2>3, SiempreBienElegido
  <2>5. listos \notin MalElegidos
    BY <2>4, Zenon DEF MalElegidos
  <2>6. QED
    BY <2>3, <2>5
<1>2. Bases /\ Turnos => Tipos /\ Contados
  BY DEF Bases, Turnos
<1>3. QED
  BY <1>1, <1>2, TurnosSiempre, PTL
=============================================================================
