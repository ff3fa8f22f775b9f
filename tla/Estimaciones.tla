---------------------------- MODULE Estimaciones ----------------------------
(***************************************************************************)
(* The choice of the next ESI (algoritmos.c), which Planificador leaves    *)
(* open.  g_listos is a dictionary by socket number: s gives the socket of *)
(* each ESI, l the ready ones and d what t_infoListos has of each.         *)
(* Estimates are counted in hundredths, as ALFA is.                        *)
(***************************************************************************)
EXTENDS Planificador

CONSTANTS
  Alfa,      \* ALFA of planificador.cfg
  Sockets,   \* the numbers the sockets of the ESIs may have
  Datos      \* the values of t_infoListos: [est, real, espera]

ASSUME AlfaAssumption == Alfa \in 0..100
ASSUME SocketsAssumption == Sockets \subseteq Nat /\ IsFiniteSet(Sockets)
ASSUME DatosAssumption == Datos \subseteq [est: Nat \ {0}, real: Nat, espera: Nat]

(* calcularProximaRafaga, and calcularRR without its "1 +"                  *)
CalcularProximaRafaga(x) == x.est * Alfa + x.real * (100 - Alfa)

CalcularRR(x) == (100 * x.espera) \div CalcularProximaRafaga(x)

(* ponderacion: esMayor for SJF and esMenor for HRRN, which take int: the   *)
(* fraction of both values is lost.                                         *)
Pondera(algoritmo, a, b) ==
  IF algoritmo = "HRRN" THEN CalcularRR(a) < CalcularRR(b)
  ELSE CalcularProximaRafaga(a) \div 100 > CalcularProximaRafaga(b) \div 100

(* asignarID: the first socket of ids from i on, else the last it looked at *)
AsignarID(ids, max, i) ==
  LET hay == {j \in ids : j >= i}
  IN IF hay = {} THEN max ELSE CHOOSE j \in hay : \A m \in hay : j <= m

(* Where the search goes on once the socket j was looked at: asignarID has  *)
(* moved i past it, and the for of calcularSiguiente adds one more.         *)
TrasDosDeMas(j) == j + 3
Tras(j) == j + 2

(* calcularSiguiente: a is key, the best so far; max is g_keyMaxima once    *)
(* every ESI connected.                                                     *)
CalcularSiguiente(algoritmo, s, d, l) ==
  LET ids == {s[e] : e \in l}
      max == s[CHOOSE e \in ESIs : \A f \in ESIs : s[f] <= s[e]]
      de(j) == CHOOSE e \in l : s[e] = j
      sigue[i \in 0..Tras(max)] ==
        LET j == AsignarID(ids, max, i)
            mejor(a) == j \in ids /\ Pondera(algoritmo, d[de(a)], d[de(j)])
        IN [a \in ids |-> IF i > max THEN a
                          ELSE sigue[Tras(j)][IF mejor(a) THEN j ELSE a]]
      primero == AsignarID(ids, max, 0)
  IN de(sigue[primero + 1][primero])
=============================================================================
