------------------------------ MODULE Deadlock ------------------------------
(***************************************************************************)
(* The command deadlock of the console: which ESIs it prints, in groups,   *)
(* from the tables as they are.  It changes none of them.  A matrix of 0   *)
(* and 1 is the relation of the places that hold 1.                        *)
(***************************************************************************)
EXTENDS Consola

(* The rows of matrizEspera, g_ESIsDeadlock, and the rows of                *)
(* matrizAsignacion, g_clavesDeadlock.  Places past them are never read.    *)
EsisDeadlock == {e \in ESIs : EstaBloqueado(e)}
ClavesDeadlock == UNION {tomadas[n] : n \in Nombres}

MatrizEspera ==
  {x \in EsisDeadlock \X ClavesDeadlock :
     x[2] \in enBloq /\ x[1] \in Range(cola[x[2]])}

MatrizAsignacion ==
  {x \in ClavesDeadlock \X EsisDeadlock : x[1] \in tomadas[x[2]]}

(* procesosAlaEsperaDeProcesos: their composition, and then its closure by  *)
(* Warshall, one turn of the outer loop for each ESI.                       *)
ProcesosALaEspera ==
  {x \in EsisDeadlock \X EsisDeadlock :
     \E k \in ClavesDeadlock :
       <<x[1], k>> \in MatrizEspera /\ <<k, x[2]>> \in MatrizAsignacion}

VueltaAlReves(T, k) ==
  T \cup {x \in EsisDeadlock \X EsisDeadlock : <<x[1], k>> \in T /\ <<x[2], k>> \in T}
Vuelta(T, k) ==
  T \cup {x \in EsisDeadlock \X EsisDeadlock : <<x[1], k>> \in T /\ <<k, x[2]>> \in T}

Cierre == FoldSet(LAMBDA k, T : Vuelta(T, k), ProcesosALaEspera, EsisDeadlock)

(* The loop that prints: the ESI of a row with a 1 in the diagonal opens a  *)
(* group with those it reaches that are in the diagonal, and clears theirs. *)
Imprime(inf, e) ==
  LET alcanza == {f \in EsisDeadlock : <<e, f>> \in Cierre}
  IN IF e \in inf.diagonal
       THEN [diagonal |-> inf.diagonal \ alcanza,
             grupos |-> Append(inf.grupos, inf.diagonal \cap alcanza)]
       ELSE inf

Informe ==
  FoldLeft(Imprime,
           [diagonal |-> {e \in EsisDeadlock : <<e, e>> \in Cierre}, grupos |-> <<>>],
           SetToSeq(EsisDeadlock)).grupos
=============================================================================
