------------------------ MODULE PropiedadesConsola ------------------------
(* What Sistema must still do, whatever is typed at the console.             *)
EXTENDS PropiedadesSistema, SistemaConsola, Deadlock

TypeOKConConsola == TypeOK /\ ConsolaTypeOK

(***************************************************************************)
(* bloquear and desbloquear of the console put no ESI in two places, the   *)
(* list they have in their hands being one: in its turn, ready, in a list. *)
(* But for an ESI that was chosen while bloquear looked for it, whose id   *)
(* is listed though it is elsewhere.                                       *)
(***************************************************************************)
EnLaConsola(e) == e \in Range(lista) \/ (orden.que = "agregar" /\ orden.esi = e)

SoloUnRegistro ==
  \A e \in ESIs \ nulos :
    /\ ~(e \in listos /\ EnSuTurno(e))
    /\ EnAlgunaCola(e) \/ EnLaConsola(e) => e \notin listos /\ ~EnSuTurno(e)
    /\ ~(EnAlgunaCola(e) /\ EnLaConsola(e))
    /\ \A k, l \in Claves : \A p \in DOMAIN cola[k], q \in DOMAIN cola[l] :
         cola[k][p] = e /\ cola[l][q] = e => k = l /\ p = q

(***************************************************************************)
(* A STORE of the holder of a key finds an empty list in g_bloq, which     *)
(* kills the planner, only while liberarESI empties one or the console     *)
(* adds the first ESI to the one it put there.                             *)
(***************************************************************************)
AgregaA(k) == orden.que \in {"sacar", "agregar"} /\ orden.clave = k

VacioConConsola ==
  /\ \A k \in Claves :
       TomadaConLista(k) /\ cola[k] = <<>> => libera.vacia = k \/ AgregaA(k)
  /\ SinBloqSinCola

(***************************************************************************)
(* The command deadlock prints the ESIs that wait for each other in a      *)
(* cycle, each in one group only, and no other.  The console is one thread *)
(* and prints between commands; with a NULL in the lists it dies.          *)
(***************************************************************************)
EsperaPor(e, f) == \E k \in Claves : e \in Range(cola[k]) /\ k \in tomadas[f]

EnCiclo(e) ==
  \E s \in SetToAllKPermutations(ESIs) :
    /\ e \in Range(s)
    /\ \A p \in DOMAIN s : EsperaPor(s[p], s[(p % Len(s)) + 1])

DeadlockInformado ==
  orden = SinOrden /\ nulos = {} =>
    LET g == Informe IN
    /\ UNION Range(g) = {e \in ESIs : EnCiclo(e)}
    /\ \A p, q \in DOMAIN g : p # q => g[p] \cap g[q] = {}

(***************************************************************************)
(* Between a "pausar" that got the mutex and the next "continuar" no ESI   *)
(* is asked for a statement, also if it was chosen, or the loop had read   *)
(* its condition, before the pause.  But once a "continuar" came while     *)
(* hiloAlgoritmos had the mutex: its own unlock may then end a later pause.*)
(***************************************************************************)
Pedidos(e) == Cardinality(Donde(aEsi[e], "SOLICITUD_EJECUCION"))

PausaDetiene ==
  [][pausado /\ pausado' /\ ~ajena =>
       \A e \in ESIs : Pedidos(e)' <= Pedidos(e)]_varsConConsola
=============================================================================
