------------------------------ MODULE Cerrojos ------------------------------
(***************************************************************************)
(* What the planner promises of the keys, without threads, semaphores or   *)
(* connections.  Only a key nobody has and nobody waits for is taken.  Who *)
(* waits is in one queue, once, and each queue is served in order of       *)
(* arrival: giving a key back takes the first out.  No other leaves a      *)
(* queue but those who go.                                                 *)
(***************************************************************************)
EXTENDS Naturals, Sequences

CONSTANTS Duenos, Claves

VARIABLES
  tiene,   \* the keys each owner has
  espera,  \* the queue of each key
  idos     \* the owners that are known to have gone

SinDueno(k) == \A n \in Duenos : k \notin tiene[n]

Espera(e, s) == \E p \in DOMAIN s : s[p] = e

Inicio ==
  /\ tiene = [n \in Duenos |-> {}]
  /\ espera = [k \in Claves |-> <<>>]
  /\ idos = {}

Toma(n, k) ==
  /\ SinDueno(k)
  /\ espera[k] = <<>>
  /\ tiene' = [tiene EXCEPT ![n] = @ \cup {k}]
  /\ UNCHANGED <<espera, idos>>

(* Between the refusal and the wait the key may have been given back.       *)
SeEncola(e, k) ==
  /\ \A l \in Claves : ~Espera(e, espera[l])
  /\ espera' = [espera EXCEPT ![k] = Append(@, e)]
  /\ UNCHANGED <<tiene, idos>>

Devuelve(n, k) ==
  /\ k \in tiene[n]
  /\ tiene' = [tiene EXCEPT ![n] = @ \ {k}]
  /\ espera' = [espera EXCEPT ![k] = IF @ = <<>> THEN @ ELSE Tail(@)]
  /\ UNCHANGED idos

(* An owner that is aborted or disconnects gives all back and wakes nobody. *)
DevuelveTodo(n) ==
  /\ tiene' = [tiene EXCEPT ![n] = {}]
  /\ UNCHANGED <<espera, idos>>

(* t is s without its e, if it has one. *)
SinEse(s, t, e) ==
  \/ ~Espera(e, s) /\ t = s
  \/ \E p \in DOMAIN s : s[p] = e /\ t = SubSeq(s, 1, p - 1) \o SubSeq(s, p + 1, Len(s))

(* An owner that is not in its turn goes, its waits with it, one by one.    *)
Abandona(e) ==
  /\ idos' = idos \cup {e}
  /\ UNCHANGED tiene
  /\ DOMAIN espera' = Claves
  /\ \A k \in Claves : SinEse(espera[k], espera'[k], e)

Despide(e) ==
  /\ idos' = idos \cup {e}
  /\ UNCHANGED <<tiene, espera>>

Paso ==
  \/ \E n \in Duenos, k \in Claves : Toma(n, k) \/ SeEncola(n, k) \/ Devuelve(n, k)
  \/ \E n \in Duenos : DevuelveTodo(n) \/ Abandona(n) \/ Despide(n)

Promesa == Inicio /\ [][Paso]_<<tiene, espera, idos>>
=============================================================================
