------------------------------ MODULE MCTurnos ------------------------------
(* The instances of MCSistema with sockets and estimates for the ESIs.       *)
EXTENDS MCSistema, PropiedadesEleccion

(* Estimates that differ by less than a unit, and ratios that do.            *)
DatosTurnos ==
  {[est |-> 3, real |-> r, espera |-> w] : r \in {0, 1, 4}, w \in {0, 7}}
=============================================================================
