--------------------------- MODULE SistemaConsola ---------------------------
(***************************************************************************)
(* Sistema with somebody at the console of the planner.                    *)
(***************************************************************************)
EXTENDS Sistema, Consola

varsConConsola == <<vars, varsConsola>>

ResDelPlan == <<varsEsi, varsCoord, varsInst>>

InitConConsola == Init /\ ConsolaInit

AlgoritmosConConsola ==
  EnPie /\ PasoAlgoritmosConConsola /\ UNCHANGED ResDelPlan
CoordinadorConConsola ==
  EnPie /\ PasoCoordinadorConConsola /\ UNCHANGED ResDelPlan
HiloConsola ==
  EnPie /\ PasoConsola /\ UNCHANGED ResDelPlan
ServidorConConsola ==
  EnPie /\ (\E e \in ESIs : LiberaNulo(e)) /\ UNCHANGED ResDelPlan

OtrosHilos ==
  /\ \/ HiloDePlan
     \/ \E e \in ESIs : PasoDeEsi(e)
     \/ \E i \in Instancias : PasoDeInstancia(i)
  /\ UNCHANGED varsConsola

NextConConsola ==
  \/ AlgoritmosConConsola \/ CoordinadorConConsola
  \/ HiloConsola \/ ServidorConConsola \/ OtrosHilos

SpecConConsola == InitConConsola /\ [][NextConConsola]_varsConConsola
=============================================================================
