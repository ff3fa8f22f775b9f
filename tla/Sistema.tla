------------------------------ MODULE Sistema ------------------------------
(***************************************************************************)
(* Re Distinto: the planner, the coordinator, the ESIs and the instances,  *)
(* composed over the connections of Canales.                               *)
(***************************************************************************)
EXTENDS Planificador, Esi, Coordinador, InstanciaAbstracta

vars == <<varsPlan, varsEsi, varsCoord, varsInst, canales>>

TypeOK ==
  /\ CanalesTypeOK /\ PlanTypeOK /\ EsiTypeOK /\ CoordTypeOK /\ InstTypeOK

Init ==
  /\ CanalesInit /\ PlanInit /\ EsiInit /\ CoordInit
  /\ InstInit(Range(TablaInicial))

(* The coordinator exits when the planner's socket closes and the planner   *)
(* when the coordinator's does: after a crash only the ESIs go on.          *)
EnPie == ~caido /\ ~coordCaido

HiloAlgoritmos ==
  EnPie /\ PasoAlgoritmos /\ UNCHANGED <<varsEsi, varsCoord, varsInst>>
HiloCoordinador ==
  EnPie /\ PasoCoordinador /\ UNCHANGED <<varsEsi, varsCoord, varsInst>>
HiloServidor(e) ==
  EnPie /\ PasoServidor(e) /\ UNCHANGED <<varsEsi, varsCoord, varsInst>>

ProcesoEsi(e) ==
  EnPie /\ PasoEsi(e) /\ UNCHANGED <<varsPlan, varsCoord, varsInst>>
MuereEsi(e) ==
  EnPie /\ Matar(e) /\ UNCHANGED <<varsPlan, varsCoord, varsInst>>
EsiSinPlanificador(e) ==
  ~EnPie /\ ProcesarError(e) /\ UNCHANGED <<varsPlan, varsCoord, varsInst>>

HiloDeEsi(e) ==
  EnPie /\ PasoHiloEsi(e) /\ UNCHANGED <<varsPlan, varsEsi, varsInst>>
HiloDePlan ==
  EnPie /\ PasoHiloPlan /\ UNCHANGED <<varsPlan, varsEsi, varsInst>>
HiloDeInst(i) ==
  EnPie /\ PasoHiloInst(i) /\ UNCHANGED <<varsPlan, varsEsi, varsInst>>

ProcesoInstancia(i) ==
  EnPie /\ PasoInstancia(i) /\ UNCHANGED <<varsPlan, varsEsi, varsCoord>>
EntornoInstancia(i) ==
  /\ EnPie
  /\ ConectarInstancia(i) \/ Dump(i) \/ MatarInstancia(i)
  /\ UNCHANGED <<varsPlan, varsEsi, varsCoord>>

PasoDeEsi(e) ==
  \/ HiloServidor(e) \/ ProcesoEsi(e) \/ MuereEsi(e)
  \/ EsiSinPlanificador(e) \/ HiloDeEsi(e)

PasoDeInstancia(i) ==
  HiloDeInst(i) \/ ProcesoInstancia(i) \/ EntornoInstancia(i)

Next ==
  \/ HiloAlgoritmos \/ HiloCoordinador \/ HiloDePlan
  \/ \E e \in ESIs : PasoDeEsi(e)
  \/ \E i \in Instancias : PasoDeInstancia(i)

Spec == Init /\ [][Next]_vars

(***************************************************************************)
(* Every thread that can run eventually runs: they are POSIX threads, the  *)
(* semaphores are waited for by threads that make finitely many requests,  *)
(* and select serves every ready socket in each turn.  Nothing is assumed  *)
(* of the environment: an ESI may never be started, an instance may never  *)
(* come back, dump may never run.                                          *)
(***************************************************************************)
EsiSigue(e) == vida[e] # "nueva" /\ ProcesoEsi(e)

Equidad ==
  /\ WF_vars(HiloAlgoritmos) /\ WF_vars(HiloCoordinador) /\ WF_vars(HiloDePlan)
  /\ \A e \in ESIs : /\ WF_vars(HiloServidor(e))
                      /\ WF_vars(EsiSigue(e))
                      /\ WF_vars(HiloDeEsi(e))
  /\ \A i \in Instancias : WF_vars(HiloDeInst(i)) /\ WF_vars(ProcesoInstancia(i))

SpecJusta == Spec /\ Equidad
=============================================================================
