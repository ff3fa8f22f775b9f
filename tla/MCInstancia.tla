---------------------------- MODULE MCInstancia ----------------------------
(* Small instances of Instancia: values of one slot and of two.              *)
EXTENDS PropiedadesInstancia, TLC

CONSTANTS k1, k2, k3, simple, doble

(* With slots of 2 characters, simple fills one and doble takes two.         *)
TamanioMC == [v \in Valores |-> IF v = simple THEN 2 ELSE 3]

(* The keys are interchangeable.                                             *)
Simetria == Permutations(Claves)
=============================================================================
