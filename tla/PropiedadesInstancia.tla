------------------------ MODULE PropiedadesInstancia ------------------------
(* What Instancia must do: the properties the runs of MCInstancia check.     *)
EXTENDS Instancia

(***************************************************************************)
(* The bitmap marks the slots of the values of the table and no others,    *)
(* and no slot belongs to two values: first fit, eviction, compaction and  *)
(* recovery all keep the table and the bitmap in agreement.                *)
(***************************************************************************)
LugaresAjenos ==
  \A a, b \in tabla : a # b => Lugar(a) \cap Lugar(b) = {}

BitMapExacto == bitMap = UNION {Lugar(e) : e \in tabla}

StorageConsistente == LugaresAjenos /\ BitMapExacto

(***************************************************************************)
(* The replacement algorithms evict only values of one slot.               *)
(***************************************************************************)
SoloAtomicas ==
  [][paso = "reemplaza" =>
       \A e \in tabla \ tabla' : EntradasNecesarias(e.tamanio) = 1]_vars

(***************************************************************************)
(* A process that ended on its own terms has written every value to its    *)
(* file: "Espero para hacer el ultimo dump".                               *)
(***************************************************************************)
UltimoDump == paso = "terminada" => \A e \in tabla : disco[e.clave] = ValorDe(e)

(***************************************************************************)
(* Instancia is an Almacen: a stored value does not change while other     *)
(* keys come, go, are compacted or recovered, and a file gets the value of *)
(* its key.  The promise ends when a SET_DEFINITIVO repeats a key or the   *)
(* value of a key is asked for, and only then.                             *)
(***************************************************************************)
Fiable == paso # "sinGarantia"

Mapa ==
  [k \in Claves |->
     IF EnMarcha /\ Fiable /\ k \in ClavesDe(tabla) THEN ValorDe(EntradaDe(k))
                                                   ELSE Nada]

ElAlmacen == INSTANCE Almacen WITH mapa <- Mapa, fiable <- Fiable

EsUnAlmacen == ElAlmacen!Spec
=============================================================================
