----------------------------- MODULE MCSistema -----------------------------
(* Small instances of Sistema: the scripts the ESIs run.                     *)
EXTENDS PropiedadesSistema

CONSTANTS e1, e2, e3, k1, k2, i1, i2

Get(k) == [op |-> "GET", clave |-> k]
Set(k) == [op |-> "SET", clave |-> k]
Store(k) == [op |-> "STORE", clave |-> k]

(* One key, written and stored. *)
GuionCorto(k) == <<Get(k), Set(k), Store(k)>>

(* Two keys, held together and written while both are held. *)
GuionLargo ==
  <<Get(k1), Get(k2), Set(k2), Store(k2), Set(k1), Store(k1)>>

(* An ESI that ends without the STORE of its key. *)
GuionOlvido == <<Get(k1), Set(k1)>>

GuionesTurnos ==
  {GuionCorto(k1), GuionCorto(k2), GuionLargo, GuionOlvido}

GuionesNucleo == {GuionCorto(k1), GuionCorto(k2), GuionLargo}

GuionesCortos == {GuionCorto(k1)}

GuionesParalelos == {GuionCorto(k1), GuionCorto(k2)}

(* Scripts an ESI should not have been given: a key that is too long, a SET *)
(* or a STORE of a key it never took, and a last statement that may block   *)
(* and leaves its keys taken.                                               *)
GuionLargaClave == <<Get(k1), Sin("LARGA")>>
GuionSetAjeno == <<Set(k1), Store(k1)>>
GuionStoreAjeno == <<Store(k1)>>
GuionSinStore == <<Get(k1), Get(k2)>>

GuionesFallos ==
  {GuionCorto(k1), GuionLargaClave, GuionSetAjeno, GuionStoreAjeno, GuionSinStore}

(* One ESI (the one that may be killed) is sound; the other has any of them. *)
InitFallos == Init /\ guion[e1] = GuionCorto(k1)

SpecFallos == InitFallos /\ [][Next]_vars

UnaInstancia == <<i1>>
DosInstancias == <<i1, i2>>
=============================================================================
