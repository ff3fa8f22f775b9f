----------------------------- MODULE MCConsola -----------------------------
(* A small instance of SistemaConsola: two ESIs that take two keys in        *)
(* opposite orders.                                                          *)
EXTENDS MCSistema, PropiedadesConsola

GuionDirecto == <<Get(k1), Get(k2)>>
GuionInverso == <<Get(k2), Get(k1), Store(k2)>>

GuionesConsola == {GuionDirecto, GuionInverso}

InitOpuestos ==
  /\ InitConConsola
  /\ guion[e1] = GuionDirecto
  /\ guion[e2] = GuionInverso

SpecOpuestos == InitOpuestos /\ [][NextConConsola]_varsConConsola
=============================================================================
