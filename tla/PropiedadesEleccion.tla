------------------------ MODULE PropiedadesEleccion ------------------------
(* What calcularSiguiente must do with the ready ESIs Sistema reaches.       *)
EXTENDS PropiedadesSistema, Estimaciones

Numeraciones == {s \in [ESIs -> Sockets] : IsInjective(s)}

(* calcularSiguiente goes over the socket of f without a look.  After the   *)
(* least of the ready ones it looks at the first of a row of them, and at   *)
(* every second one from it on: the row begins an odd number before f.      *)
Impar(n) == n % 2 = 1

Saltado(s, l, f) ==
  LET todos == {s[e] : e \in l}
      otros == {x \in todos : \E y \in todos : y < x}
  IN \E p \in otros :
       /\ p < s[f] /\ Impar(s[f] - p)
       /\ p..(s[f] - 1) \subseteq otros
       /\ p - 1 \notin otros

(* Of the ready ESIs l, calcularSiguiente gives the one to run.              *)
BienElegido(l) ==
  \A a \in {"SJF", "HRRN"}, s \in Numeraciones, d \in [ESIs -> Datos] :
    LET c == CalcularSiguiente(a, s, d, l) IN
    c \in l /\ \A f \in l : Pondera(a, d[c], d[f]) => Saltado(s, l, f)

MalElegidos == UNION {IF BienElegido(l) THEN {} ELSE {l} : l \in (SUBSET ESIs) \ {{}}}

(***************************************************************************)
(* Whenever hiloAlgoritmos chooses, SJF and HRRN give it a ready ESI, and   *)
(* no other ready one has a better estimate or response ratio, in whole    *)
(* units, but those whose socket calcularSiguiente goes over.              *)
(***************************************************************************)
EleccionDebida == pc = "elige" => listos \notin MalElegidos /\ listos # {}
=============================================================================
