------------------------------- MODULE Almacen -------------------------------
(***************************************************************************)
(* What an Instancia promises of its values, wherever it keeps them: a key *)
(* has the value of its SET until it is forgotten, whatever happens to the *)
(* other keys, and a file gets the value its key has.  The promise ends    *)
(* with a SET_DEFINITIVO of a key that has a value or a request for one,   *)
(* and a new process makes it again.                                       *)
(***************************************************************************)
CONSTANTS
  Claves,   \* the keys
  Valores,  \* the values
  Nada,     \* no value, no file
  Vacio     \* a file that was opened and not written

VARIABLES
  mapa,     \* the value of each key
  disco,    \* the file of each key
  fiable    \* the promise holds

SinValores == [k \in Claves |-> Nada]

Init == mapa = SinValores /\ disco = SinValores /\ fiable = TRUE

Guardar(k, v) ==
  /\ fiable
  /\ mapa[k] = Nada
  /\ mapa' = [mapa EXCEPT ![k] = v]
  /\ UNCHANGED <<disco, fiable>>

Olvidar(k) ==
  /\ mapa' = [mapa EXCEPT ![k] = Nada]
  /\ UNCHANGED <<disco, fiable>>

Archivar(k) ==
  /\ mapa[k] \in Valores
  /\ disco' = [disco EXCEPT ![k] = mapa[k]]
  /\ UNCHANGED <<mapa, fiable>>

(* The promise ends, because a key has a value.                             *)
Romper ==
  /\ mapa # SinValores
  /\ fiable' = FALSE
  /\ mapa' = SinValores
  /\ UNCHANGED disco

Ensuciar(k) ==
  /\ ~fiable
  /\ \E v \in Valores \cup {Vacio} : disco' = [disco EXCEPT ![k] = v]
  /\ UNCHANGED <<mapa, fiable>>

(* The process ends; the files it was writing may be left empty.            *)
Caer ==
  /\ mapa' = SinValores
  /\ \E K \in SUBSET Claves :
       disco' = [k \in Claves |-> IF k \in K THEN Vacio ELSE disco[k]]
  /\ fiable' = TRUE

Next ==
  \/ \E k \in Claves : \/ Olvidar(k) \/ Archivar(k) \/ Ensuciar(k)
                       \/ \E v \in Valores : Guardar(k, v)
  \/ Romper \/ Caer

Spec == Init /\ [][Next]_<<mapa, disco, fiable>>
=============================================================================
