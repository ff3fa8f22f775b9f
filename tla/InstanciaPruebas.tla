-------------------------- MODULE InstanciaPruebas --------------------------
(***************************************************************************)
(* Theorems of Instancia, for any keys, values, sizes, number of slots and *)
(* replacement algorithm.  What the storage operations do to the table is  *)
(* proved once, of any table, bitmap and storage (TablaBien and MapaDe);   *)
(* Inductivo says of the process what those lemmas need, and both the      *)
(* invariants and the refinement of Almacen follow from it.                *)
(***************************************************************************)
EXTENDS PropiedadesInstancia, Minimos, FiniteSetTheorems

-----------------------------------------------------------------------------
(* The inductive invariant *)

(* The slots of e in the storage st hold v, in order.                      *)
Guarda(st, e, v) ==
  /\ Tamanio[v] = e.tamanio
  /\ \A p \in 0..(EntradasNecesarias(e.tamanio) - 1) :
       st[e.indexComienzo + p] = [de |-> v, parte |-> p]

(* The table T, with the bitmap B and the storage st.                      *)
SinClavesRepetidas(T) == \A a, b \in T : a.clave = b.clave => a = b
SinSolapes(T) == \A a, b \in T : a # b => Lugar(a) \cap Lugar(b) = {}
ConValor(st, T) ==
  \A e \in T : Lugar(e) \subseteq Indices /\ \E v \in Valores : Guarda(st, e, v)

TablaBien(B, st, T) ==
  /\ T \subseteq Entradas
  /\ SinClavesRepetidas(T)
  /\ SinSolapes(T)
  /\ B = UNION {Lugar(e) : e \in T}
  /\ ConValor(st, T)

(* The key c has the value v in the table T.                               *)
Tiene(st, T, c, v) == \E e \in T : e.clave = c /\ Guarda(st, e, v)

(* From the table T to the table T2: no value changes; k gets the value v; *)
(* k loses its value.                                                      *)
MismosValores(st, T, st2, T2) ==
  \A c, w : Tiene(st2, T2, c, w) <=> Tiene(st, T, c, w)
UnoMas(st, T, st2, T2, k, v) ==
  \A c, w : Tiene(st2, T2, c, w) <=> Tiene(st, T, c, w) \/ (c = k /\ w = v)
UnoMenos(st, T, st2, T2, k) ==
  \A c, w : Tiene(st2, T2, c, w) <=> Tiene(st, T, c, w) /\ c # k

(* What the main thread may count on at each step of a request.            *)
PedidoEnCurso ==
  /\ paso \in {"borra", "decide", "reemplaza", "agrega"} =>
       pedido \in Pedidos /\ pedido.valor \in Valores
  /\ paso \in {"borra", "almacena"} => pedido.clave \in ClavesDe(tabla)
  /\ paso \in {"decide", "reemplaza"} => pedido.clave \notin ClavesDe(tabla)
  /\ paso = "reemplaza" => porEliminar > 0

(* What the dump still has to write is in the table.                       *)
DumpEnCurso == hiloDump = "vuelca" => pendientes \subseteq ClavesDe(tabla)

(* The files left to recover are of keys that are not in the table.        *)
RecuperacionEnCurso ==
  paso = "recupera" =>
    /\ hiloDump = "parado"
    /\ \A k \in porRecuperar : k \notin ClavesDe(tabla) /\ disco[k] # Nada

Inductivo ==
  /\ TypeOK
  /\ TablaBien(bitMap, storage, tabla)
  /\ PedidoEnCurso
  /\ DumpEnCurso
  /\ RecuperacionEnCurso

-----------------------------------------------------------------------------
(* Naturals *)

(* A value of at least one character takes at least one slot.              *)
LEMMA AlMenosUna ==
  ASSUME NEW t \in Nat \ {0}
  PROVE  EntradasNecesarias(t) \in Nat \ {0}
<1> DEFINE q == t \div TamanioEntrada
           r == t % TamanioEntrada
<1>1. t = TamanioEntrada * q + r /\ q \in Nat /\ r \in Nat
  BY StorageAssumption
<1>2. r = 0 => q # 0
  BY <1>1, StorageAssumption
<1> HIDE DEF q, r
<1>3. EntradasNecesarias(t) = q + (IF r # 0 THEN 1 ELSE 0)
  BY DEF EntradasNecesarias, q, r
<1>4. QED
  BY <1>1, <1>2, <1>3

-----------------------------------------------------------------------------
(* The table *)

(* The slots of an entry are its first one and the ones that follow it.    *)
LEMMA LugarDeEntrada ==
  ASSUME NEW e \in Entradas
  PROVE  /\ EntradasNecesarias(e.tamanio) \in Nat \ {0}
         /\ e.indexComienzo \in Lugar(e)
         /\ \A j : j \in Lugar(e) <=>
              /\ j \in Int
              /\ e.indexComienzo <= j
              /\ j < e.indexComienzo + EntradasNecesarias(e.tamanio)
<1>1. e.tamanio \in Nat \ {0} /\ e.indexComienzo \in Int
  BY DEF Entradas, Indices
<1>2. EntradasNecesarias(e.tamanio) \in Nat \ {0}
  BY <1>1, AlMenosUna
<1>3. QED
  BY <1>1, <1>2 DEF Lugar, Tramo

(* Two values that the same slots hold are the same one.                   *)
LEMMA ValorUnico ==
  ASSUME NEW e \in Entradas, NEW st, NEW v, NEW w,
         Guarda(st, e, v), Guarda(st, e, w)
  PROVE  v = w
<1>1. 0 \in 0..(EntradasNecesarias(e.tamanio) - 1)
  BY LugarDeEntrada
<1>2. /\ st[e.indexComienzo + 0] = [de |-> v, parte |-> 0]
      /\ st[e.indexComienzo + 0] = [de |-> w, parte |-> 0]
  BY <1>1 DEF Guarda
<1>3. [de |-> v, parte |-> 0].de = [de |-> w, parte |-> 0].de
  BY <1>2
<1>4. QED
  BY <1>3

(* eliminarClave takes an entry out of the table and frees its slots.      *)
LEMMA TablaSin ==
  ASSUME NEW B, NEW st, NEW T, TablaBien(B, st, T), NEW e \in T
  PROVE  TablaBien(B \ Lugar(e), st, T \ {e})
<1>1. B \ Lugar(e) = UNION {Lugar(x) : x \in T \ {e}}
  <2>1. \A x \in T \ {e} : Lugar(x) \cap Lugar(e) = {}
    BY DEF TablaBien, SinSolapes
  <2>2. B = UNION {Lugar(x) : x \in T}
    BY DEF TablaBien
  <2>3. QED
    BY <2>1, <2>2
<1>2. QED
  BY <1>1 DEF TablaBien, SinClavesRepetidas, SinSolapes, ConValor

(* An entry of another key, in free slots, joins the table.                *)
LEMMA TablaCon ==
  ASSUME NEW B, NEW st, NEW T, TablaBien(B, st, T),
         NEW e \in Entradas, e.clave \notin ClavesDe(T),
         Lugar(e) \subseteq Indices \ B,
         NEW v \in Valores, Guarda(st, e, v)
  PROVE  TablaBien(B \cup Lugar(e), st, T \cup {e})
<1>1. B = UNION {Lugar(x) : x \in T}
  BY DEF TablaBien
<1>2. SinClavesRepetidas(T \cup {e})
  BY DEF TablaBien, SinClavesRepetidas, ClavesDe
<1>3. SinSolapes(T \cup {e})
  <2>1. \A x \in T : Lugar(x) \cap Lugar(e) = {}
    BY <1>1
  <2>2. QED
    BY <2>1 DEF TablaBien, SinSolapes
<1>4. B \cup Lugar(e) = UNION {Lugar(x) : x \in T \cup {e}}
  BY <1>1
<1>5. ConValor(st, T \cup {e})
  BY DEF TablaBien, ConValor
<1>6. QED
  BY <1>2, <1>3, <1>4, <1>5 DEF TablaBien

(* Writing free slots leaves every value of the table where it is.         *)
LEMMA EscribirLibres ==
  ASSUME NEW B, NEW st, NEW T, TablaBien(B, st, T),
         NEW st2, \A j \in B : st2[j] = st[j]
  PROVE  /\ TablaBien(B, st2, T)
         /\ \A e \in T : \A v : Guarda(st2, e, v) <=> Guarda(st, e, v)
<1>1. ASSUME NEW e \in T, NEW v
      PROVE  Guarda(st2, e, v) <=> Guarda(st, e, v)
  <2>1. e \in Entradas /\ Lugar(e) \subseteq B
    BY DEF TablaBien
  <2>2. \A p \in 0..(EntradasNecesarias(e.tamanio) - 1) :
          e.indexComienzo + p \in Lugar(e)
    BY <2>1, LugarDeEntrada DEF Entradas, Indices
  <2>3. QED
    BY <2>1, <2>2 DEF Guarda
<1>2. QED
  BY <1>1 DEF TablaBien, ConValor

(* aumentarTiempoReferenciadoMenosAClave changes nothing but the ages.     *)
ConEdad(e, k) ==
  [e EXCEPT !.tiempoReferenciado = IF e.clave = k THEN 0 ELSE @ + 1]

SalvoEdad(r, e) ==
  /\ r.clave = e.clave
  /\ r.tamanio = e.tamanio
  /\ r.indexComienzo = e.indexComienzo

(* Nothing of a table but the ages of its entries changes.                 *)
LEMMA EdadesSolas ==
  ASSUME NEW T \in SUBSET Entradas, NEW k
  PROVE  /\ Referenciadas(T, k) \subseteq Entradas
         /\ ClavesDe(Referenciadas(T, k)) = ClavesDe(T)
         /\ \A e \in T : \E r \in Referenciadas(T, k) : SalvoEdad(r, e)
         /\ \A r \in Referenciadas(T, k) : \E e \in T :
              r = ConEdad(e, k) /\ SalvoEdad(r, e)
<1>1. \A e \in T : ConEdad(e, k) \in Entradas /\ SalvoEdad(ConEdad(e, k), e)
  BY DEF Entradas, ConEdad, SalvoEdad
<1>2. Referenciadas(T, k) = {ConEdad(e, k) : e \in T}
  BY DEF Referenciadas, ConEdad
<1>3. ClavesDe(Referenciadas(T, k)) = ClavesDe(T)
  BY <1>1, <1>2 DEF ClavesDe, SalvoEdad
<1>4. QED
  BY <1>1, <1>2, <1>3

(* So the table is as good as before, for the same bitmap and storage.     *)
LEMMA TablaReferenciada ==
  ASSUME NEW B, NEW st, NEW T, TablaBien(B, st, T), NEW k
  PROVE  /\ TablaBien(B, st, Referenciadas(T, k))
         /\ MismosValores(st, T, st, Referenciadas(T, k))
<1> DEFINE R == Referenciadas(T, k)
<1>1. T \in SUBSET Entradas
  BY DEF TablaBien
<1>2. /\ R \subseteq Entradas
      /\ \A e \in T : \E r \in R : SalvoEdad(r, e)
      /\ \A r \in R : \E e \in T : SalvoEdad(r, e)
      /\ \A r1, r2 \in R : \A e1, e2 \in T :
           SalvoEdad(r1, e1) /\ SalvoEdad(r2, e2) /\ e1 = e2 => r1 = r2
  <2>1. /\ R \subseteq Entradas
        /\ \A e \in T : \E r \in R : SalvoEdad(r, e)
        /\ \A r \in R : \E e \in T : SalvoEdad(r, e)
    BY <1>1, EdadesSolas
  <2>2. ASSUME NEW r1 \in R, NEW r2 \in R, NEW e \in T,
               SalvoEdad(r1, e), SalvoEdad(r2, e)
        PROVE  r1 = r2
    <3>1. PICK e1 \in T, e2 \in T : /\ r1 = ConEdad(e1, k) /\ SalvoEdad(r1, e1)
                                    /\ r2 = ConEdad(e2, k) /\ SalvoEdad(r2, e2)
      BY <1>1, EdadesSolas
    <3>2. e1 = e2
      BY <2>2, <3>1 DEF TablaBien, SinClavesRepetidas, SalvoEdad
    <3>3. QED
      BY <3>1, <3>2
  <2>3. QED
    BY <2>1, <2>2
<1> HIDE DEF R
<1>3. \A r, e : SalvoEdad(r, e) => Lugar(r) = Lugar(e)
  BY DEF Lugar, SalvoEdad
<1>4. \A r, e, v : SalvoEdad(r, e) => (Guarda(st, r, v) <=> Guarda(st, e, v))
  BY DEF Guarda, SalvoEdad
<1>5. SinClavesRepetidas(R)
  <2> SUFFICES ASSUME NEW a \in R, NEW b \in R, a.clave = b.clave
               PROVE  a = b
    BY DEF SinClavesRepetidas
  <2>1. PICK x \in T, y \in T : SalvoEdad(a, x) /\ SalvoEdad(b, y)
    BY <1>2
  <2>2. x = y
    BY <2>1 DEF TablaBien, SinClavesRepetidas, SalvoEdad
  <2>3. QED
    BY <1>2, <2>1, <2>2
<1>6. SinSolapes(R)
  <2> SUFFICES ASSUME NEW a \in R, NEW b \in R, a # b
               PROVE  Lugar(a) \cap Lugar(b) = {}
    BY DEF SinSolapes
  <2>1. PICK x \in T, y \in T : SalvoEdad(a, x) /\ SalvoEdad(b, y)
    BY <1>2
  <2>2. x # y
    BY <1>2, <2>1
  <2>3. QED
    BY <1>3, <2>1, <2>2 DEF TablaBien, SinSolapes
<1>7. B = UNION {Lugar(r) : r \in R}
  <2>1. B = UNION {Lugar(e) : e \in T}
    BY DEF TablaBien
  <2>2. {Lugar(r) : r \in R} = {Lugar(e) : e \in T}
    BY <1>2, <1>3
  <2>3. QED
    BY <2>1, <2>2
<1>8. ConValor(st, R)
  BY <1>2, <1>3, <1>4 DEF TablaBien, ConValor
<1>9. MismosValores(st, T, st, R)
  BY <1>2, <1>4 DEF MismosValores, Tiene, SalvoEdad
<1>10. TablaBien(B, st, R)
  BY <1>2, <1>5, <1>6, <1>7, <1>8 DEF TablaBien
<1>11. QED
  BY <1>9, <1>10 DEF R

(* agregarClaveValor: the new value is written where no other one is.      *)
LEMMA TablaConNueva ==
  ASSUME NEW B, NEW st, NEW T, TablaBien(B, st, T),
         NEW e \in Entradas, e.clave \notin ClavesDe(T),
         Lugar(e) \subseteq Indices \ B,
         NEW v \in Valores, Tamanio[v] = e.tamanio,
         NEW st2,
         \A j \in Indices \ Lugar(e) : st2[j] = st[j],
         \A j \in Lugar(e) : st2[j] = [de |-> v, parte |-> j - e.indexComienzo]
  PROVE  /\ TablaBien(B \cup Lugar(e), st2, T \cup {e})
         /\ UnoMas(st, T, st2, T \cup {e}, e.clave, v)
<1>1. B \subseteq Indices
  BY DEF TablaBien, ConValor
<1>2. \A j \in B : st2[j] = st[j]
  BY <1>1
<1>3. Guarda(st2, e, v)
  <2> DEFINE i == e.indexComienzo
  <2> SUFFICES ASSUME NEW p \in 0..(EntradasNecesarias(e.tamanio) - 1)
               PROVE  st2[i + p] = [de |-> v, parte |-> p]
    BY DEF Guarda
  <2>1. i \in Int /\ p \in Int /\ (i + p) - i = p
    BY LugarDeEntrada DEF Indices, Entradas
  <2>2. i + p \in Lugar(e)
    BY <2>1, LugarDeEntrada
  <2>3. QED
    BY <2>1, <2>2
<1>4. /\ TablaBien(B, st2, T)
      /\ \A x \in T : \A w : Guarda(st2, x, w) <=> Guarda(st, x, w)
  BY <1>2, EscribirLibres
<1>5. TablaBien(B \cup Lugar(e), st2, T \cup {e})
  BY <1>3, <1>4, TablaCon
<1>6. \A w : Guarda(st2, e, w) => w = v
  BY <1>3, ValorUnico
<1>7. QED
  BY <1>3, <1>4, <1>5, <1>6 DEF UnoMas, Tiene

(* compactar: an entry moves to the free slots before it, which may overlap*)
(* the ones it leaves.                                                     *)
LEMMA TablaConMovida ==
  ASSUME NEW B, NEW st, NEW T, TablaBien(B, st, T), NEW e \in T,
         NEW i \in Indices, i < e.indexComienzo,
         \A j \in i..(e.indexComienzo - 1) : j \notin B,
         NEW m, m = [e EXCEPT !.indexComienzo = i],
         NEW st2,
         \A j \in Indices :
           st2[j] = IF j \in Lugar(m) THEN st[e.indexComienzo + (j - i)]
                                      ELSE st[j]
  PROVE  /\ TablaBien((B \ Lugar(e)) \cup Lugar(m), st2, (T \ {e}) \cup {m})
         /\ MismosValores(st, T, st2, (T \ {e}) \cup {m})
<1> DEFINE n == EntradasNecesarias(e.tamanio)
<1>1. e \in Entradas /\ Lugar(e) \subseteq Indices
  BY DEF TablaBien, ConValor
<1>2. /\ m \in Entradas
      /\ m.clave = e.clave /\ m.tamanio = e.tamanio /\ m.indexComienzo = i
  BY <1>1 DEF Entradas
<1>3. /\ i \in Int /\ e.indexComienzo \in Int /\ n \in Nat \ {0}
      /\ \A j : j \in Lugar(e) <=> j \in Int /\ e.indexComienzo <= j
                                             /\ j < e.indexComienzo + n
      /\ \A j : j \in Lugar(m) <=> j \in Int /\ i <= j /\ j < i + n
  BY <1>1, <1>2, LugarDeEntrada DEF Entradas, Indices
<1> HIDE DEF n
<1>4. Lugar(m) \subseteq Indices \ (B \ Lugar(e))
  <2> SUFFICES ASSUME NEW j \in Lugar(m)
               PROVE  j \in Indices /\ j \notin B \ Lugar(e)
    OBVIOUS
  <2>1. CASE j < e.indexComienzo
    <3>1. j \in Int /\ i <= j /\ j <= e.indexComienzo - 1
      BY <1>3, <2>1
    <3>2. j \in i..(e.indexComienzo - 1)
      BY <1>3, <3>1
    <3>3. /\ i \in 0..(CantEntradas - 1)
          /\ e.indexComienzo \in 0..(CantEntradas - 1)
      BY <1>1 DEF Entradas, Indices
    <3>4. j \in 0..(CantEntradas - 1)
      BY <3>1, <3>3, StorageAssumption
    <3>5. QED
      BY <3>2, <3>4 DEF Indices
  <2>2. CASE j >= e.indexComienzo
    BY <1>1, <1>3, <2>2
  <2>3. QED
    BY <1>3, <2>1, <2>2
<1>5. TablaBien(B \ Lugar(e), st, T \ {e})
  BY TablaSin
<1>6. B \ Lugar(e) \subseteq Indices
  BY DEF TablaBien, ConValor
<1>7. \A j \in B \ Lugar(e) : st2[j] = st[j]
  BY <1>4, <1>6
<1>8. /\ TablaBien(B \ Lugar(e), st2, T \ {e})
      /\ \A x \in T \ {e} : \A w : Guarda(st2, x, w) <=> Guarda(st, x, w)
  BY <1>5, <1>7, EscribirLibres
<1>9. \A w : Guarda(st2, m, w) <=> Guarda(st, e, w)
  <2>1. ASSUME NEW p \in 0..(n - 1)
        PROVE  st2[i + p] = st[e.indexComienzo + p]
    <3>1. i + p \in Lugar(m) /\ (i + p) - i = p
      BY <1>3
    <3>2. i + p \in Indices
      BY <1>4, <3>1
    <3>3. QED
      BY <3>1, <3>2
  <2>2. QED
    BY <1>2, <2>1 DEF Guarda, n
<1>10. PICK v \in Valores : Guarda(st, e, v)
  BY DEF TablaBien, ConValor
<1>11. m.clave \notin ClavesDe(T \ {e})
  BY <1>2 DEF TablaBien, SinClavesRepetidas, ClavesDe
<1>12. TablaBien((B \ Lugar(e)) \cup Lugar(m), st2, (T \ {e}) \cup {m})
  BY <1>2, <1>4, <1>8, <1>9, <1>10, <1>11, TablaCon
<1>13. QED
  BY <1>2, <1>8, <1>9, <1>12 DEF MismosValores, Tiene

(* No two entries start at the same slot, so there are finitely many.      *)
LEMMA TablaFinita ==
  ASSUME NEW B, NEW st, NEW T, TablaBien(B, st, T)
  PROVE  /\ B \subseteq Indices /\ T \subseteq Entradas
         /\ IsFiniteSet(B) /\ IsFiniteSet(T)
<1>1. B \subseteq Indices /\ T \subseteq Entradas
  BY DEF TablaBien, ConValor
<1>2. IsFiniteSet(Indices)
  BY FS_Interval, StorageAssumption DEF Indices
<1>3. [e \in T |-> e.indexComienzo] \in Injection(T, Indices)
  <2>1. \A e \in T : e.indexComienzo \in Indices /\ e.indexComienzo \in Lugar(e)
    BY <1>1, LugarDeEntrada DEF Entradas
  <2>2. \A a, b \in T : a.indexComienzo = b.indexComienzo => a = b
    BY <2>1 DEF TablaBien, SinSolapes
  <2>3. QED
    BY <2>1, <2>2 DEF Injection, IsInjective
<1>4. IsFiniteSet(T)
  BY <1>2, <1>3, FS_Injection
<1>5. IsFiniteSet(B)
  BY <1>1, <1>2, FS_Subset
<1>6. QED
  BY <1>1, <1>4, <1>5

-----------------------------------------------------------------------------
(* Inductivo: the start of the process *)

(* The empty table, with no slot taken.                                    *)
LEMMA TablaVacia ==
  ASSUME NEW st
  PROVE  TablaBien({}, st, {})
BY DEF TablaBien, SinClavesRepetidas, SinSolapes, ConValor

(* The process starts with an empty table and no request.                  *)
LEMMA InductivoAlInicio == Init => Inductivo
<1> SUFFICES ASSUME Init PROVE Inductivo
  OBVIOUS
<1>1. TypeOK
  <2>1. /\ 0 \in Indices /\ 0 \in 0..CantEntradas
        /\ 0 \in Nat /\ 0 \in 0..MaxPedidos
    BY StorageAssumption, MaxPedidosAssumption DEF Indices
  <2>2. QED
    BY <2>1, Zenon DEF Init, TypeOK, Pasos
<1>2. TablaBien(bitMap, storage, tabla)
  BY TablaVacia DEF Init
<1>3. PedidoEnCurso /\ DumpEnCurso /\ RecuperacionEnCurso
  BY DEF Init, PedidoEnCurso, DumpEnCurso, RecuperacionEnCurso
<1>4. QED
  BY <1>1, <1>2, <1>3 DEF Inductivo

(* enviarInfoInstancia: the storage is created, empty, for a new life.     *)
LEMMA InductivoEnviarInfo ==
  ASSUME Inductivo, ProcesarEnviarInfoInstancia
  PROVE  Inductivo'
<1> USE DEF ProcesarEnviarInfoInstancia
<1>1. TypeOK'
  BY StorageAssumption DEF Inductivo, TypeOK, Indices, Pasos
<1>2. TablaBien(bitMap', storage', tabla')
  BY TablaVacia
<1>3. PedidoEnCurso' /\ DumpEnCurso' /\ RecuperacionEnCurso'
  BY DEF PedidoEnCurso, DumpEnCurso, RecuperacionEnCurso, ClavesDe
<1>4. QED
  BY <1>1, <1>2, <1>3 DEF Inductivo

-----------------------------------------------------------------------------
(* Inductivo: what the requests and the recovery do to the storage *)

(* The steps of agregarClaveValor: TablaConNueva for the state.            *)
LEMMA AlAgregar ==
  ASSUME NEW T, TablaBien(bitMap, storage, T), NEW k \in Claves,
         k \notin ClavesDe(T), NEW v \in Valores,
         storage \in [Indices -> Trozos \cup {Basura}],
         AgregarClaveValor(T, k, v)
  PROVE  /\ TablaBien(bitMap', storage', tabla')
         /\ storage' \in [Indices -> Trozos \cup {Basura}]
         /\ ClavesDe(tabla') = ClavesDe(T) \cup {k}
         /\ UnoMas(storage, T, storage', tabla', k, v)
<1> DEFINE n == EntradasNecesarias(Tamanio[v])
<1>1. PICK i \in Huecos(n) :
        /\ bitMap' = bitMap \cup Tramo(i, n)
        /\ storage' = GuardarEnStorage(v, i, n)
        /\ tabla' = T \cup {[clave |-> k, tamanio |-> Tamanio[v],
                             indexComienzo |-> i, tiempoReferenciado |-> 0]}
  BY DEF AgregarClaveValor
<1> DEFINE e == [clave |-> k, tamanio |-> Tamanio[v], indexComienzo |-> i,
                 tiempoReferenciado |-> 0]
<1>2. i \in Indices /\ Tramo(i, n) \subseteq Indices \ bitMap
  BY <1>1 DEF Huecos
<1>3. Lugar(e) = Tramo(i, n)
  BY DEF Lugar
<1>4. storage' = [j \in Indices |->
                    IF j \in Lugar(e) THEN [de |-> v, parte |-> j - i]
                                      ELSE storage[j]]
  BY <1>1, <1>3 DEF GuardarEnStorage
<1>5. storage' \in [Indices -> Trozos \cup {Basura}]
  <2>1. \A j \in Lugar(e) : j - i \in Nat
    BY <1>2, <1>3 DEF Tramo, Indices
  <2>2. QED
    BY <1>4, <2>1 DEF Trozos
<1>6. tabla' = T \cup {e} /\ e.clave = k
  BY <1>1
<1>7. ClavesDe(tabla') = ClavesDe(T) \cup {k}
  BY <1>6 DEF ClavesDe
<1>8. /\ e \in Entradas
      /\ e.clave = k /\ e.tamanio = Tamanio[v] /\ e.indexComienzo = i
      /\ Lugar(e) \subseteq Indices \ bitMap
  BY <1>2, <1>3, TamanioAssumption DEF Entradas
<1> HIDE DEF e
<1>9. /\ \A j \in Indices \ Lugar(e) : storage'[j] = storage[j]
      /\ \A j \in Lugar(e) :
           storage'[j] = [de |-> v, parte |-> j - e.indexComienzo]
  BY <1>4, <1>8
<1>10. /\ TablaBien(bitMap \cup Lugar(e), storage', T \cup {e})
       /\ UnoMas(storage, T, storage', T \cup {e}, k, v)
  BY <1>8, <1>9, TablaConNueva
<1>11. QED
  BY <1>1, <1>3, <1>5, <1>6, <1>7, <1>10

(* eliminarClave: TablaSin for the state.                                  *)
LEMMA AlEliminar ==
  ASSUME TablaBien(bitMap, storage, tabla), NEW e \in tabla,
         EliminarClave(e), storage' = storage
  PROVE  /\ TablaBien(bitMap', storage', tabla')
         /\ ClavesDe(tabla') = ClavesDe(tabla) \ {e.clave}
         /\ UnoMenos(storage, tabla, storage', tabla', e.clave)
<1>1. /\ tabla' = tabla \ {e}
      /\ bitMap' = bitMap \ Lugar(e)
  BY DEF EliminarClave, LiberaLugar
<1>2. \A x \in tabla : x.clave = e.clave <=> x = e
  BY DEF TablaBien, SinClavesRepetidas
<1>3. TablaBien(bitMap', storage', tabla')
  BY <1>1, TablaSin
<1>4. ClavesDe(tabla') = ClavesDe(tabla) \ {e.clave}
  BY <1>1, <1>2 DEF ClavesDe
<1>5. UnoMenos(storage, tabla, storage', tabla', e.clave)
  BY <1>1, <1>2 DEF UnoMenos, Tiene
<1>6. QED
  BY <1>3, <1>4, <1>5

(* A key of the table has one entry, which has a value.                    *)
LEMMA LaEntrada ==
  ASSUME TablaBien(bitMap, storage, tabla), NEW k \in ClavesDe(tabla)
  PROVE  /\ EntradaDe(k) \in tabla
         /\ EntradaDe(k).clave = k
         /\ ValorDe(EntradaDe(k)) \in Valores
         /\ Tiene(storage, tabla, k, ValorDe(EntradaDe(k)))
<1> DEFINE e == EntradaDe(k)
<1>1. e \in tabla /\ e.clave = k
  BY DEF EntradaDe, ClavesDe
<1> HIDE DEF e
<1>2. {v \in Valores : Guarda(storage, e, v)} # {}
  BY <1>1 DEF TablaBien, ConValor
<1>3. ValorDe(e) \in {v \in Valores : Guarda(storage, e, v)}
  BY <1>2 DEF ValorDe, Guarda
<1>4. QED
  BY <1>1, <1>3 DEF e, Tiene

(***************************************************************************)
(* compactar: the slots between the first free one and the entry after the *)
(* free run are free, so the entry moves over nothing but itself.          *)
(***************************************************************************)
LEMMA AlMover ==
  ASSUME TypeOK, TablaBien(bitMap, storage, tabla), MoverEntrada
  PROVE  /\ TablaBien(bitMap', storage', tabla')
         /\ storage' \in [Indices -> Trozos \cup {Basura}]
         /\ cursor' \in 0..CantEntradas
         /\ ClavesDe(tabla') = ClavesDe(tabla)
         /\ MismosValores(storage, tabla, storage', tabla')
<1>1. bitMap \subseteq Indices /\ cursor \in Nat /\ CantEntradas \in Nat
  BY StorageAssumption DEF TypeOK
<1>2. /\ PrimerOcupado \in OcupadosDespues
      /\ \A j \in OcupadosDespues : PrimerOcupado <= j
  <2>1. OcupadosDespues \in SUBSET Nat /\ OcupadosDespues # {}
    BY <1>1 DEF OcupadosDespues, Indices, MoverEntrada
  <2>2. QED
    BY <2>1, MinimoNat DEF PrimerOcupado
<1> DEFINE hasta == PrimerOcupado
           i == PrimeraLibre
<1>3. /\ hasta \in bitMap /\ hasta \in Indices /\ hasta \in Nat
      /\ (cursor..hasta) \ bitMap # {}
  BY <1>1, <1>2 DEF OcupadosDespues, Indices
<1>4. /\ i \in (cursor..CantEntradas - 1) \ bitMap
      /\ \A j \in (cursor..CantEntradas - 1) \ bitMap : i <= j
  <2> DEFINE S == (cursor..CantEntradas - 1) \ bitMap
  <2>1. S \in SUBSET Nat
    BY <1>1
  <2>2. S # {}
    BY <1>1, <1>3 DEF Indices
  <2>3. \E x \in S : \A y \in S : x <= y
    BY <2>1, <2>2, MinimoNat
  <2>4. QED
    BY <2>3 DEF PrimeraLibre
<1> HIDE DEF hasta, i
<1>5. i \in Indices /\ i < hasta /\ i \in (cursor..hasta) \ bitMap
  <2>1. PICK x \in (cursor..hasta) \ bitMap : TRUE
    BY <1>3
  <2>2. x \in (cursor..CantEntradas - 1) \ bitMap
    BY <1>1, <1>3, <2>1 DEF Indices
  <2>3. i <= x /\ x < hasta
    BY <1>1, <1>3, <1>4, <2>1, <2>2
  <2>4. QED
    BY <1>1, <1>3, <1>4, <2>1, <2>3 DEF Indices
<1>6. \A j \in i..(hasta - 1) : j \notin bitMap
  <2> SUFFICES ASSUME NEW j \in i..(hasta - 1), j \in bitMap PROVE FALSE
    OBVIOUS
  <2>1. i \in (cursor..j) \ bitMap
    BY <1>1, <1>5
  <2>2. j \in OcupadosDespues
    BY <2>1 DEF OcupadosDespues
  <2>3. hasta <= j
    BY <1>2, <2>2 DEF hasta
  <2>4. QED
    BY <1>3, <1>5, <2>3 DEF Indices
<1>7. PICK e \in tabla :
        LET lugar == Tramo(i, EntradasNecesarias(e.tamanio)) IN
        /\ e.indexComienzo = hasta
        /\ tabla' = (tabla \ {e}) \cup {[e EXCEPT !.indexComienzo = i]}
        /\ storage' = [j \in Indices |->
                         IF j \in lugar THEN storage[e.indexComienzo + (j - i)]
                                        ELSE storage[j]]
        /\ bitMap' = Movido(e, i)
        /\ cursor' = hasta + 1
  BY DEF MoverEntrada, hasta, i
<1> DEFINE m == [e EXCEPT !.indexComienzo = i]
<1>8. e \in Entradas /\ Lugar(e) \subseteq Indices
  BY DEF TablaBien, ConValor
<1>9. /\ m.clave = e.clave /\ m.tamanio = e.tamanio /\ m.indexComienzo = i
      /\ m \in Entradas
  BY <1>5, <1>8 DEF Entradas
<1>10. m = [e EXCEPT !.indexComienzo = i]
  OBVIOUS
<1> HIDE DEF m
<1>11. Lugar(m) = Tramo(i, EntradasNecesarias(e.tamanio))
  BY <1>9 DEF Lugar
<1>12. /\ tabla' = (tabla \ {e}) \cup {m}
       /\ storage' = [j \in Indices |->
                        IF j \in Lugar(m)
                          THEN storage[e.indexComienzo + (j - i)]
                          ELSE storage[j]]
       /\ bitMap' = (bitMap \ Lugar(e)) \cup Lugar(m)
  BY <1>7, <1>10, <1>11 DEF Movido
<1>13. /\ TablaBien(bitMap', storage', tabla')
       /\ MismosValores(storage, tabla, storage', tabla')
  <2>1. /\ i < e.indexComienzo
        /\ \A j \in i..(e.indexComienzo - 1) : j \notin bitMap
    BY <1>5, <1>6, <1>7
  <2>2. \A j \in Indices :
          storage'[j] = IF j \in Lugar(m)
                          THEN storage[e.indexComienzo + (j - i)]
                          ELSE storage[j]
    BY <1>12
  <2>3. /\ TablaBien((bitMap \ Lugar(e)) \cup Lugar(m), storage',
                     (tabla \ {e}) \cup {m})
        /\ MismosValores(storage, tabla, storage', (tabla \ {e}) \cup {m})
    BY <1>5, <1>10, <2>1, <2>2, TablaConMovida
  <2>4. QED
    BY <1>12, <2>3
<1>14. storage' \in [Indices -> Trozos \cup {Basura}]
  <2>1. ASSUME NEW j \in Lugar(m)
        PROVE  e.indexComienzo + (j - i) \in Lugar(e)
    BY <1>5, <1>8, <1>9, <2>1, LugarDeEntrada DEF Indices, Entradas
  <2>2. QED
    BY <1>8, <1>12, <2>1 DEF TypeOK
<1>15. cursor' \in 0..CantEntradas
  BY <1>3, <1>7, StorageAssumption DEF Indices
<1>16. ClavesDe(tabla') = ClavesDe(tabla)
  BY <1>9, <1>12 DEF ClavesDe
<1>17. QED
  BY <1>13, <1>14, <1>15, <1>16

-----------------------------------------------------------------------------
(* Inductivo: the recovery *)

(* recuperarInformacionDeInstancia: the file of a key not in the table.    *)
LEMMA AlRecuperar ==
  ASSUME Inductivo, NEW k \in Claves, RecuperarArchivo(k)
  PROVE  /\ Inductivo'
         /\ \/ MismosValores(storage, tabla, storage', tabla')
            \/ /\ k \notin ClavesDe(tabla)
               /\ disco[k] \in Valores
               /\ UnoMas(storage, tabla, storage', tabla', k, disco[k])
<1>1. /\ TypeOK /\ TablaBien(bitMap, storage, tabla)
      /\ hiloDump = "parado" /\ k \notin ClavesDe(tabla) /\ disco[k] # Nada
      /\ storage \in [Indices -> Trozos \cup {Basura}]
  BY DEF Inductivo, TypeOK, RecuperacionEnCurso, RecuperarArchivo
<1>2. /\ TablaBien(bitMap', storage', tabla')
      /\ storage' \in [Indices -> Trozos \cup {Basura}]
      /\ ClavesDe(tabla') \subseteq ClavesDe(tabla) \cup {k}
      /\ \/ MismosValores(storage, tabla, storage', tabla')
         \/ /\ disco[k] \in Valores
            /\ UnoMas(storage, tabla, storage', tabla', k, disco[k])
  <2>1. CASE disco[k] # Vacio /\ HayLugar(disco[k])
    <3>1. disco[k] \in Valores
      BY <1>1, <2>1 DEF TypeOK
    <3>2. AgregarClaveValor(tabla, k, disco[k])
      BY <2>1 DEF RecuperarArchivo
    <3>3. QED
      BY <1>1, <3>1, <3>2, AlAgregar
  <2>2. CASE ~(disco[k] # Vacio /\ HayLugar(disco[k]))
    <3>1. UNCHANGED <<bitMap, storage, tabla>>
      BY <2>2 DEF RecuperarArchivo
    <3>2. QED
      BY <1>1, <3>1 DEF MismosValores, ClavesDe
  <2>3. QED
    BY <2>1, <2>2
<1>3. bitMap' \subseteq Indices /\ tabla' \subseteq Entradas
  BY <1>2, TablaFinita
<1>4. TypeOK'
  BY <1>1, <1>2, <1>3
  DEF TypeOK, RecuperarArchivo, varsDump, varsExternas
<1>5. PedidoEnCurso' /\ DumpEnCurso' /\ RecuperacionEnCurso'
  BY <1>1, <1>2
  DEF Inductivo, PedidoEnCurso, DumpEnCurso, RecuperacionEnCurso,
      RecuperarArchivo, varsDump, varsExternas
<1>6. QED
  BY <1>1, <1>2, <1>4, <1>5 DEF Inductivo

-----------------------------------------------------------------------------
(* Inductivo: the requests *)

(* borra: the old entry of the key goes.                                   *)
LEMMA AlBorrarVieja ==
  ASSUME Inductivo, BorrarVieja
  PROVE  /\ Inductivo'
         /\ pedido.clave \in Claves
         /\ UnoMenos(storage, tabla, storage', tabla', pedido.clave)
<1> DEFINE k == pedido.clave
           e == EntradaDe(k)
<1>1. /\ TypeOK /\ TablaBien(bitMap, storage, tabla)
      /\ pedido \in Pedidos /\ pedido.valor \in Valores
      /\ k \in ClavesDe(tabla) /\ k \in Claves
      /\ hiloDump # "vuelca"
  BY DEF Inductivo, PedidoEnCurso, BorrarVieja, Cerrojo, Pedidos
<1>2. e \in tabla /\ e.clave = k
  BY <1>1, LaEntrada
<1>3. EliminarClave(e) /\ storage' = storage
  BY DEF BorrarVieja
<1> HIDE DEF e
<1>4. /\ TablaBien(bitMap', storage', tabla')
      /\ ClavesDe(tabla') = ClavesDe(tabla) \ {k}
      /\ UnoMenos(storage, tabla, storage', tabla', k)
  BY <1>1, <1>2, <1>3, AlEliminar
<1>5. bitMap' \subseteq Indices /\ tabla' \subseteq Entradas
  BY <1>4, TablaFinita
<1>6. listadas' \subseteq Claves
  BY <1>1, <1>3 DEF EliminarClave, TypeOK
<1>7. TypeOK'
  BY <1>1, <1>5, <1>6 DEF TypeOK, BorrarVieja, varsDump, Pasos
<1>8. PedidoEnCurso' /\ DumpEnCurso' /\ RecuperacionEnCurso'
  BY <1>1, <1>4
  DEF PedidoEnCurso, DumpEnCurso, RecuperacionEnCurso, BorrarVieja, varsDump
<1>9. QED
  BY <1>1, <1>4, <1>7, <1>8 DEF Inductivo

(* The turns of eliminarEntradasParaReemplazo are a number: both tables are*)
(* finite.                                                                 *)
LEMMA TurnosNat ==
  ASSUME TablaBien(bitMap, storage, tabla), NEW n \in Nat
  PROVE  TurnosDeReemplazo(n) \in Nat
<1>1. IsFiniteSet(bitMap) /\ IsFiniteSet(EntradasAtomicas)
  BY TablaFinita, FS_Subset DEF EntradasAtomicas
<1>2. Cardinality(bitMap) \in Nat /\ Cardinality(EntradasAtomicas) \in Nat
  BY <1>1, FS_CardinalityType
<1>3. CantidadIndexLibres \in Int
  BY <1>2, StorageAssumption DEF CantidadIndexLibres
<1>4. QED
  BY <1>2, <1>3 DEF TurnosDeReemplazo

(* The step that decides what a SET needs touches no entry.                *)
LEMMA InductivoDecidir ==
  ASSUME Inductivo, Decidir
  PROVE  Inductivo'
<1> DEFINE n == EntradasNecesarias(Tamanio[pedido.valor])
           turnos == IF n > CantidadIndexLibres THEN TurnosDeReemplazo(n) ELSE 0
<1>1. /\ TypeOK /\ TablaBien(bitMap, storage, tabla)
      /\ pedido \in Pedidos /\ pedido.valor \in Valores
      /\ pedido.clave \notin ClavesDe(tabla)
  BY DEF Inductivo, PedidoEnCurso, Decidir
<1>2. turnos \in Nat
  <2>1. n \in Nat
    BY <1>1, AlMenosUna, TamanioAssumption
  <2>2. QED
    BY <1>1, <2>1, TurnosNat
<1>3. /\ pedido' = [pedido EXCEPT !.reemplazo = n > CantidadIndexLibres]
      /\ porEliminar' = turnos
      /\ desde' = entradaAReemplazar
      /\ paso' = IF turnos = 0 THEN "agrega" ELSE "reemplaza"
      /\ UNCHANGED <<bitMap, storage, tabla, entradaAReemplazar, cursor,
                     porRecuperar, hiloDump, pendientes, almacenar, disco,
                     listadas, fase, pedidos>>
  BY DEF Decidir, varsStorage, varsDump, varsExternas
<1>4. /\ pedido' \in Pedidos
      /\ pedido'.valor = pedido.valor /\ pedido'.clave = pedido.clave
  <2> DEFINE falta == n > CantidadIndexLibres
  <2>1. falta \in BOOLEAN
    OBVIOUS
  <2>2. pedido' = [pedido EXCEPT !.reemplazo = falta]
    BY <1>3
  <2> HIDE DEF falta
  <2>3. QED
    BY <1>1, <2>1, <2>2 DEF Pedidos
<1> HIDE DEF n, turnos
<1>5. TypeOK'
  BY <1>1, <1>2, <1>3, <1>4 DEF TypeOK, Pasos
<1>6. PedidoEnCurso'
  BY <1>1, <1>2, <1>3, <1>4 DEF PedidoEnCurso, ClavesDe
<1>7. DumpEnCurso' /\ RecuperacionEnCurso'
  BY <1>3 DEF Inductivo, DumpEnCurso, RecuperacionEnCurso, ClavesDe
<1>8. QED
  BY <1>1, <1>3, <1>5, <1>6, <1>7 DEF Inductivo

(* eliminarEntradasParaReemplazo, one turn                                 *)
LEMMA AlReemplazar ==
  ASSUME Inductivo, EliminarParaReemplazo
  PROVE  /\ Inductivo'
         /\ \E k \in Claves : UnoMenos(storage, tabla, storage', tabla', k)
<1>1. /\ TypeOK /\ TablaBien(bitMap, storage, tabla)
      /\ pedido \in Pedidos /\ pedido.valor \in Valores
      /\ pedido.clave \notin ClavesDe(tabla) /\ porEliminar > 0
      /\ hiloDump # "vuelca"
  BY DEF Inductivo, PedidoEnCurso, EliminarParaReemplazo, Cerrojo
<1>2. PICK e \in EntradasAtomicas :
        /\ EliminarClave(e)
        /\ \/ UNCHANGED entradaAReemplazar
           \/ \E x \in EntradasAtomicas : entradaAReemplazar' = x.indexComienzo
  BY DEF EliminarParaReemplazo
<1>3. e \in tabla /\ e.clave \in Claves /\ storage' = storage
  BY <1>1 DEF EntradasAtomicas, TypeOK, Entradas, EliminarParaReemplazo
<1>4. /\ TablaBien(bitMap', storage', tabla')
      /\ ClavesDe(tabla') = ClavesDe(tabla) \ {e.clave}
      /\ UnoMenos(storage, tabla, storage', tabla', e.clave)
  BY <1>1, <1>2, <1>3, AlEliminar
<1>5. bitMap' \subseteq Indices /\ tabla' \subseteq Entradas
  BY <1>4, TablaFinita
<1>6. listadas' \subseteq Claves
  BY <1>1, <1>2 DEF EliminarClave, TypeOK
<1>7. entradaAReemplazar' \in Indices
  BY <1>1, <1>2 DEF EntradasAtomicas, TypeOK, Entradas
<1>8. /\ porEliminar' = porEliminar - 1 /\ porEliminar \in Nat
      /\ porEliminar' \in Nat
  BY <1>1 DEF EliminarParaReemplazo, TypeOK
<1>9. TypeOK'
  BY <1>1, <1>3, <1>5, <1>6, <1>7, <1>8
  DEF TypeOK, EliminarParaReemplazo, varsDump, Pasos
<1>10. PedidoEnCurso'
  BY <1>1, <1>4, <1>8 DEF PedidoEnCurso, EliminarParaReemplazo
<1>11. DumpEnCurso' /\ RecuperacionEnCurso'
  BY <1>1
  DEF DumpEnCurso, RecuperacionEnCurso, EliminarParaReemplazo, varsDump
<1>12. QED
  BY <1>1, <1>3, <1>4, <1>9, <1>10, <1>11 DEF Inductivo

(* agregarClaveValor after the ages grow, or the reply that there is no    *)
(* room.                                                                   *)
LEMMA AlAgregarPedido ==
  ASSUME Inductivo, Agregar
  PROVE  /\ Inductivo'
         /\ \/ MismosValores(storage, tabla, storage', tabla')
            \/ /\ pedido.clave \in Claves /\ pedido.valor \in Valores
               /\ pedido.clave \notin ClavesDe(tabla)
               /\ UnoMas(storage, tabla, storage', tabla', pedido.clave,
                         pedido.valor)
<1> DEFINE k == pedido.clave
           v == pedido.valor
           R == Referenciadas(tabla, k)
<1>1. /\ TypeOK /\ TablaBien(bitMap, storage, tabla)
      /\ k \in Claves /\ v \in Valores /\ k \notin ClavesDe(tabla)
      /\ hiloDump # "vuelca"
      /\ storage \in [Indices -> Trozos \cup {Basura}]
  BY DEF Inductivo, TypeOK, PedidoEnCurso, Agregar, Cerrojo, Pedidos
<1>2. /\ TablaBien(bitMap, storage, R)
      /\ MismosValores(storage, tabla, storage, R)
      /\ ClavesDe(R) = ClavesDe(tabla)
  <2>1. tabla \in SUBSET Entradas
    BY <1>1 DEF TypeOK
  <2>2. QED
    BY <1>1, <2>1, TablaReferenciada, EdadesSolas
<1> HIDE DEF R
<1>3. /\ TablaBien(bitMap', storage', tabla')
      /\ storage' \in [Indices -> Trozos \cup {Basura}]
      /\ listadas' \subseteq Claves
      /\ \/ MismosValores(storage, tabla, storage', tabla')
         \/ UnoMas(storage, tabla, storage', tabla', k, v)
  <2>1. CASE HayLugar(v)
    <3>1. AgregarClaveValor(R, k, v) /\ listadas' \subseteq listadas \cup {k}
      BY <2>1 DEF Agregar, R
    <3>2. /\ TablaBien(bitMap', storage', tabla')
          /\ storage' \in [Indices -> Trozos \cup {Basura}]
          /\ UnoMas(storage, R, storage', tabla', k, v)
      BY <1>1, <1>2, <3>1, AlAgregar
    <3>3. UnoMas(storage, tabla, storage', tabla', k, v)
      BY <1>2, <3>2 DEF UnoMas, MismosValores
    <3>4. listadas' \subseteq Claves
      BY <1>1, <3>1 DEF TypeOK
    <3>5. QED
      BY <3>2, <3>3, <3>4
  <2>2. CASE ~HayLugar(v)
    <3>1. /\ tabla' = R \/ tabla' = tabla
          /\ UNCHANGED <<bitMap, storage, listadas>>
      BY <2>2 DEF Agregar, R
    <3>2. MismosValores(storage, tabla, storage, tabla)
      BY DEF MismosValores
    <3>3. TablaBien(bitMap', storage', tabla')
      BY <1>1, <1>2, <3>1
    <3>4. MismosValores(storage, tabla, storage', tabla')
      BY <1>2, <3>1, <3>2
    <3>5. QED
      BY <1>1, <3>1, <3>3, <3>4 DEF TypeOK
  <2>3. QED
    BY <2>1, <2>2
<1>4. bitMap' \subseteq Indices /\ tabla' \subseteq Entradas
  BY <1>3, TablaFinita
<1>5. TypeOK'
  BY <1>1, <1>3, <1>4 DEF TypeOK, Agregar, varsDump, Pasos
<1>6. PedidoEnCurso' /\ DumpEnCurso' /\ RecuperacionEnCurso'
  BY <1>1
  DEF PedidoEnCurso, DumpEnCurso, RecuperacionEnCurso, Agregar, varsDump
<1>7. QED
  BY <1>1, <1>3, <1>5, <1>6 DEF Inductivo

(* procesarSetDefinitivo of a key the table has: the ages grow, or the     *)
(* table is not followed any more.                                         *)
LEMMA AlRepetir ==
  ASSUME Inductivo, RepetirClave
  PROVE  /\ Inductivo'
         /\ MismosValores(storage, tabla, storage', tabla')
         /\ pedido.clave \in Claves /\ pedido.clave \in ClavesDe(tabla)
<1> DEFINE k == pedido.clave
           R == Referenciadas(tabla, k)
<1>1. /\ TypeOK /\ TablaBien(bitMap, storage, tabla)
      /\ k \in Claves /\ k \in ClavesDe(tabla)
      /\ hiloDump # "vuelca"
  BY DEF Inductivo, PedidoEnCurso, RepetirClave, Cerrojo, Pedidos
<1>2. /\ TablaBien(bitMap, storage, R)
      /\ MismosValores(storage, tabla, storage, R)
      /\ R \subseteq Entradas
  <2>1. tabla \in SUBSET Entradas
    BY <1>1 DEF TypeOK
  <2>2. QED
    BY <1>1, <2>1, TablaReferenciada, EdadesSolas
<1>3. /\ tabla' \in {tabla, R} /\ UNCHANGED <<bitMap, storage>>
      /\ paso' \in {"sinGarantia", "libre"}
  BY DEF RepetirClave
<1> HIDE DEF R
<1>4. /\ TablaBien(bitMap', storage', tabla')
      /\ MismosValores(storage, tabla, storage', tabla')
      /\ tabla' \subseteq Entradas
  BY <1>1, <1>2, <1>3 DEF MismosValores, TypeOK
<1>5. TypeOK'
  BY <1>1, <1>3, <1>4 DEF TypeOK, RepetirClave, varsDump, Pasos
<1>6. PedidoEnCurso' /\ DumpEnCurso' /\ RecuperacionEnCurso'
  BY <1>1, <1>3
  DEF PedidoEnCurso, DumpEnCurso, RecuperacionEnCurso, RepetirClave, varsDump
<1>7. QED
  BY <1>1, <1>4, <1>5, <1>6 DEF Inductivo

(* procesarSolicitudValor, and what follows when it freed an entry.        *)
LEMMA InductivoSinGarantia ==
  ASSUME Inductivo, NEW k \in Claves,
         ProcesarSolicitudValor(k) \/ SeguirSinGarantia(k)
  PROVE  Inductivo' /\ UNCHANGED <<bitMap, storage, tabla>>
<1>1. /\ UNCHANGED <<bitMap, storage, tabla, entradaAReemplazar, pedido,
                     porEliminar, desde, cursor, porRecuperar, hiloDump,
                     pendientes, almacenar, fase>>
      /\ paso' \in {"sinGarantia", "libre"}
  BY DEF ProcesarSolicitudValor, SeguirSinGarantia, RecibePedido, varsStorage,
         varsPrincipal, varsDump
<1>2. TypeOK
  BY DEF Inductivo
<1>3. /\ disco' \in [Claves -> Valores \cup {Nada, Vacio}]
      /\ listadas' \subseteq Claves
      /\ pedidos' \in 0..MaxPedidos
  <2>1. CASE ProcesarSolicitudValor(k)
    BY <1>2, <2>1, MaxPedidosAssumption
    DEF TypeOK, ProcesarSolicitudValor, RecibePedido
  <2>2. CASE SeguirSinGarantia(k)
    BY <1>2, <2>2 DEF TypeOK, SeguirSinGarantia
  <2>3. QED
    BY <2>1, <2>2
<1>4. TypeOK'
  BY <1>1, <1>2, <1>3 DEF TypeOK, Pasos
<1>5. PedidoEnCurso' /\ DumpEnCurso' /\ RecuperacionEnCurso'
  BY <1>1
  DEF Inductivo, PedidoEnCurso, DumpEnCurso, RecuperacionEnCurso, ClavesDe
<1>6. QED
  BY <1>1, <1>4, <1>5 DEF Inductivo

(* procesarStore, up to fopen; the values stay, the ages grow.             *)
LEMMA AlProcesarStore ==
  ASSUME Inductivo, NEW k \in Claves, ProcesarStore(k)
  PROVE  /\ Inductivo'
         /\ MismosValores(storage, tabla, storage', tabla')
<1> DEFINE R == Referenciadas(tabla, k)
<1>1. TypeOK /\ TablaBien(bitMap, storage, tabla)
  BY DEF Inductivo
<1>2. /\ TablaBien(bitMap, storage, R)
      /\ MismosValores(storage, tabla, storage, R)
      /\ ClavesDe(R) = ClavesDe(tabla)
      /\ R \subseteq Entradas
  <2>1. tabla \in SUBSET Entradas
    BY <1>1 DEF TypeOK
  <2>2. QED
    BY <1>1, <2>1, TablaReferenciada, EdadesSolas
<1>3. tabla' = R /\ UNCHANGED <<bitMap, storage>>
  BY DEF ProcesarStore
<1> HIDE DEF R
<1>4. /\ TablaBien(bitMap', storage', tabla')
      /\ MismosValores(storage, tabla, storage', tabla')
      /\ ClavesDe(tabla') = ClavesDe(tabla)
      /\ tabla' \subseteq Entradas
  BY <1>2, <1>3
<1>5. pedido' \in Pedidos /\ pedido'.clave = k
  BY DEF ProcesarStore, Pedido, Pedidos
<1>6. pedidos' \in 0..MaxPedidos
  BY <1>1, MaxPedidosAssumption DEF TypeOK, ProcesarStore, RecibePedido
<1>7. TypeOK'
  BY <1>1, <1>4, <1>5, <1>6 DEF TypeOK, ProcesarStore, varsDump, Pasos
<1>8. PedidoEnCurso'
  BY <1>4, <1>5 DEF PedidoEnCurso, ProcesarStore
<1>9. DumpEnCurso' /\ RecuperacionEnCurso'
  BY <1>4
  DEF Inductivo, DumpEnCurso, RecuperacionEnCurso, ProcesarStore, varsDump
<1>10. QED
  BY <1>4, <1>7, <1>8, <1>9 DEF Inductivo

(* procesarSet and procesarSetDefinitivo, up to the first change.          *)
LEMMA InductivoSet ==
  ASSUME Inductivo, NEW k \in Claves, NEW v \in Valores,
         ProcesarSet(k, v) \/ ProcesarSetDefinitivo(k, v)
  PROVE  Inductivo' /\ UNCHANGED <<bitMap, storage, tabla>>
<1>1. /\ UNCHANGED <<bitMap, storage, tabla, entradaAReemplazar, porEliminar,
                     desde, cursor, porRecuperar, hiloDump, pendientes,
                     almacenar, disco, listadas>>
      /\ \/ paso' = "borra" /\ k \in ClavesDe(tabla)
         \/ paso' = "decide" /\ k \notin ClavesDe(tabla)
         \/ paso' = "agrega"
      /\ fase' \in {"normal", fase}
      /\ pedidos < MaxPedidos /\ pedidos' = pedidos + 1
      /\ \E d \in BOOLEAN : pedido' = Pedido(k, v, d)
  BY DEF ProcesarSet, ProcesarSetDefinitivo, RecibePedido, varsStorage, varsDump
<1>2. pedido' \in Pedidos /\ pedido'.clave = k /\ pedido'.valor = v
  BY <1>1 DEF Pedido, Pedidos
<1>3. TypeOK /\ pedidos' \in 0..MaxPedidos
  BY <1>1, MaxPedidosAssumption DEF Inductivo, TypeOK
<1>4. TypeOK'
  BY <1>1, <1>2, <1>3 DEF TypeOK, Pasos
<1>5. PedidoEnCurso'
  BY <1>1, <1>2 DEF PedidoEnCurso, ClavesDe
<1>6. DumpEnCurso' /\ RecuperacionEnCurso'
  BY <1>1 DEF Inductivo, DumpEnCurso, RecuperacionEnCurso, ClavesDe
<1>7. QED
  BY <1>1, <1>4, <1>5, <1>6 DEF Inductivo

-----------------------------------------------------------------------------
(* Inductivo: compactar, the files and the end of the process *)

(* compactar: one entry moves, and no key changes its value.               *)
LEMMA AlCompactar ==
  ASSUME Inductivo, MoverEntrada
  PROVE  /\ Inductivo'
         /\ MismosValores(storage, tabla, storage', tabla')
<1>1. TypeOK /\ TablaBien(bitMap, storage, tabla) /\ paso = "compacta"
  BY DEF Inductivo, MoverEntrada
<1>2. /\ TablaBien(bitMap', storage', tabla')
      /\ storage' \in [Indices -> Trozos \cup {Basura}]
      /\ cursor' \in 0..CantEntradas
      /\ ClavesDe(tabla') = ClavesDe(tabla)
      /\ MismosValores(storage, tabla, storage', tabla')
  BY <1>1, AlMover
<1>3. UNCHANGED <<entradaAReemplazar, paso, pedido, porEliminar, desde,
                  porRecuperar, hiloDump, pendientes, almacenar, disco,
                  listadas, fase, pedidos>>
  BY DEF MoverEntrada, varsDump, varsExternas
<1>4. bitMap' \subseteq Indices /\ tabla' \subseteq Entradas
  BY <1>2, TablaFinita
<1>5. TypeOK'
  BY <1>1, <1>2, <1>3, <1>4 DEF TypeOK
<1>6. PedidoEnCurso' /\ DumpEnCurso' /\ RecuperacionEnCurso'
  BY <1>1, <1>2, <1>3
  DEF Inductivo, PedidoEnCurso, DumpEnCurso, RecuperacionEnCurso
<1>7. QED
  BY <1>2, <1>5, <1>6 DEF Inductivo

(* The file of a key of the table gets its value: a STORE and the dump.    *)
LEMMA DiscoAlmacenado ==
  ASSUME Inductivo, NEW k \in ClavesDe(tabla)
  PROVE  /\ Almacenado(k) \in [Claves -> Valores \cup {Nada, Vacio}]
         /\ k \in Claves
<1>1. ValorDe(EntradaDe(k)) \in Valores
  BY LaEntrada DEF Inductivo
<1>2. k \in Claves
  BY DEF Inductivo, TypeOK, ClavesDe, Entradas
<1>3. QED
  BY <1>1, <1>2 DEF Inductivo, TypeOK, Almacenado

(* almacenarEnMemoriaSecundaria: the file of the key of the request.       *)
LEMMA InductivoAlmacenar ==
  ASSUME Inductivo, AlmacenarEnMemoriaSecundaria
  PROVE  Inductivo'
<1>1. /\ disco' \in [Claves -> Valores \cup {Nada, Vacio}]
      /\ paso' = "libre"
      /\ UNCHANGED <<bitMap, storage, tabla, entradaAReemplazar, pedido,
                     porEliminar, desde, cursor, porRecuperar, hiloDump,
                     pendientes, almacenar, listadas, fase, pedidos>>
  BY DiscoAlmacenado
  DEF AlmacenarEnMemoriaSecundaria, Inductivo, PedidoEnCurso, varsStorage,
      varsDump, varsExternas
<1>2. TypeOK'
  BY <1>1 DEF Inductivo, TypeOK, Pasos
<1>3. PedidoEnCurso' /\ DumpEnCurso' /\ RecuperacionEnCurso'
  BY <1>1
  DEF Inductivo, PedidoEnCurso, DumpEnCurso, RecuperacionEnCurso, ClavesDe
<1>4. QED
  BY <1>1, <1>2, <1>3 DEF Inductivo

(* The steps of the dump and of its thread.                                *)
LEMMA InductivoDump ==
  ASSUME Inductivo, HiloDump
  PROVE  Inductivo'
<1>1. UNCHANGED <<bitMap, storage, tabla, entradaAReemplazar, paso, pedido,
                  porEliminar, desde, cursor, porRecuperar, almacenar,
                  listadas, fase, pedidos>>
  BY DEF HiloDump, EmpezarDump, TerminarDump, RevisarAlmacenar, DumpDe,
         varsStorage, varsPrincipal, varsExternas
<1>2. TypeOK /\ ClavesDe(tabla) \subseteq Claves
  BY DEF Inductivo, TypeOK, ClavesDe, Entradas
<1>3. CASE EmpezarDump \/ TerminarDump \/ RevisarAlmacenar
  <2>1. TypeOK'
    BY <1>1, <1>2, <1>3
    DEF TypeOK, EmpezarDump, TerminarDump, RevisarAlmacenar
  <2>2. PedidoEnCurso' /\ DumpEnCurso' /\ RecuperacionEnCurso'
    BY <1>1, <1>3
    DEF Inductivo, PedidoEnCurso, DumpEnCurso, RecuperacionEnCurso, ClavesDe,
        EmpezarDump, TerminarDump, RevisarAlmacenar
  <2>3. QED
    BY <1>1, <2>1, <2>2 DEF Inductivo
<1>4. ASSUME NEW k \in Claves, DumpDe(k)
      PROVE  Inductivo'
  <2>1. k \in ClavesDe(tabla) /\ hiloDump = "vuelca"
    BY <1>4 DEF Inductivo, DumpEnCurso, DumpDe
  <2>2. /\ disco' \in [Claves -> Valores \cup {Nada, Vacio}]
        /\ pendientes' \subseteq pendientes
        /\ hiloDump' = hiloDump
    BY <1>4, <2>1, DiscoAlmacenado DEF DumpDe
  <2>3. TypeOK'
    BY <1>1, <1>2, <2>2 DEF TypeOK
  <2>4. PedidoEnCurso' /\ DumpEnCurso' /\ RecuperacionEnCurso'
    BY <1>1, <2>1, <2>2
    DEF Inductivo, PedidoEnCurso, DumpEnCurso, RecuperacionEnCurso, ClavesDe
  <2>5. QED
    BY <1>1, <2>3, <2>4 DEF Inductivo
<1>5. QED
  BY <1>3, <1>4 DEF HiloDump

(* The process dies with a file half written, or exits.                    *)
LEMMA InductivoCaida ==
  ASSUME Inductivo, Matar \/ ProcesarSIGINT
  PROVE  Inductivo'
<1>1. /\ UNCHANGED <<bitMap, storage, tabla, entradaAReemplazar, pedido,
                     porEliminar, desde, cursor, porRecuperar, pendientes,
                     listadas, fase, pedidos>>
      /\ paso' \in {"apagada", "terminada"}
      /\ almacenar' \in BOOLEAN
      /\ hiloDump' \in {hiloDump, "fin"}
      /\ DiscoAlCaer
  BY DEF Matar, ProcesarSIGINT, varsStorage, varsDump, varsExternas, Inductivo,
         TypeOK
<1>2. disco' \in [Claves -> Valores \cup {Nada, Vacio}]
  BY <1>1 DEF DiscoAlCaer, Vaciados, Inductivo, TypeOK
<1>3. TypeOK'
  BY <1>1, <1>2 DEF Inductivo, TypeOK, Pasos
<1>4. PedidoEnCurso' /\ DumpEnCurso' /\ RecuperacionEnCurso'
  BY <1>1
  DEF Inductivo, PedidoEnCurso, DumpEnCurso, RecuperacionEnCurso, ClavesDe
<1>5. QED
  BY <1>1, <1>3, <1>4 DEF Inductivo

(* The steps that only say where the main thread is.                       *)
LEMMA InductivoPaso ==
  ASSUME Inductivo,
         \/ CrearAlmacenamientoContinuo \/ ProcesarCompactacion
         \/ TerminarCompactacion \/ ProcesarError \/ Terminar
  PROVE  Inductivo' /\ UNCHANGED <<bitMap, storage, tabla, disco>>
<1> USE DEF CrearAlmacenamientoContinuo, ProcesarCompactacion,
            TerminarCompactacion, ProcesarError, Terminar
<1>1. /\ UNCHANGED <<bitMap, storage, tabla, entradaAReemplazar, pedido,
                     porEliminar, desde, porRecuperar, pendientes, disco,
                     listadas>>
      /\ paso' \in {"libre", "compacta", "termina", "terminada"}
      /\ hiloDump' \in {hiloDump, "duerme"}
  BY DEF varsStorage, varsDump, varsExternas
<1>2. /\ cursor' \in 0..CantEntradas
      /\ almacenar' \in BOOLEAN
      /\ fase' \in {"normal", "sinEspacio", "compactada"}
      /\ pedidos' \in 0..MaxPedidos
  <2>1. CASE ProcesarCompactacion
    BY <2>1, StorageAssumption, MaxPedidosAssumption
    DEF Inductivo, TypeOK, varsDump
  <2>2. CASE CrearAlmacenamientoContinuo \/ Terminar
    BY <2>2 DEF Inductivo, TypeOK, varsDump, varsExternas
  <2>3. CASE TerminarCompactacion \/ ProcesarError
    BY <2>3 DEF Inductivo, TypeOK, varsDump, varsExternas
  <2>4. QED
    BY <2>1, <2>2, <2>3
<1>3. TypeOK'
  BY <1>1, <1>2 DEF Inductivo, TypeOK, Pasos
<1>4. PedidoEnCurso' /\ DumpEnCurso' /\ RecuperacionEnCurso'
  BY <1>1
  DEF Inductivo, PedidoEnCurso, DumpEnCurso, RecuperacionEnCurso, ClavesDe
<1>5. QED
  BY <1>1, <1>3, <1>4 DEF Inductivo

(* Every step of the process keeps Inductivo.                              *)
LEMMA InductivoNext == Inductivo /\ [Next]_vars => Inductivo'
<1> SUFFICES ASSUME Inductivo, [Next]_vars PROVE Inductivo'
  OBVIOUS
<1>1. CASE UNCHANGED vars
  BY <1>1
  DEF vars, varsStorage, varsPrincipal, varsDump, varsExternas, Inductivo,
      TypeOK, PedidoEnCurso, DumpEnCurso, RecuperacionEnCurso, ClavesDe
<1>2. CASE HiloPrincipal
  <2>1. CASE ProcesarEnviarInfoInstancia
    BY <2>1, InductivoEnviarInfo
  <2>2. CASE \/ CrearAlmacenamientoContinuo \/ ProcesarCompactacion
             \/ TerminarCompactacion \/ ProcesarError \/ Terminar
    BY <2>2, InductivoPaso
  <2>3. CASE BorrarVieja
    BY <2>3, AlBorrarVieja
  <2>4. CASE Decidir
    BY <2>4, InductivoDecidir
  <2>5. CASE EliminarParaReemplazo
    BY <2>5, AlReemplazar
  <2>6. CASE Agregar
    BY <2>6, AlAgregarPedido
  <2>7. CASE AlmacenarEnMemoriaSecundaria
    BY <2>7, InductivoAlmacenar
  <2>8. CASE MoverEntrada
    BY <2>8, AlCompactar
  <2>9. CASE ProcesarSIGINT
    BY <2>9, InductivoCaida
  <2>10. ASSUME NEW k \in Claves, RecuperarArchivo(k)
         PROVE  Inductivo'
    BY <2>10, AlRecuperar
  <2>11. ASSUME NEW k \in Claves, ProcesarStore(k)
         PROVE  Inductivo'
    BY <2>11, AlProcesarStore
  <2>12. ASSUME NEW k \in Claves, NEW v \in Valores,
                ProcesarSet(k, v) \/ ProcesarSetDefinitivo(k, v)
         PROVE  Inductivo'
    BY <2>12, InductivoSet
  <2>13. CASE RepetirClave
    BY <2>13, AlRepetir
  <2>14. ASSUME NEW k \in Claves,
                ProcesarSolicitudValor(k) \/ SeguirSinGarantia(k)
         PROVE  Inductivo'
    BY <2>14, InductivoSinGarantia
  <2>15. QED
    BY <1>2, <2>1, <2>2, <2>3, <2>4, <2>5, <2>6, <2>7, <2>8, <2>9, <2>10,
       <2>11, <2>12, <2>13, <2>14 DEF HiloPrincipal
<1>3. CASE HiloDump
  BY <1>3, InductivoDump
<1>4. CASE Matar
  BY <1>4, InductivoCaida
<1>5. QED
  BY <1>1, <1>2, <1>3, <1>4 DEF Next

(***************************************************************************)
(* The inductive invariant holds of the process: the storage agrees with   *)
(* the table, the request under way is one it can serve, the dump has read *)
(* a key that is in the table, and only an idle dump lets it recover.      *)
(***************************************************************************)
THEOREM InductivoSiempre == Spec => []Inductivo
BY InductivoAlInicio, InductivoNext, PTL DEF Spec

-----------------------------------------------------------------------------
(* The invariants and the action property *)

(***************************************************************************)
(* The variables keep their types.  That of disco is the one that rests on *)
(* the rest of Inductivo: what a STORE or a dump writes is a value,        *)
(* because the slots of an entry of the table hold one.                    *)
(***************************************************************************)
THEOREM TypeOKSiempre == Spec => []TypeOK
<1>1. Inductivo => TypeOK
  BY DEF Inductivo
<1>2. QED
  BY <1>1, InductivoSiempre, PTL

(***************************************************************************)
(* The bitmap marks exactly the slots of the entries of the table, and no  *)
(* two entries share one, whatever is stored, evicted, compacted or        *)
(* recovered and wherever the process dies.                                *)
(***************************************************************************)
THEOREM StorageSiempreConsistente == Spec => []StorageConsistente
<1>1. Inductivo => StorageConsistente
  BY DEF Inductivo, TablaBien, SinSolapes, StorageConsistente, LugaresAjenos,
         BitMapExacto
<1>2. QED
  BY <1>1, InductivoSiempre, PTL

(***************************************************************************)
(* While the main thread replaces, what goes takes one slot: the thread of *)
(* the dump and a signal take nothing out, and a start needs a process     *)
(* that is not running.                                                    *)
(***************************************************************************)
THEOREM SoloAtomicasSiempre == Spec => SoloAtomicas
<1>1. ASSUME [Next]_vars, paso = "reemplaza", NEW e \in tabla \ tabla'
      PROVE  EntradasNecesarias(e.tamanio) = 1
  <2>1. CASE EliminarParaReemplazo
    <3>1. PICK x \in EntradasAtomicas : tabla' = tabla \ {x}
      BY <2>1 DEF EliminarParaReemplazo, EliminarClave
    <3>2. e = x
      BY <3>1
    <3>3. QED
      BY <3>2 DEF EntradasAtomicas
  <2>2. CASE tabla' = tabla
    BY <2>2
  <2>3. EliminarParaReemplazo \/ tabla' = tabla
    <3>1. CASE UNCHANGED vars \/ HiloDump \/ Matar
      BY <3>1
      DEF vars, varsStorage, HiloDump, EmpezarDump, TerminarDump,
          RevisarAlmacenar, DumpDe, Matar
    <3>2. CASE HiloPrincipal
      BY <1>1, <3>2
      DEF HiloPrincipal, ProcesarEnviarInfoInstancia, EnMarcha,
          CrearAlmacenamientoContinuo, BorrarVieja, Decidir, Agregar,
          AlmacenarEnMemoriaSecundaria, ProcesarCompactacion, MoverEntrada,
          TerminarCompactacion, ProcesarError, Terminar, ProcesarSIGINT,
          RecuperarArchivo, ProcesarStore, ProcesarSet, ProcesarSetDefinitivo,
          RepetirClave, ProcesarSolicitudValor, SeguirSinGarantia,
          RecibePedido, varsStorage
    <3>3. QED
      BY <1>1, <3>1, <3>2 DEF Next
  <2>4. QED
    BY <2>1, <2>2, <2>3
<1>2. [Next]_vars =>
        [paso = "reemplaza" =>
           \A e \in tabla \ tabla' : EntradasNecesarias(e.tamanio) = 1]_vars
  BY <1>1
<1>3. QED
  BY <1>2, PTL DEF Spec, SoloAtomicas

-----------------------------------------------------------------------------
(* The refinement of Almacen *)

(* buscarValorSegunClave of k, in the table T with the storage st.         *)
ValorEn(st, T, k) ==
  LET es == {v \in Valores : Guarda(st, CHOOSE x \in T : x.clave = k, v)}
  IN IF es = {} THEN Basura ELSE CHOOSE v \in es : TRUE

MapaDe(st, T) ==
  [k \in Claves |-> IF k \in ClavesDe(T) THEN ValorEn(st, T, k) ELSE Nada]

SinNada == [k \in Claves |-> Nada]

(* The process lives, and the promise with it.                             *)
Vigente == EnMarcha /\ Fiable

(* Mapa is MapaDe of the storage and the table while that lasts.           *)
LEMMA MapaDelEstado ==
  /\ Mapa = IF Vigente THEN MapaDe(storage, tabla) ELSE SinNada
  /\ Mapa' = IF Vigente' THEN MapaDe(storage', tabla') ELSE SinNada
<1>1. ASSUME NEW k
      PROVE  /\ ValorDe(EntradaDe(k)) = ValorEn(storage, tabla, k)
             /\ ValorDe(EntradaDe(k))' = ValorEn(storage', tabla', k)
  BY Zenon DEF ValorDe, EntradaDe, ValorEn, Guarda
<1>2. /\ Mapa = [k \in Claves |->
                  IF Vigente /\ k \in ClavesDe(tabla)
                    THEN ValorDe(EntradaDe(k)) ELSE Nada]
      /\ Mapa' = [k \in Claves |->
                   IF Vigente' /\ k \in ClavesDe(tabla')
                     THEN ValorDe(EntradaDe(k))' ELSE Nada]
  BY Zenon DEF Mapa, ClavesDe, Vigente
<1>3. QED
  BY <1>1, <1>2 DEF MapaDe, SinNada

(* The value of a key is the one its entry holds.                          *)
LEMMA ElValor ==
  ASSUME NEW B, NEW st, NEW T, TablaBien(B, st, T), NEW k
  PROVE  /\ k \in ClavesDe(T) => /\ ValorEn(st, T, k) \in Valores
                                 /\ Tiene(st, T, k, ValorEn(st, T, k))
         /\ \A v \in Valores : Tiene(st, T, k, v) =>
              k \in ClavesDe(T) /\ ValorEn(st, T, k) = v
<1> DEFINE e == CHOOSE x \in T : x.clave = k
           es == {v \in Valores : Guarda(st, e, v)}
<1>1. ASSUME k \in ClavesDe(T)
      PROVE  e \in T /\ e.clave = k /\ es # {} /\ ValorEn(st, T, k) \in es
  <2>1. e \in T /\ e.clave = k
    BY <1>1 DEF ClavesDe
  <2> HIDE DEF e
  <2>2. es # {}
    BY <2>1 DEF TablaBien, ConValor
  <2>3. ValorEn(st, T, k) \in es
    BY <2>2 DEF ValorEn, e
  <2>4. QED
    BY <2>1, <2>2, <2>3
<1> HIDE DEF e
<1>2. ASSUME NEW v \in Valores, Tiene(st, T, k, v)
      PROVE  k \in ClavesDe(T) /\ ValorEn(st, T, k) = v
  <2>1. PICK x \in T : x.clave = k /\ Guarda(st, x, v)
    BY <1>2 DEF Tiene
  <2>2. k \in ClavesDe(T)
    BY <2>1 DEF ClavesDe
  <2>3. x = e /\ x \in Entradas
    BY <1>1, <2>1, <2>2 DEF TablaBien, SinClavesRepetidas
  <2>4. QED
    BY <1>1, <2>1, <2>2, <2>3, ValorUnico
<1>3. QED
  BY <1>1, <1>2 DEF Tiene

(* No value changes: neither does the map.                                 *)
LEMMA MapaIgual ==
  ASSUME NEW B, NEW st, NEW T, TablaBien(B, st, T),
         NEW B2, NEW st2, NEW T2, TablaBien(B2, st2, T2),
         MismosValores(st, T, st2, T2)
  PROVE  MapaDe(st2, T2) = MapaDe(st, T)
<1>1. ASSUME NEW k \in Claves
      PROVE  MapaDe(st2, T2)[k] = MapaDe(st, T)[k]
  <2>1. CASE k \in ClavesDe(T)
    BY <2>1, ElValor DEF MismosValores, MapaDe
  <2>2. CASE k \notin ClavesDe(T)
    BY <2>2, ElValor DEF MismosValores, MapaDe
  <2>3. QED
    BY <2>1, <2>2
<1>2. QED
  BY <1>1 DEF MapaDe

(* A key that had no value gets one: Guardar.                              *)
LEMMA MapaConUnoMas ==
  ASSUME NEW B, NEW st, NEW T, TablaBien(B, st, T),
         NEW B2, NEW st2, NEW T2, TablaBien(B2, st2, T2),
         NEW k \in Claves, k \notin ClavesDe(T), NEW v \in Valores,
         UnoMas(st, T, st2, T2, k, v)
  PROVE  /\ MapaDe(st, T)[k] = Nada
         /\ MapaDe(st2, T2) = [MapaDe(st, T) EXCEPT ![k] = v]
<1>1. ASSUME NEW c \in Claves
      PROVE  MapaDe(st2, T2)[c] = IF c = k THEN v ELSE MapaDe(st, T)[c]
  <2>1. CASE c = k
    BY <2>1, ElValor DEF UnoMas, MapaDe
  <2>2. CASE c # k /\ c \in ClavesDe(T)
    BY <2>2, ElValor DEF UnoMas, MapaDe
  <2>3. CASE c # k /\ c \notin ClavesDe(T)
    BY <2>3, ElValor DEF UnoMas, MapaDe
  <2>4. QED
    BY <2>1, <2>2, <2>3
<1>2. QED
  BY <1>1 DEF MapaDe

(* A key loses its value: Olvidar.                                         *)
LEMMA MapaConUnoMenos ==
  ASSUME NEW B, NEW st, NEW T, TablaBien(B, st, T),
         NEW B2, NEW st2, NEW T2, TablaBien(B2, st2, T2),
         NEW k \in Claves, UnoMenos(st, T, st2, T2, k)
  PROVE  MapaDe(st2, T2) = [MapaDe(st, T) EXCEPT ![k] = Nada]
<1>1. ASSUME NEW c \in Claves
      PROVE  MapaDe(st2, T2)[c] = IF c = k THEN Nada ELSE MapaDe(st, T)[c]
  <2>1. CASE c = k
    BY <2>1, ElValor DEF UnoMenos, MapaDe
  <2>2. CASE c # k /\ c \in ClavesDe(T)
    BY <2>2, ElValor DEF UnoMenos, MapaDe
  <2>3. CASE c # k /\ c \notin ClavesDe(T)
    BY <2>3, ElValor DEF UnoMenos, MapaDe
  <2>4. QED
    BY <2>1, <2>2, <2>3
<1>2. QED
  BY <1>1 DEF MapaDe

(* What a step of the running process does to the map.                     *)
LEMMA MapaQueda ==
  ASSUME Inductivo, Inductivo', Vigente <=> Vigente',
         MismosValores(storage, tabla, storage', tabla')
  PROVE  Mapa' = Mapa /\ (Vigente => UNCHANGED Fiable)
<1>1. TablaBien(bitMap, storage, tabla) /\ TablaBien(bitMap', storage', tabla')
  BY DEF Inductivo
<1>2. MapaDe(storage', tabla') = MapaDe(storage, tabla)
  BY <1>1, MapaIgual
<1>3. Vigente => UNCHANGED Fiable
  BY DEF Vigente, Fiable
<1>4. QED
  BY <1>2, <1>3, MapaDelEstado

(* A death: the map goes, the files stay or are left empty.                *)
LEMMA MapaCae ==
  ASSUME paso' \in {"apagada", "terminada"}, UNCHANGED disco \/ DiscoAlCaer,
         Inductivo
  PROVE  ElAlmacen!Caer
<1>1. Mapa' = [k \in Claves |-> Nada] /\ Fiable'
  BY MapaDelEstado DEF SinNada, Vigente, EnMarcha, Fiable
<1>2. \E K \in SUBSET Claves : disco' = Vaciados(K)
  <2>1. DOMAIN disco = Claves /\ disco = [k \in Claves |-> disco[k]]
    BY DEF Inductivo, TypeOK
  <2>2. CASE UNCHANGED disco
    <3>1. disco' = Vaciados({})
      BY <2>1, <2>2 DEF Vaciados
    <3>2. QED
      BY <3>1
  <2>3. CASE DiscoAlCaer
    <3>1. DelDump \subseteq Claves /\ DelStore \subseteq Claves
      BY DEF DelDump, DelStore, Inductivo, TypeOK, PedidoEnCurso, ClavesDe,
             Entradas
    <3>2. QED
      BY <2>3, <3>1 DEF DiscoAlCaer
  <2>4. QED
    BY <2>2, <2>3
<1>3. QED
  BY <1>1, <1>2 DEF ElAlmacen!Caer, ElAlmacen!SinValores, Vaciados

(* The promise ends: the map had a value.                                  *)
LEMMA MapaRota ==
  ASSUME Inductivo, Vigente, ~Fiable', UNCHANGED disco, NEW k \in Claves,
         k \in ClavesDe(tabla)
  PROVE  ElAlmacen!Romper
<1>1. Mapa' = [c \in Claves |-> Nada] /\ Fiable' = FALSE
  BY MapaDelEstado DEF SinNada, Vigente, Fiable
<1>2. Mapa[k] \in Valores
  BY LaEntrada DEF Inductivo, Mapa, Vigente
<1>3. Mapa # [c \in Claves |-> Nada]
  BY <1>2, ValoresAssumption
<1>4. QED
  BY <1>1, <1>3 DEF ElAlmacen!Romper, ElAlmacen!SinValores

(* A key less in the table is an Olvidar.                                  *)
LEMMA MapaOlvida ==
  ASSUME Inductivo, Inductivo', Vigente, Vigente', UNCHANGED disco,
         NEW k \in Claves, UnoMenos(storage, tabla, storage', tabla', k)
  PROVE  ElAlmacen!Olvidar(k)
<1>1. TablaBien(bitMap, storage, tabla) /\ TablaBien(bitMap', storage', tabla')
  BY DEF Inductivo
<1>2. MapaDe(storage', tabla') = [MapaDe(storage, tabla) EXCEPT ![k] = Nada]
  BY <1>1, MapaConUnoMenos
<1>3. QED
  BY <1>2, MapaDelEstado DEF ElAlmacen!Olvidar, Vigente, Fiable

(* A key more in the table is a Guardar.                                   *)
LEMMA MapaGuarda ==
  ASSUME Inductivo, Inductivo', Vigente, Vigente', UNCHANGED disco,
         NEW k \in Claves, k \notin ClavesDe(tabla), NEW v \in Valores,
         UnoMas(storage, tabla, storage', tabla', k, v)
  PROVE  ElAlmacen!Guardar(k, v)
<1>1. TablaBien(bitMap, storage, tabla) /\ TablaBien(bitMap', storage', tabla')
  BY DEF Inductivo
<1>2. /\ MapaDe(storage, tabla)[k] = Nada
      /\ MapaDe(storage', tabla') = [MapaDe(storage, tabla) EXCEPT ![k] = v]
  BY <1>1, MapaConUnoMas
<1>3. QED
  BY <1>2, MapaDelEstado DEF ElAlmacen!Guardar, Vigente, Fiable

(* almacenarEnMemoriaSecundaria and the dump write what the key has.       *)
LEMMA MapaArchiva ==
  ASSUME Inductivo, Inductivo', Vigente, Vigente',
         UNCHANGED <<storage, tabla>>,
         NEW k \in ClavesDe(tabla), disco' = Almacenado(k)
  PROVE  k \in Claves /\ ElAlmacen!Archivar(k)
<1>1. TablaBien(bitMap, storage, tabla) /\ k \in Claves
  BY DiscoAlmacenado DEF Inductivo
<1>2. ValorDe(EntradaDe(k)) \in Valores /\ Mapa[k] = ValorDe(EntradaDe(k))
  BY <1>1, LaEntrada DEF Mapa, Vigente
<1>3. MismosValores(storage, tabla, storage', tabla')
  BY DEF MismosValores
<1>4. Mapa' = Mapa
  BY <1>3, MapaQueda
<1>5. QED
  BY <1>1, <1>2, <1>4 DEF ElAlmacen!Archivar, Almacenado, Vigente, Fiable

(* The steps of the main thread.                                           *)
LEMMA PasoDelHiloPrincipal ==
  ASSUME Inductivo, Inductivo', HiloPrincipal
  PROVE  ElAlmacen!Next \/ UNCHANGED <<Mapa, disco, Fiable>>
<1> DEFINE Quieto == UNCHANGED <<Mapa, disco, Fiable>>
<1>1. ASSUME UNCHANGED <<storage, tabla>>
      PROVE  MismosValores(storage, tabla, storage', tabla')
  BY <1>1 DEF MismosValores
<1>2. CASE ProcesarEnviarInfoInstancia
  <2>1. ~Vigente /\ Vigente' /\ tabla' = {} /\ UNCHANGED <<disco, Fiable>>
    BY <1>2 DEF ProcesarEnviarInfoInstancia, EnMarcha, Vigente, Fiable
  <2>2. MapaDe(storage', tabla') = SinNada
    BY <2>1 DEF MapaDe, SinNada, ClavesDe
  <2>3. QED
    BY <2>1, <2>2, MapaDelEstado
<1>3. CASE \/ CrearAlmacenamientoContinuo \/ ProcesarCompactacion
           \/ TerminarCompactacion \/ ProcesarError
  <2>1. UNCHANGED <<bitMap, storage, tabla, disco>>
    BY <1>3, InductivoPaso
  <2>2. Vigente /\ Vigente'
    BY <1>3
    DEF Vigente, Fiable, EnMarcha, CrearAlmacenamientoContinuo,
        ProcesarCompactacion, TerminarCompactacion, ProcesarError
  <2>3. QED
    BY <1>1, <2>1, <2>2, MapaQueda
<1>4. CASE Terminar \/ ProcesarSIGINT
  <2>1. paso' = "terminada" /\ (UNCHANGED disco \/ DiscoAlCaer)
    BY <1>4 DEF Terminar, ProcesarSIGINT
  <2>2. QED
    BY <2>1, MapaCae DEF ElAlmacen!Next
<1>5. CASE BorrarVieja
  <2>1. Vigente /\ Vigente' /\ UNCHANGED disco
    BY <1>5 DEF Vigente, Fiable, EnMarcha, BorrarVieja
  <2>2. QED
    BY <1>5, <2>1, AlBorrarVieja, MapaOlvida DEF ElAlmacen!Next
<1>6. CASE Decidir
  <2>1. Vigente /\ Vigente' /\ UNCHANGED <<storage, tabla, disco>>
    BY <1>6 DEF Vigente, Fiable, EnMarcha, Decidir, varsStorage
  <2>2. QED
    BY <1>1, <2>1, MapaQueda
<1>7. CASE EliminarParaReemplazo
  <2>1. Vigente /\ Vigente' /\ UNCHANGED disco
    BY <1>7 DEF Vigente, Fiable, EnMarcha, EliminarParaReemplazo
  <2>2. QED
    BY <1>7, <2>1, AlReemplazar, MapaOlvida DEF ElAlmacen!Next
<1>8. CASE Agregar
  <2>1. Vigente /\ Vigente' /\ UNCHANGED disco
    BY <1>8 DEF Vigente, Fiable, EnMarcha, Agregar
  <2>2. \/ MismosValores(storage, tabla, storage', tabla')
        \/ /\ pedido.clave \in Claves /\ pedido.valor \in Valores
           /\ ElAlmacen!Guardar(pedido.clave, pedido.valor)
    BY <1>8, <2>1, AlAgregarPedido, MapaGuarda
  <2>3. QED
    BY <2>1, <2>2, MapaQueda DEF ElAlmacen!Next
<1>9. CASE AlmacenarEnMemoriaSecundaria
  <2>1. /\ Vigente /\ Vigente' /\ UNCHANGED <<storage, tabla>>
        /\ pedido.clave \in ClavesDe(tabla)
        /\ disco' = Almacenado(pedido.clave)
    BY <1>9
    DEF Vigente, Fiable, EnMarcha, AlmacenarEnMemoriaSecundaria, varsStorage,
        Inductivo, PedidoEnCurso
  <2>2. QED
    BY <2>1, MapaArchiva DEF ElAlmacen!Next
<1>10. CASE MoverEntrada
  <2>1. Vigente /\ Vigente' /\ UNCHANGED disco
    BY <1>10 DEF Vigente, Fiable, EnMarcha, MoverEntrada
  <2>2. QED
    BY <1>10, <2>1, AlCompactar, MapaQueda
<1>11. ASSUME NEW k \in Claves, RecuperarArchivo(k)
       PROVE  ElAlmacen!Next \/ Quieto
  <2>1. Vigente /\ Vigente' /\ UNCHANGED disco
    BY <1>11 DEF Vigente, Fiable, EnMarcha, RecuperarArchivo
  <2>2. \/ MismosValores(storage, tabla, storage', tabla')
        \/ disco[k] \in Valores /\ ElAlmacen!Guardar(k, disco[k])
    BY <1>11, <2>1, AlRecuperar, MapaGuarda
  <2>3. QED
    BY <2>1, <2>2, MapaQueda DEF ElAlmacen!Next
<1>12. ASSUME NEW k \in Claves, ProcesarStore(k)
       PROVE  ElAlmacen!Next \/ Quieto
  <2>1. /\ Vigente /\ UNCHANGED disco
        /\ Vigente' \/ paso' = "apagada"
    BY <1>12 DEF Vigente, Fiable, EnMarcha, ProcesarStore, RecibePedido
  <2>2. CASE Vigente'
    BY <1>12, <2>1, <2>2, AlProcesarStore, MapaQueda
  <2>3. CASE paso' = "apagada"
    BY <2>1, <2>3, MapaCae DEF ElAlmacen!Next
  <2>4. QED
    BY <2>1, <2>2, <2>3
<1>13. ASSUME NEW k \in Claves, NEW v \in Valores,
              ProcesarSet(k, v) \/ ProcesarSetDefinitivo(k, v)
       PROVE  Quieto
  <2>1. Vigente /\ Vigente' /\ UNCHANGED <<storage, tabla, disco>>
    BY <1>13
    DEF Vigente, Fiable, EnMarcha, ProcesarSet, ProcesarSetDefinitivo,
        RecibePedido, varsStorage
  <2>2. QED
    BY <1>1, <2>1, MapaQueda
<1>14. CASE RepetirClave
  <2>1. /\ Vigente /\ UNCHANGED disco
        /\ Vigente' \/ ~Fiable'
    BY <1>14 DEF Vigente, Fiable, EnMarcha, RepetirClave
  <2>2. CASE Vigente'
    BY <1>14, <2>1, <2>2, AlRepetir, MapaQueda
  <2>3. CASE ~Fiable'
    BY <1>14, <2>1, <2>3, AlRepetir, MapaRota DEF ElAlmacen!Next
  <2>4. QED
    BY <2>1, <2>2, <2>3
<1>15. ASSUME NEW k \in Claves, ProcesarSolicitudValor(k)
       PROVE  ElAlmacen!Next \/ Quieto
  <2>1. /\ Vigente /\ UNCHANGED <<storage, tabla, disco>>
        /\ Vigente' \/ (~Fiable' /\ k \in ClavesDe(tabla))
    BY <1>15
    DEF Vigente, Fiable, EnMarcha, ProcesarSolicitudValor, RecibePedido,
        varsStorage
  <2>2. CASE Vigente'
    BY <1>1, <2>1, <2>2, MapaQueda
  <2>3. CASE ~Fiable' /\ k \in ClavesDe(tabla)
    BY <2>1, <2>3, MapaRota DEF ElAlmacen!Next
  <2>4. QED
    BY <2>1, <2>2, <2>3
<1>16. ASSUME NEW k \in Claves, SeguirSinGarantia(k)
       PROVE  ElAlmacen!Next
  <2>1. /\ ~Fiable /\ UNCHANGED <<Fiable, paso>>
        /\ \E v \in Valores \cup {Vacio} : disco' = [disco EXCEPT ![k] = v]
    BY <1>16 DEF SeguirSinGarantia, Fiable, varsPrincipal
  <2>2. Mapa' = Mapa
    BY <2>1, MapaDelEstado DEF Vigente
  <2>3. ElAlmacen!Ensuciar(k)
    BY <2>1, <2>2 DEF ElAlmacen!Ensuciar
  <2>4. QED
    BY <2>3 DEF ElAlmacen!Next
<1>17. QED
  BY <1>2, <1>3, <1>4, <1>5, <1>6, <1>7, <1>8, <1>9, <1>10, <1>11, <1>12,
     <1>13, <1>14, <1>15, <1>16 DEF HiloPrincipal

(* Every step of an Instancia is one of Almacen or a stutter.              *)
LEMMA PasoDeAlmacen ==
  Inductivo /\ Inductivo' /\ [Next]_vars =>
    [ElAlmacen!Next]_<<Mapa, disco, Fiable>>
<1> SUFFICES ASSUME Inductivo, Inductivo', [Next]_vars
             PROVE  ElAlmacen!Next \/ UNCHANGED <<Mapa, disco, Fiable>>
  OBVIOUS
<1>1. CASE UNCHANGED vars
  BY <1>1, MapaQueda
  DEF vars, varsStorage, varsPrincipal, EnMarcha, Fiable, Vigente, MismosValores
<1>2. CASE HiloPrincipal
  BY <1>2, PasoDelHiloPrincipal
<1>3. CASE HiloDump
  <2>1. Vigente /\ Vigente' /\ UNCHANGED <<storage, tabla>>
    BY <1>3
    DEF HiloDump, EnMarcha, Fiable, Vigente, EmpezarDump, TerminarDump,
        RevisarAlmacenar, DumpDe, varsStorage, varsPrincipal
  <2>2. CASE UNCHANGED disco
    BY <2>1, <2>2, MapaQueda DEF MismosValores
  <2>3. ASSUME NEW k \in Claves, DumpDe(k)
        PROVE  ElAlmacen!Next
    <3>1. k \in ClavesDe(tabla) /\ disco' = Almacenado(k)
      BY <2>3 DEF DumpDe, Inductivo, DumpEnCurso
    <3>2. QED
      BY <2>1, <3>1, MapaArchiva DEF ElAlmacen!Next
  <2>4. QED
    BY <1>3, <2>2, <2>3
    DEF HiloDump, EmpezarDump, TerminarDump, RevisarAlmacenar
<1>4. CASE Matar
  <2>1. paso' = "apagada" /\ DiscoAlCaer
    BY <1>4 DEF Matar
  <2>2. QED
    BY <2>1, MapaCae DEF ElAlmacen!Next
<1>5. QED
  BY <1>1, <1>2, <1>3, <1>4 DEF Next

(***************************************************************************)
(* An Instancia is an Almacen.  First fit, eviction, the moves of the      *)
(* compaction, the dump between the steps of a request, the recovery and a *)
(* death at any point do not change the value of a key but by Guardar,     *)
(* Olvidar or Caer, and a file gets the value its key has.  What may break *)
(* the promise, until the process starts again, is a SET_DEFINITIVO of a   *)
(* key the table has and a request for the value of one.                   *)
(***************************************************************************)
THEOREM EsUnAlmacenSiempre == Spec => EsUnAlmacen
<1>1. Init => ElAlmacen!Init
  <2> SUFFICES ASSUME Init PROVE ElAlmacen!Init
    OBVIOUS
  <2>1. ~Vigente /\ Fiable = TRUE /\ disco = [k \in Claves |-> Nada]
    BY DEF Init, EnMarcha, Vigente, Fiable
  <2>2. QED
    BY <2>1, MapaDelEstado DEF ElAlmacen!Init, ElAlmacen!SinValores, SinNada
<1>2. QED
  BY <1>1, PasoDeAlmacen, InductivoSiempre, PTL
  DEF Spec, EsUnAlmacen, ElAlmacen!Spec
=============================================================================
