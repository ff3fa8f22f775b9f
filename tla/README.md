# Re Distinto: a TLA+ model

Re Distinto (SO-redis) is a small distributed key-value store. **ESI** processes run
scripts of `GET`, `SET` and `STORE` statements; a **Planificador** decides which ESI
runs and which waits for a key; a **Coordinador** carries every statement to the
planner and to the **Instancia** that holds the key; the instances keep the values and
write them to files. This directory holds a TLA+ model of that program, the TLC runs
that check it on small instances and theorems about it that TLAPS checks for all sizes.

Identifiers are those of the code (Spanish); comments are in English. Line numbers
refer to `src/`.

## 1. Inventory

| Part | Source | State | Operations | Interacts through |
|---|---|---|---|---|
| Planificador, hiloAlgoritmos | `planificador/src/algoritmos.c` | the ESI in execution, `g_listos`, flags | `planificarSinDesalojo`, `planificarConDesalojo`, `bloquear`, `calcularSiguiente` | semaphores `ESIentrada`, `continua`; flags; requests to ESIs |
| Planificador, hiloCoordinador | `planificador.c:157-342`, `globales.c` | `g_clavesTomadas`, `g_bloq` | GET, SET, STORE, error report | packets of the coordinator; `continua` |
| Planificador, hiloServidor | `planificador.c:81-134`, `globales.c:51-111` | same tables | ESI connects, ends, disconnects | packets of ESIs; `ESIentrada`, `continua` |
| Planificador, consola | `consola.c` | same tables, `g_instruccionConsola` | pausar, bloquear, desbloquear, kill, listar, status, deadlock | same tables from a fourth thread |
| ESI | `esi/src/esi.c` | script and position | run, repeat, end | planner and coordinator sockets |
| Coordinador | `coordinador/src/coordinador.c` | semaphores, `g_respuesta`, known keys | one thread per client | planner, ESIs, instances; shared memory between its threads |
| Coordinador, tables | `tablasAdministrativas.c` | list of instances: keys, job, lock, age | lookups, EL / LSU / KE | `g_mutex_tablas` |
| Instancia | `instancia/src/instancia.c` | storage, bitmap, table of entries, files | SET, STORE, compaction, dump, recovery | the coordinator; a dump thread and its lock |
| biblioteca-propia | `sockets.c`, `paquetes.c`, `serializaciones.c` | none | send and receive packets | TCP |

What makes each part correct, and hard:

- **Planner.** A key has one holder; an ESI is ready, running or waiting in exactly one
  place; the semaphores count what they stand for. Three threads write the same tables
  and flags, and hiloAlgoritmos loops on flags others set. ESIs may end, be aborted or die
  at any moment while they hold or wait for keys.
- **Console.** A fourth thread types on the same tables. It reads its conditions, drops
  every mutex, and acts later; it must not put an ESI in two places, an empty list must
  not be there for a STORE to take its head, and a pause must hold whatever the planner
  was about to do.
- **Choice of the next ESI.** SJF and HRRN have to compare every ready ESI, whatever the
  numbers of their sockets.
- **ESI.** One statement per request; a blocked statement is repeated. `TERMINO_ESI` and
  the last statement travel over different sockets.
- **Coordinator.** At most one statement is being carried (`g_peticion`); the lock of an
  instance is taken and released once per statement; only a SET the planner accepted goes
  to an instance; the list of keys of an instance is what it has. A lock is taken by one
  thread and released by another, on the reply of a process that may die.
- **Instance.** Bitmap and table agree; a value keeps its content while others are
  evicted, moved or recovered; a file has its key's value. The dump runs concurrently; the
  process may be killed at any point.

PROJECT.json lists the hazards line by line, with the properties that would catch them.

## 2. Modules

```
Canales                    connections: FIFO queues of packets
 |- Planificador           the planner's three threads
 |   |- Consola            a fourth: the commands
 |   |   |- Deadlock       what the command deadlock computes
 |   |- Estimaciones       calcularSiguiente, for SJF and HRRN
 |- Esi                    the ESI processes
 |- Coordinador            its threads: of the ESIs, of the planner, of the instances
 |- InstanciaAbstracta     an instance as the coordinator sees it
      \  |  |  /
       Sistema             all composed but the console; Spec, and SpecJusta with fairness
         |- PropiedadesSistema   the properties; it implements Cerrojos
         |    |- MCSistema       scripts and tables for TLC
         |    |- SistemaPruebas  theorems: types, exclusion, empty lists
         |         |- CerrojosPruebas   one place for each ESI; refinement of Cerrojos
         |              |- CoordinadorPruebas   the locks and lists of the coordinator
         |                   |- VistaPruebas    its lists are exact; nobody falls
         |                        |- TurnoPruebas    the statement under way: one turn,
         |                             one place, one owner of the request lock; the
         |                             choice (extends PropiedadesEleccion too)
         |- PropiedadesEleccion  Sistema and Estimaciones: is the choice right?
         |    |- MCTurnos
         |- SistemaConsola       Sistema with Consola; SpecConConsola
              |- PropiedadesConsola   with Deadlock
                   |- MCConsola
                   |- ConsolaPruebas  theorems under the console (extends CerrojosPruebas)
Instancia                  the storage of one instance, in detail
 |- PropiedadesInstancia   its properties; it implements Almacen
      |- MCInstancia
      |- InstanciaPruebas    theorems: types, storage, eviction; refinement of Almacen
Minimos                    least and greatest numbers of a set, for every line of proofs
Almacen                    abstract specification: a map of values and a set of files
Cerrojos                   abstract specification: locks with queues in order of arrival
```

**Canales.** One queue per direction of each connection. A closed socket is read as a
last packet `ENVIAR_ERROR` (`crearPaqueteError`). Packets are whole: the bytes, the
handshake and the framing of `procesarPeticion` are abstracted. A value is abstracted to
the ESI that wrote it.

**Planificador.** `pc` is where hiloAlgoritmos is: `espera` waits on `ESIentrada`, `elige`
picks an ESI, `ciclo` and `continua` are the request loop, `salida`, `salidaBloq` and
`cierre` what follows it. A handler of hiloCoordinador is one step: `continua` makes it and
hiloAlgoritmos alternate. hiloServidor alternates with nobody and `liberarESI` takes no
`mutexBloqueo`, so it is split (`libera`): it looks for the ESI in `g_listos`
(`DesconectaESI`), frees its name and takes it out (`LiberaNombre`, `QuitaListo`); or it goes
over the keys of `g_bloq` in any order, each in two steps, the ESI leaves the list
(`QuitaDeLista`) and, if the list was found empty, the key leaves `g_bloq` (`QuitaClave`);
then its keys are freed (`LiberaClaves`). Between the two of a key a STORE may take the head
of an empty list, and an ESI may join the list and be lost with it. Which ready ESI is chosen
is left open, and covers every planning algorithm; Estimaciones says which. Memory freed and
then read (`liberados`, `NombresLeidos`) and the unassigned name of `liberarESI` are
nondeterministic; a NULL dereference sets `caido`.

**Consola.** `Lee` takes a command and reads its conditions (`Bloquear`, `Kill`...); later
steps have its effect (`Tomar`, `Abortar`...), with `orden` in between. The other threads run
in the gaps, which are those where the code holds no mutex:

- `bloquear` of a ready ESI on a key that is taken is four steps: `Encolar` looks for the key in
  `g_bloq`, `PublicaVacia` puts an empty list there (`consola.c:230`), `SacaDeListos` takes the
  ESI out of `g_listos` (240), `Agrega` adds it to the list (244). An ESI that was chosen
  meanwhile is not in `g_listos`: its id is listed with NULL, the planner goes on, and `nulos`
  remembers it until a command, a choice or `liberarESI` dereferences it (`RecorreNulo`,
  `EligeTrasPausa`, `LiberaNulo`).
- `desbloquear` is `Desbloquear`, `TomaLista` (the list leaves `g_bloq`, `globales.c:91`) and
  `SueltaLista` (it goes back without its first). `mutexBloqueo` is held from one to the other,
  so what waits for it waits (`BloqueoLibre`), but a GET reads `g_bloq` without it. A STORE that
  saw the key before may be left without a list: `SueltaLista` then may end the process.
- `mutexConsola` is `cerrado`, with `mutexAlg` for where hiloAlgoritmos is with it: it goes
  through it before it chooses and has it while it sends a request. `pausado` is that the
  console has it. A `continuar` unlocks it whoever has it; `ajena` says that it once did
  while hiloAlgoritmos had it.

`enEjecucion` compares with `g_nombreESIactual`, which is never reset: `MiraEjecucion`.
`Comprueba` splits the loop's condition from its request, which may now be apart. `Descarta`
is hiloCoordinador dropping a packet under `g_instruccionConsola`.

**Deadlock.** The matrices are relations; `Vuelta` is one turn of Warshall's outer loop;
`Imprime` is the loop that prints groups and clears the diagonal it tests.

**Estimaciones.** Sockets are numbers, as the keys of `g_listos` are; estimates are
hundredths, as ALFA is. `AsignarID` and `Tras` keep both increments of the index.

**Cerrojos.** Who has each key and who waits for it, in order; `idos` are those known to have
gone, the ESIs whose `t_infoListos` was freed. Sistema implements it under `LosCerrojos`
(`tomadas`, `cola` and `liberados`), but for the lists `liberarESI` loses. Its actions say what
may never happen: a key taken while another has it or waits for it, an ESI that leaves a queue
other than first or for good.

**Esi.** A script is a sequence of statements, a key of more than 40 characters or a line
that does not parse. `proximaSentencia` sets `termino` with the last statement (`EsUltima`).

**Coordinador.** A thread is split wherever it waits for a semaphore (`paso`, `pasoInst`),
between the `sem_post` and the assignment of `g_respuesta` (`hiloPlan`), and between the
turns of the two loops of a compaction (`indice`). `uso` is the order of
`ultimaModificacion`. Under KE, `PlanificarInstancia` never comes back: `planificaKE`, with
the tables taken (`TablasLibres`). An instance that arrives is in the table, and available,
before its connection is added (`Presentandose`, from `RecibeNombreInstancia` to
`PresentaInstancia`): a thread that plans to it in between may have read no connection
(`nulas`) and dies sending (`EnviaSinConexion`). `cortadas` are the threads whose connection
was closed while they waited. `ProcesarStatus` asks the instance that lists the key; the answer is
dropped (`RecibeRespuestaValor`), as `procesarPaquete` does with a code it does not know.

**InstanciaAbstracta.** Keys in memory, keys with a file. Whether a SET evicts and whether
its value fits is left open for the instances of `Reemplazan` and `SinEspacio`. `listas` are
those that created their tables: a request that comes before finds NULL
(`AtenderSinTablas`). An entry that `procesarSolicitudValor` frees may lose its name.

**Instancia.** `bitMap`, `storage`, `tabla`, and `paso` of the main thread, which is split
where the dump may run or the process be killed: between the evictions of a SET, between
the entries a compaction moves, around `fopen`. `mutexDumpCompactacion` is `Cerrojo`.
`listadas` and `fase` are the coordinator's side: what it lists, and that it sends the next
request after the reply. `ProcesarSetDefinitivo` does not look for its key, as the code does
not: of a key the table has it adds a second entry (`RepetirClave`), and
`procesarSolicitudValor` frees an entry the table keeps. What the process holds after either
is undefined (paso `sinGarantia`): it may write anything to a file, or end.

**Almacen** is what `Instancia` implements, under `Mapa`: the value of a key is what its
slots hold. Its promise lasts while it is `fiable`; only the two handlers just named
may end it.

Operators that stand just before another of the same parameters and are used nowhere
(`SinRetardo`, `MovidoSinLiberar`...) are plausible bugs: with one in place of the operator
that follows, a run must find its property violated (`mutants` in PROJECT.json).

## 3. Runs

| Run | Instance | Properties |
|---|---|---|
| `turnos` | 3 ESIs, 2 keys, k2 preset as blocked, no preemption; sockets 4 to 7, six estimates for each ESI | TypeOK, DesbloqueoSeguro, TurnoUnico, UnSoloLugar, ClavesDeVivos, EleccionDebida |
| `desalojo` | 3 ESIs, 2 keys, preemption, EL | ExclusionClaves, ListosContados, TurnoUnico, UnSoloLugar, EscrituraExclusiva, PeticionConDueno, VistaFiel, SinCaidas, SonCerrojos |
| `progreso` | 3 ESIs on one key, preemption, SpecJusta | TodosTerminan, ListoCorre |
| `fallos` | 2 ESIs, one may be killed, the other given a wrong script; preemption; the instance may be killed and come back; TERMINO_ESI may be late | ExclusionClaves, VacioSoloDePaso, NuncaEnDosLugares, SonCerrojosSinLaLista, PeticionSinDobles, CerrojoDeInstancia, SinClavesOcultas |
| `compactacion` | 2 ESIs, 2 instances without room, LSU, SpecJusta | ListosContados, CompactacionTermina |
| `consola` | 2 ESIs that take two keys in opposite orders, preemption, 2 commands | TypeOKConConsola, SoloUnRegistro, VacioConConsola, DeadlockInformado, PausaDetiene |
| `instancia` | 3 slots, 3 keys, values of one and two slots, LRU, 6 requests | TypeOK, StorageConsistente, SoloAtomicas, EsUnAlmacen |

All pass, each in less than four minutes with two workers. Between them they take every action
of the three next-state relations, the paths after a crash included. What each shows that a test
would hardly reach is in its `about` and in the hazards.

Some properties name the one way in which the code breaks what one would want, and say there
is no other:

- `VacioSoloDePaso` is `DesbloqueoSeguro` (a STORE finds no empty list) but for the key whose
  list `liberarESI` has emptied and whose entry it has not removed yet; `SonCerrojosSinLaLista`
  is `SonCerrojos` but for the ESIs that join that list then. Where no ESI dies,
  the plain ones are checked (`turnos`, `desalojo`).
- `VacioConConsola` adds the key to which the console is about to add an ESI;
  `SoloUnRegistro` is one place for each ESI, but for ids listed with no data.
- `TodosTerminan` is of behaviours where no ESI ever waits behind another (`EsperanSolos`):
  when one does, the ESI woken first blocks again on a key nobody holds (`dos_en_espera`) and
  may never end. The run has three ESIs on one key, so both kinds of behaviour are there.
  `ListoCorre` is of all of them: whoever waits for ever, a ready ESI gets its turn.
- `PausaDetiene` is of pauses before which no `continuar` unlocked the mutex for
  hiloAlgoritmos: after that, its unlock may end a pause, and a request be sent during one.

Five runs look for a violation and find it; each is a disagreement between the code and
what its own comments or messages say (`findings` in PROJECT.json):

| Run | Property violated | What happens |
|---|---|---|
| `dos_en_espera` | SoloBloqueaPorClaveTomada | with two ESIs waiting, a released key stays in `g_bloq`: the woken ESI repeats its GET and is blocked on a key nobody holds |
| `peticion_perdida` | PeticionConDueno | STORE of an evicted key returns with `g_peticion` taken |
| `respuesta_adelantada` | EscrituraExclusiva | `sem_post` before `g_respuesta`: a refused SET is sent to the instance |
| `sigint` | UltimoDump | SIGINT cancels the dump thread before the last dump |
| `clave_explicita` | SetDecidido | KE takes `g_mutex_tablas` twice: the SET is never decided |

**Bounds, and why they are enough.** Three ESIs are the least that show a waiter behind a
waiter, and that is enough, with one key, for `progreso`; two keys, an ESI that holds one and
waits for the other (`GuionLargo`: both held at once, always taken in the same order, so the
scripts themselves do not deadlock). The scripts of `turnos` add one that ends without its
STORE; those of `fallos` a key too long, a SET and a STORE of a key not taken, and a blocked
last statement: the ESI that may be killed is sound (`InitFallos`) and the other has any of
them. One instance is enough where instances do not interact; compaction has two, and
`MaxFragmentaciones = 2` lets two compactions overlap. In `Instancia` three slots and values of
two slots make fragmentation, eviction and compaction all happen within six requests
(`MaxPedidos`), over several lives of the process. In `consola` two commands (`MaxOrdenes`) are
the least that let one act on what another changed, continue and pause again, or free a key
twice; two ESIs are enough for a cycle (one waiting behind a cycle needs three, and is left to
the theorem). One ESI takes the keys in one order and the other in the other, arriving in either
order; only one stores a key: the statements of `desalojo` are not checked again under the
console. In `turnos`, `EleccionDebida` tries every numbering of the ESIs by `Sockets` and every
estimate of `Datos` on each set of ready ESIs the run reaches: four consecutive numbers give
every pattern of gaps three sockets can have short of two free ones. Nothing else is bounded:
sockets hold what the protocol lets them hold. `Simetria` over the keys is used only in
`instancia`; its temporal properties are a box-action and a safety refinement, insensitive to
which key is which.

`CHECK_DEADLOCK FALSE` in the runs of MCSistema, MCTurnos and MCConsola: the system stops when
every script has ended, and the code can also hang (section 1).

**Timing assumptions.** `RetardoSuficiente`: the coordinator sleeps RETARDO (300 ms in
`configuraciones/coordinador.cfg:5`) before it handles a statement, and the planner reads the
`TERMINO_ESI` sent before it in the meantime. `fallos` drops it. `RespuestaAtomica`: the
planner's thread is not preempted between `sem_post` and the assignment. `fallos` and `consola`
assume it; `respuesta_adelantada` shows what happens without it.

**Fairness.** Weak fairness of each thread and process (`Equidad`): they are POSIX threads
the system schedules, `select` serves each ready socket on every turn. A thread waiting on a
semaphore needs no strong fairness here: the model never has another thread taking it for
ever, since each ESI makes finitely many requests. Nothing is assumed of the
environment: an ESI may never be started, nothing has to die, come back or be dumped.
`TodosTerminan` therefore starts from an ESI that is connected.

## 4. Proofs

`SistemaPruebas` (checked by TLAPS, 1.4.5) proves of `Spec`, for any ESIs, instances and
finite set of keys, any scripts, any algorithm, with and without preemption, deaths and
compactions included:

- `TiposCorrectos`: `Spec => []TypeOK`. `TypeOK` is not inductive. `Tipos` adds
  `ActualEnCurso` (while hiloAlgoritmos is past `elige`, or an answer of the coordinator is
  under way, `actual` is an ESI: the planner appends to its queue) and `PedidosEnCurso` (a
  thread that waits has the SET or STORE it waits with, and a thread about to send has an
  instance). One lemma per thread or process (`TiposAlgoritmos`, `TiposHiloDeEsi`...), one
  step per action.
- `ExclusionSiempre`: `Spec => []ExclusionClaves`. The lists of `g_clavesTomadas` only grow
  by a GET of a key no other list has (`TomadasCrecenConGET`), whichever name a freed
  pointer yields.
- `VacioSoloDePasoSiempre`: `Spec => []VacioSoloDePaso`. A held key in `g_bloq` with an empty
  list is the one `liberarESI` is removing: a key enters `tomadas` only while it is not in
  `g_bloq`, every other step that empties a list removes its key (`CambiaBloq`), and the
  keys left with an empty list (`Pendientes`) never become more (`VacioNext`).

`CerrojosPruebas` proves two more of `Spec`:

- `NuncaEnDosLugaresSiempre`: `Spec => []NuncaEnDosLugares`. An ESI is not at once ready,
  in its turn or in a list, nor twice in the lists. Not inductive: an ESI could connect while
  it is still somewhere. `EnUnLugar` adds that an ESI whose name has not arrived is nowhere,
  and that no name arrives twice (`NombresPendientes`).
- `SonCerrojosSinLaListaSiempre`: `Spec => SonCerrojosSinLaLista`, the refinement: the initial
  state maps to `Inicio` and every step of every thread to a step of Cerrojos, a stutter, or
  `PierdeLista`, which only `QuitaClave` takes. It needs `NuncaEnDosLugares` (who is queued was
  in no queue), `ExclusionClaves` and `VacioSoloDePaso` (giving a key back takes the first out).

`ConsolaPruebas` proves of `SpecConConsola`, for any number of commands:

- `TiposConConsolaSiempre` and `VacioConConsolaSiempre`: the types, and that empty lists are
  only there where VacioConConsola says. A step of the system under the console is one of
  `Next` (and the lemmas of SistemaPruebas apply), one that only ends the process (`SoloCae`),
  `Comprueba`, `Descarta`, a step of the mutex or one of a command (`CasosConConsola`). The
  invariant, `ConsolaEnOrden`, adds `OrdenEnPie` (of a key the console is about to take no list
  has been left empty since it looked, and the list in its hands is not empty) and
  `MutexEnPie`.
- `PausaSiempreDetiene`: `SpecConConsola => PausaDetiene`, an action property. Only `Pide`
  makes the requests on the way to an ESI more (`SinPedidoNoCrece` counts them in any queue),
  and under the console it takes a thread inside the mutex. `MutexEnPie` is what makes the mutex
  one: while no `continuar` was typed at the wrong moment, a pause that has it has locked it,
  and hiloAlgoritmos is not inside.
- `DeadlockSiempreInformado`: `SpecConConsola => []DeadlockInformado`, for any finite set of
  ESIs (`ESIsFinitos`) and while no id is listed with NULL. Of the state it needs only that who
  is in a list is in the list of a key of `g_bloq`. The rest is about loops. Warshall's is the
  transitive closure (`CierreEsTransitivo`, by induction on the set of ESIs taken as
  intermediate so far, `CierrePaso`); an ESI is in the diagonal exactly when a simple cycle of
  waits goes through it (`DiagonalEnCiclo`, `CicloEnDiagonal`; a simple cycle is one of
  `SetToAllKPermutations`, `SinRepetir`); and the loop that prints while it clears the diagonal
  keeps groups and diagonal a partition of what the diagonal was (`Repartida`, `InformePaso`).
  The folds are unfolded by `PliegueExiste`, and the inductions over finite sets are arguments
  on a least counterexample (`InduccionFinita`), since the library's induction takes a predicate
  as a parameter, which the provers cannot instantiate.

`InstanciaPruebas` proves of the `Spec` of Instancia, for any keys, values, sizes, number of
slots and replacement algorithm:

- `TypeOKSiempre`, `StorageSiempreConsistente`: `[]TypeOK`, `[]StorageConsistente`. Neither is
  inductive: a STORE writes to the file what the slots of an entry hold, which is a value only
  if the slots of the table are (`ConValor`); a SET adds an entry, right only if its key has
  none (`PedidoEnCurso`); the dump writes keys it listed before (`DumpEnCurso`); a recovered
  key must not be in the table, nor the dump be running (`RecuperacionEnCurso`). `Inductivo`
  is these with `TypeOK` and `TablaBien`. What a placement, an eviction or a move does is proved
  once, of any table, bitmap and storage (`TablaConNueva`, `TablaSin`, `TablaConMovida`), and
  then used of the state.
- `SoloAtomicasSiempre`: `Spec => SoloAtomicas`, an action property, with one step per thread.
- `EsUnAlmacenSiempre`: `Spec => EsUnAlmacen`, the refinement, up to the step that repeats a key
  or frees an entry, which is `Romper`, and after which nothing is promised. `Mapa` is
  determined by which value each key's entry holds (`MapaDelEstado`), so a step is `Guardar`,
  `Olvidar`, `Archivar`, `Caer` or a stutter by what it does to that relation (`MapaIgual`,
  `MapaConUnoMas`, `MapaConUnoMenos`): first fit, compaction and ages do nothing to it.

`CoordinadorPruebas` proves of `Spec`, under the hypothesis `SinCompactaciones` (`SinEspacio`
is empty: every SET finds room after its evictions), for any ESIs, instances, keys and
scripts, any algorithm, and whatever dies or comes back:

- `PeticionNuncaDoble`: `[]PeticionSinDobles`, `CerrojoNuncaDoble`: `[]CerrojoDeInstancia`,
  `ClavesALaVista`: `[]SinClavesOcultas`, and `CoordinadorSoloCaeSinConexion`: the coordinator
  dies only of a statement sent to an instance it found no connection of, never of a job that
  was not recorded.
- They have one invariant, `Protocolo`. That the request lock is not released twice needs that
  the answer to a statement is only given once; so `UnDueno` says where the one statement is:
  in a thread (`paso`), in an instance or on the way (`Ocupada`), or nowhere with the lock free.
  `CerrojoTomado` says the lock of an instance is taken while a statement is in it, which a
  disconnection would break if the thread that reads it did not look (`SueltaSiTomada`).
  `Enlace(i)` is what the connection with one instance holds: `PaquetesBien` (one statement at
  most, in one of the queues), `EnlaceBien` (the end is read last; an instance that connects
  has nothing in memory, and is told its keys first), `TrabajoBien` (the job recorded is the
  SET under way, so SET_OK finds one; evictions are named before SET_OK), `ListaCubre` (a key
  in memory is listed and its eviction not on the way, or is the SET's). `PedidoDelPaso` links
  a thread to the job. The effect of each packet is a lemma about any two queues
  (`EnlaceTrasSetOk`...), and `ProtocoloEnUna` says a step at one connection leaves the others.
- The hypothesis is what the code needs: after a compaction `g_peticion` is released twice
  (section 5), so without it the statements are false, as TLC shows.

`VistaPruebas` adds the hypotheses `NadieMata` (`Mortales` is empty: only the program ends an
instance) and `InstanciasListas` (every instance is connected before the ESIs: one that connects
later is known before its connection is, and a SET in between ends the coordinator) and
proves:

- `VistaSiempreFiel`: `[]VistaFiel`. An instance that died and recovered its files has lost
  what was not dumped, which the coordinator still lists: without `NadieMata` it is false, and
  `SinClavesOcultas` is what is left.
- `NingunaInstanciaCae`: no step ends an instance, and `AlmacenSiempreEnPie`:
  `[]AlmacenEnPie`, what SinCaidas says of the coordinator and the instances it knows.
- The invariant, `Vistas`, adds to `Protocolo` the other half of `ListaCubre`: a listed key is
  in memory or its eviction is on the way; no key is listed twice, and that of a SET that was
  done still is listed only while the eviction of the overwritten entry is on the way; a STORE
  is on its way only to an instance with the key.

`TurnoPruebas` proves what needs the whole path of a statement, from the request of the planner
to the unit of `continua` that reports it, for any numbers of ESIs, keys and instances and any
scripts that meet `Supuestos`:

| Theorem | States `Spec => [] ...` | Hypotheses |
|---|---|---|
| `TurnoSiempreUnico` | TurnoUnico | Supuestos |
| `SiempreEnUnSoloLugar` | UnSoloLugar | Supuestos |
| `ListosSiempreContados` | ListosContados | Supuestos |
| `ClavesSiempreDeVivos` | ClavesDeVivos | Supuestos |
| `DesbloqueoSiempreSeguro` | DesbloqueoSeguro | Supuestos |
| `SonCerrojosSiempre` | SonCerrojos | Supuestos |
| `NuncaHayCaidas` | SinCaidas | Supuestos |
| `EscrituraSiempreExclusiva` | EscrituraExclusiva | Supuestos, GuionesCierran |
| `PeticionSiempreConDueno` | PeticionConDueno | Supuestos, GuionesEscriben, SinReemplazos |
| `EleccionSiempreDebida` | EleccionDebida | Supuestos, ProximaPositiva |

The hypotheses name what the code relies on; section 5 says what happens without them:

- `Supuestos`. `GuionesBien`: a script writes and stores only keys it took and has not stored
  since (otherwise it is aborted, and a refused SET or STORE keeps `g_peticion`,
  `coordinador.c:333`), and its last statement is not a GET (an ESI that blocks after
  `TERMINO_ESI` is freed while it waits, `algoritmos.c:194`). `SoloElSistema`: no ESI is killed
  (the planner would wait for its answer for ever, `planificador.c:114`). `HayInstancias`: the
  coordinator starts with an instance (a SET without one is an error, `coordinador.c:358`).
  `RetardoSuficiente`: section 3. `SinCompactaciones`, `NadieMata` and `InstanciasListas`: as
  above.
- `GuionesCierran`: the last statement is a STORE. The keys of a script that ends with a SET
  are freed when the planner has accepted it, which may be before it reaches the instance.
- `GuionesEscriben` and `SinReemplazos`: a STORE finds its key in some instance, because the
  script has SET it and nothing was evicted. Of another key it returns with `g_peticion` taken
  (`coordinador.c:397`, `410`, `417`); the run `peticion_perdida` is that case.
- `ProximaPositiva`: no next estimate is zero. `calcularRR` divides by it.

`desalojo` and `progreso` meet all of them but the last, which is about the estimates; `turnos`
meets that one and Supuestos.

The invariant is `Turnos`, proved on top of those of the other modules (`Bases`). `Fases` says
of each ESI where its turn and its script are: out of its turn and either not known to the
planner yet, waiting for a request, or gone (`Fuera`); or in its turn and in one phase: asked,
its statement on the way to the coordinator, with the planner, answered, or ending (`Pedida`,
`EnviadaPorEsi`, `EnviadaAlPlan`, `Respondida`, `Cerrando`). Each phase says what the flags, the
queues and `continua` are then, and that the ESI holds what its script has in hand at that
statement (`Puede`): TurnoUnico alone counts statements, but the next step depends on which one
it is, and on whether its answer finds the ESI ready. `Registradas`: a key that is held is a key
of the system. `TablaDisponible`: every instance of the table is there to be chosen. `Contados`
counts `g_listos`. `Fases` also says that `liberarESI` never runs (`libera = Ocioso`), which is
why the plain DesbloqueoSeguro and SonCerrojos follow. There is one lemma for each action
(`FasesPide`, `FasesRecibeSTORE`...), and `FasesQuietas` for those that leave the turn as it is.

- `Escrituras` adds, for EscrituraExclusiva, that from the moment a thread takes a SET until an
  instance has it, no packet that would free its key can be next (`Soltara`).
- `Peticiones` adds, for PeticionConDueno: nothing was refused and nobody cut off (`Aceptadas`);
  what an ESI has SET is in the list of an instance, or still under way (`Escritas`); each
  statement has an instance of the table to go to (`ConLugar`); and the lock is free or somebody
  answers for it (`HayDueno`). The upper bound is `PeticionSinDobles`, from `Protocolo`.
- EleccionDebida needs of the state only that somebody is ready (`Contados`): the rest is
  `SiempreBienElegido`, about `CalcularSiguiente` on any set of ready ESIs. "Not better than" is a
  total preorder, for SJF and for the truncated ratios of HRRN (`PonderaOrdena`); the search,
  defined downwards from the greatest socket, exists (`BusquedaExiste`) and chooses well
  from any index (`BusquedaElige`).

Each of these invariants was checked by TLC on the runs that meet its hypotheses before it was
proved.

The only assumptions on constants, but these hypotheses, are those named in the modules
(`ClavesAssumption`, `NadaAssumption`, `TablaInicialAssumption`, `StorageAssumption`...); TLC
evaluates them in the runs. The runs that check the properties of `CoordinadorPruebas` and
`VistaPruebas` meet their hypotheses: `fallos` the first, with deaths, and `desalojo` both.
General lemmas on sequences (`RemoveFirstTipo`, `PrimeraDeTipo`, `UltimaDeTipo`) rest on
`MinimoNat`, a least element of a set of naturals, got from the well-foundedness of `<`;
`MaximoNat` is its counterpart for finite sets.

**Only model-checked:**

- Liveness (TodosTerminan, ListoCorre, CompactacionTermina), which is outside what the prover
  handles. Every invariant and action property of the runs that pass has a theorem but
  SoloUnRegistro, and ListosContados with compactions.
- Beyond the hypotheses of TurnoPruebas: ListosContados with compactions (`compactacion`). The
  rest is not claimed there (section 5).
- UltimoDump and the other properties of the runs that end in a violation, which are false of
  their instances. PeticionConDueno and EscrituraExclusiva are proved of others, above.

## 5. What is not claimed

Some things that one would want do not hold, and the code does not say they do. They are
in the model, and the hazards name them:

- After a compaction `g_peticion` and the locks of the instances are released twice
  (`coordinador.c:516`, `249`): TurnoUnico, PeticionSinDobles, UnSoloLugar and
  EscrituraExclusiva are checked without compactions. A SET_DEFINITIVO may carry another
  instance's job, and its key is never listed.
- An ESI that ends, is aborted or dies with keys frees them without waking who waits
  (`globales.c:107`): the scripts of `progreso` STORE what they take. A second ESI that waits
  for a key makes the first woken block again (`globales.c:99`, `planificador.c:208`).
- While `liberarESI` removes a key (`globales.c:67` to `71`) a STORE of its holder ends the
  planner, and an ESI that blocks on it waits in no list any more.
- An instance that connects while ESIs run may be planned a SET before it has a connection
  (`coordinador.c:453` to `455`), which ends the coordinator, or be sent one before its tables,
  which ends the instance. SinCaidas is checked with instances that are there from the start.
- A SET_DEFINITIVO of a key the instance has gives it two entries (`instancia.c:236`).
- The death of the running ESI leaves the planner waiting (`planificador.c:114`).
- Refused SETs and STOREs keep `g_peticion` (`coordinador.c:333`, `358`, `397`, `410`).
- With somebody at the console much less holds. `bloquear` takes a key it read as free (two
  holders: `consola.c:207`, `219`), lists an ESI with no data when it was chosen meanwhile
  (`240`), lets a STORE find the empty list it published (`230`), blocks an ESI on a key it
  holds itself, and, of the ESI in execution, drops the answer its statement waits for, so that
  `g_peticion` is never released (`planificador.c:162`). `kill` of the ESI in execution frees
  the name it was typed with and frees it again (`consola.c:319`, `353`). `continuar` unlocks a
  mutex another thread has (`consola.c:150`). ExclusionClaves, EscrituraExclusiva,
  PeticionConDueno and ClavesDeVivos are checked without a console.
- `status` of a key in no instance ends the coordinator (`coordinador.c:546`), any other is
  never answered.
- SJF and HRRN go over the socket right after one they looked at, unless that is the first
  (`algoritmos.c:73`): of three ready ESIs with consecutive sockets the third is never compared,
  of four the fourth is. `EleccionDebida` excepts the sockets at an odd distance from the
  beginning of an unbroken row after the first (`Saltado`), and shows there is no other error.
  Both compare estimates as integers.
- The matrices of `deadlock` are indexed past their rows when somebody holds a key without
  waiting, or waits for a key nobody holds (`consola.c:702`, `707`): never read, but written.
- A recovered instance has lost what was never dumped, and a STORE of it ends the process.

## 6. Not modelled

- Serialization (`serializaciones.c`): straight copies between a struct and a buffer, with
  no state, branch or loop but over the keys of an instance. Framing: `procesarPeticion`
  takes what `recv` gives as whole packets up to a filler, and a packet cut in two or a long
  value is misread; a model of it would be one of bytes, apart from the rest. Handshakes, logs,
  configuration files; connection records (`procesarHandshake`, `procesarNombreESI`) apart
  from those of instances.
- Of the console: `man`, `exit`, what is printed, and how a line is split into words. Of
  `status`: `procesarValor` and `RESPUESTA_STATUS` (`planificador.c:321`), which no message
  reaches.
- `envejecer` and the updates of the estimates: their values are inputs of `calcularSiguiente`.
- `distribuirKeys`: the ranges of KE, which no SET reaches (`clave_explicita`).
- Names are taken to be unique, keys to differ by more than case, and descriptors not to be
  reused while an old one is still listed. A packet to a closed socket is lost (`MSG_NOSIGNAL`).
- After a crash of planner or coordinator only the ESIs go on, to their end.

## 7. Plan

Done: the modules above, in the order Canales, Planificador, Esi, Coordinador,
InstanciaAbstracta, Sistema; Instancia and Almacen; Consola, Deadlock and SistemaConsola;
Estimaciones; Cerrojos and its refinement; the proofs of section 4.

Left, in this order:

1. `InstanciaAbstracta` as what the coordinator may rely on of `Instancia`: a refinement.
2. The framing of `procesarPeticion` as a model of its own, in place of one of the runs.
3. SoloUnRegistro as a theorem: it needs NombresPendientes under the console.
4. ListosContados under weaker hypotheses: with compactions it is only model-checked, and
   needs an invariant that does without `Protocolo`.
