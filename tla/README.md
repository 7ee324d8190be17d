# Verification of enocean2mqtt-timberwolf

The program is one asyncio process written in Python, with a browser front end.
It keeps TCP connections to EnOcean gateways, receives radio telegrams, decodes them and publishes them to
MQTT; it takes commands from MQTT and a web UI and sends telegrams; and it runs a
heating controller that needs no further server.  Everything runs in one event
loop: code between two `await`s is atomic, and every `await` is a point where
another task may change what was read before.  The modules take exactly these
points as the borders of their actions.  The front end (`app.js`, on the vendored
library Vue) is a client of its own: it keeps lists and forms, and its requests
run on connections of their own, so that they arrive and are answered in any order.

Names of variables and operators are those of the code where TLA+ allows it; the
code is partly German, and so are they.  `PROJECT.json` maps every definition to
its lines.

Contents: 1 inventory, 2 modules and their code, 3 runs, 4 bounds, 5 fairness,
6 proofs, 7 what the code does otherwise than it says, 8 what is left out,
9 plan.

## 1  Inventory

| Part (source) | State | Operations | Works with | Hard about it |
|---|---|---|---|---|
| Meter-reading guard (`pipeline.py` `_process`, `energy_state.py`) | reference and its time per meter, series of rejected readings, store with dirty flag, YAML file | accept, reject as too low, reject as jump, heal, save if due, load | receives from the cascade, publishes to MQTT, saved by `main.py` | reference changed before two awaited publishes; crash between saves; wall clock set back; a poisoned reference must heal |
| Receive path (`gateway/*`, `cascade.py`) | queue per gateway, queue of the manager, dedup buffer, RSSI table | receive, fan in, drop duplicates | one task per gateway, one fan-in task per gateway, one pipeline task | copies of an emission in any order, full queues, clock set back |
| Device registry (`devices.py`, handlers in `webui/server.py`) | devices, index by sender id, index by TX sender id, `devices.yaml` | upsert, remove, create, replace, delete device, delete channel, set up an outlet, load | read by the pipeline for every telegram, by the TX router, by the heating controller | shared ids, objects changed in place after they were indexed, save fails after the change |
| Observed senders (`observed_senders.py`) | observed ids with time and count, file | record, forget, cleanup, save if due | pipeline records, registry handlers forget | observed and assigned must not overlap |
| Heating controller (`heizung.py`, handlers) | remembered setpoints, tests, bookings of telegrams, published texts, settings | `einmal_regeln` by the scheduler and by the handlers of web UI and MQTT, test, send now, PUT, stop | sends by the TX router, publishes by MQTT, reads pipeline values | runs overlap at every await; a run keeps its clock and settings; lost telegrams; restart |
| LAN gateway (`gateway/lan_tcp.py`, `base.py`) | writer, status, backoff, lock, chip id | connect, version request, read, send, reconnect, stop | its own task, TX callers | lost connection while a caller waits for the lock; cancel outside of `try` |
| Gateway selection (`cascade.py`) | RSSI per device and gateway with age, policy | update, prune, choose | pipeline, TX router | stale statistics, gateway enabled but not connected |
| Shutters (`tx_router.py`, `actor_state.py`) | position, movement, target, travel times; `actor_state.yaml` | commands, position commands, reports of the actuator, wall switches, calibration | MQTT, pipeline, web UI | command, report and clock race for the position; the position is computed, never measured |
| Heating tab (`app.js`, `put_heizung` and the switch handlers) | a form per browser; zones and switches of the server | load, poll, edit, save, turn a switch | server, MQTT | answers overtake each other, old forms, several browsers |
| Device tab (`app.js`, device handlers) | list, dialog with rows | poll, edit, add, save, delete, switch EEP, sender ids, pairing | server | a continuation works on whatever dialog is open when its answer comes |
| Rest of the TX router | dim memory of switches, dimmers, valves | commands, feedback | MQTT, pipeline, heating | encoding |
| ReMan pairing (`tx_router.py`) | waiters for answers | unlock, query, pair, lock | pipeline wakes it, gateways | timeouts, late answers, two pairings at once |
| MQTT (`mqtt_client.py`) | client, subscriptions, extra topics, reconnect task | connect, publish, subscribe, reload | everything | publish without client does nothing, reload against users of the old client |
| Heating decisions (`heizung.py`) | none (pure) | windows over midnight, priorities, contacts, offset | heating controller | boundaries of windows, priorities |
| Pipeline routing (`pipeline.py`) | last buttons, serial numbers, button switches | press and release, auto EEP, learn | registry, MQTT, TX router, heating | release without EEP, learn telegrams |
| ESP3 framing (`gateway/esp3.py`) | byte buffer | feed, resync | LAN gateway | CRC, split and wrong frames |
| Sender id blocks (`sender_routing.py`, `observed_senders.py`) | none | id to gateway and back, remap | registry handlers | width of ids, unreserved proposals |
| EEP (`eep/`), `encoders.py` | tables | decode, encode | pipeline, TX router | round trip, clamping |
| Catalogue and scaffold (`products.py`, `device_scaffold.py`) | tables | search, propose | web UI | none of concurrency |
| Web UI: teach mode, live log, configuration (`webui/server.py`, `config.py`) | teach mode with deadline, ring buffer, configuration file | the HTTP handlers | everything | teach mode expiring, configuration replaced while used |
| Audits, other tabs, deployment | log files, browser state | append, show | - | - |

What has to hold, part by part:

- *Guard.*  The reference in memory and in the store agree.  A published reading
  of a meter never falls, unless a healing, or a start from an older file, explains
  it.  A zero is never accepted.  A wrong reference does not block its meter for ever.
  What the dirty flag calls saved is saved, for all meters together.
- *Receive path.*  An emission passes at most once, its order against others is
  kept, nothing is dropped that is no repetition, everything heard gets through.
- *Registry.*  A lookup finds every channel that has the id, and no channel that has
  it not or that is gone.  What a client was told to have worked is on disk.  An id is
  never observed and assigned at once.
- *Heating.*  An actuator comes to the setpoint that stays wanted, whichever runs
  overlap and whichever telegrams get lost.  Only setpoints of the plan are
  remembered.  A test ends.
- *LAN gateway.*  The status shown agrees with the writer, writers do not mix, a
  reachable gateway is connected in the end, no caller of `send` waits for ever.
- *Shutters.*  Undisturbed runs give the real position, an end stop gives it always.  A
  target lies ahead of its movement.  What is published is what the program believes.
  A movement ends.  Calibrated travel times stay.
- *Heating tab.*  A switch turns by an order only, never by saving an old form.  An outlet
  keeps the base setpoint of its actuator.  Nothing half typed is lost to a poll, and no save
  is answered with another browser's zones.  The display catches up.
- *Device tab.*  A save writes what the user saw and nothing else.  One sender of a
  channel is active.  The list catches up.
- *Not modelled:* the answer taken by a pairing is that to its query; the gateway chosen
  is one that can send; a topic shows the last value.

`PROJECT.json` lists under "hazards" each place where one of these can go wrong,
with the properties that watch it, or the reason why none does.

## 2  Modules and their code

`MCx` extends module `x` with the symmetry or the enumerated inputs TLC needs.

**EnergyGuard** models the check of `energy_kwh` in `TelegramPipeline._process`
with `_stand_merken`, `EnergyStateStore`, and the order of the shutdown in
`main.py`.  `cache`/`cacheTs` are `_monotonic_cache`/`_monotonic_ts`,
`wert`/`zeit` the store's entry, `reihe` is `_monotonic_rejects`, `diskWert`/`diskZeit` the file,
`pub` the retained topic.  One telegram is one action `Empfangen`, whose
disjuncts are the code's branches in the code's order: first value (`Erstwert`,
`ErstwertNull`), rise (`Anstieg`), rise that the elapsed time does not allow
(`Sprung`), fall (`Monotonie`), fall that completes a series (`Selbstheilung`).
`StandMerken` includes the throttled save.  The two publishes follow as
`RawPublizieren` and `StatePublizieren`, each of which may fail; a telegram that is
being published (`sendung`) holds up the next one, as the pipeline has one task.
`Herunterfahren` saves and `PipelineStop` ends the task, with telegrams between the
two, as in `amain`.  `Absturz` and `Start` lose memory and load the file; when the file
cannot be read, the history variable `ungelesen` keeps the meters it has, until they are
heard again.

**EnergyMeter** composes the guard with counting meters and a bounded number of
outliers, crashes and stops, for the questions about series of readings and about what
the file, which is written as a whole, keeps of another meter.

**DedupBuffer** has `DedupBuffer.is_duplicate` as operators; **RxPath** composes it
with the gateways' queues (`LANGateway._dispatch_packet`), the fan-in tasks
(`GatewayManager._fan_in`), the pipeline task and a wall clock that may be set back
once.  `Tick` requires the gateway queues to be empty: `Queue.get` does not suspend
while there is an item, so a woken fan-in task drains its queue before the loop polls
sockets again.  `UhrZurueck` requires the same: fan-in tasks run in the order in which
they were woken, so what was stamped before a setback stays ahead of what is stamped after.

**DeviceRegistry** models devices as objects, since the code's difficulty is that
handlers change the registered object in place: `geraete` holds the
registered object of each device, told apart by a number (`nr`), and `index` the three
indices, whose entries name the object.  `Ohne` drops the keys found in the object of
*now*, as `_remove_from_index` does; `Upsert` adds those of the new one.  The handlers
(`GeraetSpeichern`, `GeraetLoeschen`, `KanalLoeschen`, `ZielEinrichten`) are one action
each, as they have no await, saves that fail included: then the change is in force, and
`ungesichert` notes that the last save has failed.  The observed senders are there
with their pipeline hook (`Empfang`), their two handlers and their throttled file.

**Heizregler** has `einmal_regeln` as a process with a program counter: `Beurteilen`
judges one zone (and remembers its setpoint and drops an expired test),
`Erreicht`/`GehtVerloren`/`Scheitert` are the three ends of the awaited
`handle_command`, `Buchen` books, `Enden` saves if due.  Several runs may be under
way, each with its own age and plan: the code's clock and settings are locals of
the run.  `TaktBeginnt` is the scheduler, `Regeln`, `JetztSenden`, `TestSetzen`,
`PutHeizung` the handlers.  `zonenDatei` is `heizzonen.yaml`, which a restart reads:
`PutScheitert` is the handler whose save raises, with the new zones in force and nothing
after that done.  The surroundings change window, setpoint, contact and
readiness at any time.

**LanGateway** has `_run_loop` with `_connect_and_read` as a process over the places
where it awaits, the lock as a queue (an `asyncio.Lock` is fair), `send` as
`SendeBeginn`, `SperreErhalten`, `DrainEndet`, and the cancel of `Gateway.stop`, which
at `open_connection`, the version request and either `wait_closed` (after a loss, and when
reading was ended by the stop) skips the rest.

**HeizungTab** models the heating tab in several browsers and the server behind it.
`form` is the reactive data of `Heizung` in one browser (`zonen`, `schalter`, `laedt`),
`anfrage` the requests under way, each with the place where it is: on the way there
(`hin`), handled (`server`), on the way back (`zurueck`).  `UmlegenAnkunft`, `Fertig` and
`SpeichernAnkunft` are the handlers with their run of the controller as an await, or ended
by a write that fails after the change is in force; a handler that was under way when the
configuration was replaced answers from the old one (`MitAltemStand`); `gesendet` notes what
a browser's save has sent; `Takt` is the ten-second poll, `Antwort` the continuation in the
browser, `Visu` a command by MQTT.  **Schalterstand** is the abstract specification of the
switches - a position changes by one order given for this switch, at most once per order - and HeizungTab
implements it under a refinement mapping: `stand` is read off the server's list, an
order is a request or MQTT command to turn a switch that has not arrived
(`INSTANCE Schalterstand WITH ...`).

**GeraeteTab** models the device tab: the polled `liste`, the `dialog` with its rows,
the requests as above, and the server's part as far as a device goes (`Danach`).  The next
free sender id skips what the registry has and whatever ids the gateway may have heard
(`NaechsteId`).  Saving sends the rows, and for what the dialog does not show the list
(`Serialisiert`).
`gestoert` remembers which devices were written from something stale, so that the
properties can say what holds otherwise.  Channels are kept by their numbers, and
`Nter` gives the n-th of them: the order in which rows are shown and sent.  The device list
that the server starts from is normalised, as `devices.py` does when it loads
(`AnfangAnnahme`).

**Rolladen** is one shutter between the program's state (`st`, `laufzeit`, `datei`), the
actuator and the real position.  A command is `Befehl` up to the await of its sending and
`Abschluss` after it; `Taster` is a wall switch heard by the program, the actuator or
both; `Melden` is the actuator's report; `Veroeffentlichen` runs a publish task;
`Neustart` is an orderly stop or a crash, with the restart.  The history variables say
when the properties claim something: `sauber`, that every run so far ended by itself and
was reported before the next command; `neustarts`, how many restarts have rounded the
position since it was last exact; `wunsch`, what the last position command asked for.

**EnergyGuardProofs**, **RxPathProofs**, **DeviceRegistryProofs**, **HeizreglerProofs**,
**LanGatewayProofs**, **HeizungTabProofs**, **GeraeteTabProofs** and **RolladenProofs** hold
the theorems, see 6.

## 3  Runs

| Run | Checks | Shows |
|---|---|---|
| `energy_core` | `CacheWieSpeicher`, `ReiheBelegt`, `KeinNullStand`, `PubFaelltNurMitGrund` | one meter through failing saves and loads, crash, orderly stop, clock set back, lost publishes: the reference and the retained reading keep their promises |
| `energy_healing` | `SauberIstGesichert`, `DateiVergisstNicht`, `HaengtNichtFest` | the self-healing gets a poisoned reference back, interrupted by outliers and restarts; with failing saves and loads the file keeps a second meter, but for what could not be read and was not heard since |
| `energy_shutdown` | `OrdentlichGesichert` (violated) | a reading accepted while the process stops is not in the file |
| `rx_core` | `TypeOK`, `HoechstensEinmal`, `ReihenfolgeGewahrt`, `VerworfenNurImFenster`, `KommtDurch` | two gateways hear press and release, three emissions, the clock set back: each once, in order, and nothing is dropped but repetitions and what full queues drop |
| `registry_core` | `IndexVollstaendig`, `IndexGenau`, `DateiWieRegister` | two devices sharing ids, every handler, failed saves, restarts: lookups are complete, and exact as long as no handler has changed an object in place; registry and file differ only while the last save has failed |
| `registry_setup` | `RxIdIstWeg` (violated) | the receive id of a set-up outlet stays in the index |
| `heating_core` | `NurPlanGemerkt`, `SauberIstGesichert` | overlapping runs with moved setpoints, a test, deleted zones, failed saves, of the zones too, and a restart |
| `heating_follow` | `AktorFolgt` | with overlapping runs, lost telegrams and a test the actuator comes to what stays wanted |
| `gateway` | `TypeOK`, `StatusPasstZuWriter`, `EinerSchreibt`, `WiederVerbunden`, `SendenKehrtZurueck` | connect, lose, cancel at any await, with two TX callers; reconnect, and every call of `send` returns |
| `heating_tab` | `TypeOK`, `BasisPasstZumAktor`, `SchalterNurPerAuftrag`, `EntwurfBleibt`, `AnzeigeHoltAuf` | two browsers, one of them with an old form, and the visualisation; the refinement of Schalterstand; drafts are kept, and a save's answer is what was sent; the display catches up |
| `shutter` | `TypeOK`, `ZielVoraus`, `StandStimmt`, `WunschErfuellt`, `LaufzeitBleibt`, `AnzeigeAktuell`, `FahrtEndet` | commands of two callers, wall switch, reports, losses and restarts against the real position, which the computed one equals up to half a per mille per restart, and exactly after an end stop |
| `device_tab` | `TypeOK`, `EinAktiver`, `NurGewolltes`, `WasManSieht`, `ListeHoltAuf` | dialog, polls, deletions, EEP and learn telegrams in any order: a save writes what was seen |

`energy_shutdown` and `registry_setup` each check one sentence of a comment or docstring
that the code does not keep, see 7.  The `TypeOK` of EnergyGuard, DeviceRegistry and
Heizregler, and `PubNichtUeberReferenz`, are proved and not run.

Every property has a mutant in `PROJECT.json`: the definition of the code changed as
a bug would, with which TLC finds the property violated under the same
configuration.  The mutated operators stand above the ones they replace, marked
`Mutant`.

## 4  Bounds

| Bound | Where | Why it is enough |
|---|---|---|
| `MaxWert`, `MaxJump`, `MaxKw`, `Kulanz` | EnergyGuard | 0..4 holds a zero, a reference, a plausible rise, a jump and a series of two below a reference; the limits are small enough that every branch is taken |
| `Entsperren` | EnergyGuard | 3 in `energy_core`, so that two readings in series do not heal yet (the code: 5); 2 elsewhere |
| `MaxZeit`, `SaveInterval`, `QueueLag` | EnergyGuard | saves that are due and not due, a clock that is set back, telegrams stamped before and after now |
| `MaxZaehler`, `MaxStoerungen` | EnergyMeter | nine counts and two disturbances: a series cut off, begun again, completed |
| `Nebenzaehler`, `Ausreisser`, `LeseFehler` | EnergyMeter | a second meter that reports once and is not disturbed, so that what happens to it in the file comes from the first one; loads that fail |
| `MaxSendungen`, `MaxZeit`, `Window`, `Laufzeit` | RxPath | a telegram, its repetition within the window, one after it; copies up to one window apart |
| `DedupMax`, `GwQueueMax`, `MgrQueueMax` | RxPath | buffer large enough that nothing is evicted, as 2000 entries for 200 ms are; queues small enough to overflow |
| `MaxRueck` | RxPath | 2: the clock goes back once, by a window or by more than one |
| `MaxObjekte`, `Nutzlasten`, `Ids` | DeviceRegistry | one object may be made per start, so that it replaces the loaded one; two ids, one of them in the gateway's block; the contents are the shapes handlers distinguish |
| `LaufMax` | Heizregler | 0 (`heating_core`): a run takes no time against the clock, but may be interleaved at each await; 1 (`heating_follow`): it can also outlast a test or an interval |
| `Sollwerte` | Heizregler | two in `heating_core`, so that a remembered value can be outdated; in `heating_follow` one, which with the lowered one and that of the test makes three telegrams to confuse |
| `TestDauer`, `Intervall` | Heizregler | 1, the smallest time in which something expires during a run |
| `MaxTests`, `MaxNeustarts` | Heizregler | one restart and one test, begun and ended or left to expire, in `heating_core`; one test and no restart in `heating_follow`: liveness needs disturbances to end |
| `BackoffStart`, `BackoffMax` | LanGateway | 1, 2, 4: start, growing, limit (1, 2, ..., 30 s) |
| `MaxAnfragen`, `MaxEingaben` | HeizungTab, GeraeteTab | two requests under way, so that each order of arrivals and answers happens; four inputs: open, change, save, and one that comes in between |
| `MaxZonen`, `MaxRaeume`, `MaxSchalter`, `Bearbeiter` | HeizungTab | two zones to move a room between, one switch for two browsers and MQTT; one browser edits, the other shows an old form, saves it and turns the switch |
| `MaxSender`, `MaxId`, `Kanaele`, `Eeps` | GeraeteTab | two senders of which one is active; two channels, an actuator and a meter; two EEPs to switch between |
| `MaxEingaben` | Rolladen | three commands, presses, losses or restarts: a run, one that disturbs it, one after it |
| `MaxNeustarts` | Rolladen | as many as inputs: restarts since an end stop after which nothing is claimed |
| `Voll`, `Laufzeit`, `Takt`, `MaxSeit` | Rolladen | travel times of 7.5 s and 6 s in tenths, steps of 3 s, positions fine enough that both divide; 15 s is past every run.  MCRolladen assumes `Massstab`, so the run is an instance of the theorems |
| `Dauern`, `Ziele`, `Staende`, `Kalibrierungen`, `Eigenzeit`, `Haltmeldungen` | Rolladen | no duration and a short one, an end and the middle, a careless calibration, an actuator that runs 9 s and reports a stopped run by its duration |

There are two TX callers and two gateways because the third would do only what the
second does; in Heizregler there is one zone, as a run's work on a zone touches
nothing of another one but the dirty flag and the time it takes.  Times in Heizregler
are ages that saturate, so that its clock never has to stop.  `heating_core` takes the
setpoints as interchangeable (the controller compares them for equality only) and looks at the
state without the actuators, which no step and neither invariant reads.  One shutter, because no command touches the
state of another.

## 5  Fairness

- *EnergyMeter*: the event loop goes on with a publish or a shutdown that has begun,
  the container is started again (`restart: unless-stopped`), and the meter reports a
  *higher* reading again and again.  The last one is an assumption about the meter:
  for a meter that stands still the code never heals, as equal readings start the
  series anew; `HaengtNichtFest` says nothing about it.
- *Heizregler*: every run goes on, also the scheduler and the clock (weak fairness).
  Strong fairness only for "a gateway sends the telegram": of telegrams repeated for
  ever not all are lost.  That no await hangs is part of this; the code has no timeout
  around `handle_command` (listed as a hazard).
- *LanGateway*: the task and the callers go on; a lost connection reaches `read`
  (the code has no keepalive, so a box that vanishes silently is noticed only by the
  operating system - an assumption, listed as a hazard), and `drain` ends.  Nothing is
  assumed of the gateway box but what the property itself supposes.
- *HeizungTab*: every request is handled and answered in the end (weak), and the interval
  timer of an open tab gets its turn again and again although others hold the bounded
  places of requests (strong; the bound on requests is the model's, not the browser's).
- *GeraeteTab*: requests arrive, answers and errors are handled, the timer fires (weak).
- *Rolladen*: time passes and a report that arrives is handled (weak).  Nothing makes a
  caller's send return; `FahrtEndet` excepts behaviours with a lost telegram.

RxPath has no liveness property: `KommtDurch` is an action property, of an emission whose
last copy leaves the queues.  It got through then, unless a full queue took a copy or the
same frame was sent around the same time.

`CHECK_DEADLOCK FALSE` stands where the bounds end all behaviours: EnergyMeter (the
counter is at its limit) and RxPath (emissions and time are used up).

## 6  Proofs

Eight modules prove theorems for every value of the constants that satisfies the named
assumption of the component; bounds on time, readings, requests and inputs are constants
too, so the theorems hold for every bound.

| Module | Theorem | Statement |
|---|---|---|
| EnergyGuardProofs | `TypKorrekt` | `Spec => []TypeOK` |
| | `CacheEinig` | `Spec => []CacheWieSpeicher` |
| | `SauberSicher` | `Spec => []SauberIstGesichert` |
| | `ReiheSicher` | `Spec => []ReiheBelegt` |
| | `KeinNullSicher` | with `Entsperren # 1`: `Spec => []KeinNullStand` |
| | `PubGedeckt` | `Spec => []PubNichtUeberReferenz` |
| | `PubFaelltNie` | `Spec => PubFaelltNurMitGrund`, an action property |
| | `DateiBehaelt` | `Spec => DateiVergisstNicht`, an action property |
| RxPathProofs | `TypKorrekt`, `ReihenfolgeSicher` | `Spec => []TypeOK`, `Spec => []ReihenfolgeGewahrt` |
| | `FensterSicher`, `KommtDurchSicher` | `Spec => VerworfenNurImFenster`, `Spec => KommtDurch`, action properties |
| | `EinmalSolangePufferReicht` | with `Laufzeit <= Window`: `Spec /\ []PufferReicht => []HoechstensEinmal` |
| | `EinmalSicher` | with `Laufzeit <= Window` and fewer emissions than the buffer has places: `Spec => []HoechstensEinmal` |
| DeviceRegistryProofs | `TypKorrekt`, `KeinTelegrammVerfehlt`, `KeinTelegrammFehlgeleitet` | `[]TypeOK`, `[]IndexVollstaendig`, `[]IndexGenau` |
| | `NichtsVerschwindet` | `Spec => []DateiWieRegister` |
| HeizreglerProofs | `TypKorrekt`, `PlanGemerkt`, `SauberSicher` | `[]TypeOK`, `[]NurPlanGemerkt`, `[]SauberIstGesichert` |
| LanGatewayProofs | `TypKorrekt`, `StatusStimmt`, `NurEinerSchreibt` | `[]TypeOK`, `[]StatusPasstZuWriter`, `[]EinerSchreibt` |
| HeizungTabProofs | `TypKorrekt`, `BasisPasst` | `[]TypeOK`, `[]BasisPasstZumAktor` |
| | `Umsetzung` | `Spec => SchalterNurPerAuftrag`: HeizungTab implements Schalterstand |
| | `EntwurfSicher` | `Spec => EntwurfBleibt`, an action property |
| GeraeteTabProofs | `TypSicher`, `EinAktiverSicher` | `Spec => []TypeOK`, `Spec => []EinAktiver` |
| | `WasManSiehtSicher`, `NurGewolltesSicher` | `Spec => WasManSieht`, `Spec => NurGewolltes`, action properties |
| RolladenProofs | `TypKorrekt`, `ZielImmerVoraus`, `AnzeigeStimmt` | `[]TypeOK`, `[]ZielVoraus`, `[]AnzeigeAktuell` |
| | `StandSicher`, `WunschSicher`, `LaufzeitSicher` | with `Massstab`: `[]StandStimmt`, `[]WunschErfuellt`, `[]LaufzeitBleibt` |
| | `DauerLesbar` | a reported duration is read as sent exactly if it is below 256 tenths |

The arguments:

*EnergyGuard.*  `TypeOK` is inductive.  `CacheWieSpeicher` and `SauberIstGesichert` are
proved together as `Einig`, which adds that every reading in the store or in the file has
its time (`ZeitZumWert`): a start takes reading and time from the file, and without that
the rebuilt reference could have no time to agree in.  `ReiheInv` is `Einig` and
`ReiheBelegt`; the step that needs the conjunction is a low reading judged against a
reference that still lies in the store only (`ReferenzBekannt`).  `NullInv` adds
`KeinNullStand`, which names all the places a zero could come back from - memory,
store, file, reading in flight, topic; it needs `ReiheInv`, because a reading
that heals ends an ascending series of at least two and so is above zero, and
`Entsperren # 1`, because with 1 the first low reading, a zero too, would heal at once.
`PubInv` adds to `TypeOK` and `PubNichtUeberReferenz` that the reading in flight is the
reference of its meter in a live process (`SendungIstReferenz`); the action property
follows from it, as only a publish changes a topic.  `DateiBehaelt` needs that the store
knows every meter the file knows but the unread ones (`SpeicherKennt`).

*RxPath.*  `Ordnung` says that telegrams in the gateway queues were received now, that
none waits longer than one delay after its emission, and that the manager's queue and what
came through are sorted by time, the one before the other.  `Gedaechtnis` is what a drop or
a pass can be judged by: stamps are the clock's, and the later a telegram was received, the
less its stamp is ahead (`Stempel`); a copy has the fingerprint of its emission (`Inhalt`);
the buffer holds the last telegrams that passed, and nothing else (`Spiegel`).  `Stempel` rests on
the order of fan-in tasks: that the clock is not set back between two that are already woken
(see `UhrZurueck`).  `HoechstensEinmal` needs `Abgelaufen`: what the buffer has
forgotten was received more than a window before all that still waits.  `PufferReicht`, that
the buffer is never at its maximum, is a hypothesis because eviction at `maxlen` is the
only way in which the code forgets an entry before its time; `EinmalSicher` has it from a
bound on the emissions, `EinmalSolangePufferReicht` needs no such bound.

*DeviceRegistry.*  `IndexVollstaendig` and `IndexGenau` are inductive together; lemmas say
what taking out the old object and entering the new one does to each entry.  `None` is no
object and no id (`RegistryAssumption`).  `DateiWieRegister` is inductive with the types: a
save that works writes the whole registry, as it is after the change.

*Heizregler.*  The properties are inductive together with the types: the plan a run
carries comes from its window, so what it remembers is a setpoint of the plan
(`NurPlanGemerkt`), and each save takes all that is remembered along (`SichernTreu`).

*LanGateway.*  Who drains is the head of the lock's queue (`Inhaber`), the queue holds each
waiting caller once (`Schlange`, with what leaving from the middle by a cancel does), each
place of the task has a writer or none (`WriterPasst`), and the task sends only while it
asks for the version (`NurInVersion`).

*HeizungTab.*  No form, request or answer anywhere holds a list of zones that disagrees
with the actuators (`Typ(ZonenOk)`), the switches of the server have different ids and the
outlets different places.  With that, each step maps to a step of Schalterstand or to a
stutter, handler by handler.  `EntwurfSicher` looks at the continuations in the
browser: only a first load and the answer to a save replace what is typed.  That the latter
brings what was sent needs `Sendung`: wherever a save is, it carries the zones that
`gesendet` notes, and a browser has one save under way.

*GeraeteTab.*  `IInv` types the registry, the list, the rows and what each request
carries; every sequence of senders in it that is not empty has one active sender, which is
what adding, removing, choosing, pairing and normalising preserve.  `WasManSieht` follows
from what rows and channels a request carries.  `NurGewolltes` needs
to know what nobody wrote in between: `Spur` says of the devices not in `gestoert` that one
request at a time writes such a device (`Einzeln`), that one which writes the device of a
fresh dialog came from it (`AusDialog`), that the rows of a fresh dialog show the device up
to what its one request has done already (`ImBild`), and so that a request which writes
the whole device keeps what it has (`Treu`).

*Rolladen.*  `IInv` is types and `ZielVoraus`: a target is computed from the position frozen
just before, clamped, and in the direction of the movement.  `AnzeigeAktuell` is then
inductive: what changes the state publishes, plans a publish, or is one of the paths that
`stumm` names.  For the position, `Fahrplan` says that while nothing disturbs it the
shutter stands where the state says (`Steht`), or a command is being sent (`Gesendet`), or
it runs, and start, time passed and real place add up (`Faehrt`), or the run has ended and
its report tells the difference (`Gemeldet`).  `AmAnschlag` is proved apart from that, for
behaviours disturbed in any way: with the motor at rest, a last report of an end stop is true,
so the position is exact again.  `Massstab` has the hypotheses, each of which the code makes
necessary: travel times below 25.6 s, because a longer reported duration is misread
(`DauerLesbar`); above 5 s, because 1 % of 5 s is sent as the duration 0; and at most nine
restarts between two end stops, because each rounds by half a per mille, and
`_adjust_travel_time` measures the next run from the rounded position: a run of a tenth of
the way may then be off by 22 tenths of a second, a fifth of which is just below the half
second from which it changes the travel time (`MessungBleibt`).

Only model-checked: liveness, that is `HaengtNichtFest`, `AktorFolgt`, `WiederVerbunden`,
`SendenKehrtZurueck`, `AnzeigeHoltAuf`, `FahrtEndet` and `ListeHoltAuf`.  Every invariant
and action property that a passing run checks is also proved, under the hypotheses above.  Liveness under fairness and
`ENABLED` are out of the prover's reach, likewise induction over data (what a recursive
definition computes for every input): where the order of channels would call for it, the
proofs count ranks and use that a set of numbers has a least element (`Kleinstes`).

## 7  Where the code does not do what it says

Two statements are refuted by a run; the findings in `PROJECT.json` quote them.

| Run | The text | The code |
|---|---|---|
| `energy_shutdown` | the reading survives the restart without a gap (`energy_state.py:12`) | the store is saved before the pipeline stops; readings accepted in between are published and not saved |
| `registry_setup` | the receive id is gone from the index (`server.py:1281`) | the id is erased from the registered object before the index is cleaned by that object |

More such places were met while modelling.  The models behave as the code does there,
and the properties are stated so that they claim no more than that.

Meter readings and receive path:

- *Consecutive* ascending readings heal (`config.py:102`); a jump rejected in between
  does not end the series (`pipeline.py:607`).  A meter that stands still repeats one
  reading, which starts the series anew each time (`pipeline.py:536`): it never heals.
- A duplicate is a telegram repeated within the window (`cascade.py:46`); after the
  clock was set back, dedup entries with stamps of the future stay, and all behind them,
  until the clock has caught up (`cascade.py:80`).  `VerworfenNurImFenster` therefore adds
  the setback to the window.

Registry and heating controller:

- `delete_channel` (`server.py:1750`) removes a channel from the object but not from the
  indices, which keep it until the process ends.  `IndexGenau` excepts devices
  changed in place.
- Observed and assigned ids never overlap (`observed_senders.py:210`); setting up
  an outlet assigns an id without forgetting it (`heizausgang.py:208`).
- A test must end by itself (`heizung.py:1732`); in a zone without any setpoint nothing is
  sent when it expires (2095), and the actuator stays on the full offset.
- No setpoint of a deleted zone stays (`server.py:1140`); a run under way while the
  zones are replaced writes it again (`heizung.py:2058`), and it stays, too, when the save
  of the zones raises in between (1139).
- The booking tells when something was really sent (`heizung.py:2064`); it is made
  although no gateway sent (`heizung.py:2218`).  `AktorFolgt` holds by the repetition alone.
- A successful connection resets the pause (`lan_tcp.py:51`); a lost connection leaves
  by an exception, past the reset.

Shutters (`tx_router.py`):

- A stop commits the distance by the clock; the actuator's report of the same run, which
  comes after it, is added again (650-672).  A report of an old run clears the movement
  that has just begun.
- A position command within 1 % of the estimate of a moving shutter commits the position,
  sends no stop and publishes nothing; the shutter moves on.
- The target that a position command sets never survives: after the sending the
  just-marked movement is frozen and its target computed anew, off by the send delay.
- The running time of a report is read as `10 * DB3 + DB2`, while `encoders.py:141-143`
  sends a 16-bit number in "the same format": runs above 25.5 s are misread
  (`DauerLesbar`).  `shutter` has shorter ones.
- A position command of a shutter that takes 5 s or less may be sent with the duration 0:
  1 % of the way (1243) is then at most half a tenth of a second, which `encoders.py:151`
  rounds to 0, for the actuator its own running time.  Found by the proof of
  `WunschErfuellt`, which supposes longer travel times; so does the run.
- A command without `duration_s` adds no distance.  Without a report `moving` stays for
  ever.  A restart during a run keeps the start position and a retained "moving".
  Setting the position does not publish.  Disturbed runs do change a calibrated travel
  time.

Heating tab (`app.js`):

- Edits made while a save is under way are overwritten by its answer; the answer of a
  turned switch replaces the whole list of switches.
- A form whose first load failed shows defaults, and saving it removes the server's zones.

Device tab (`app.js`):

- Removing the only sender of a channel has no effect: `learned_pair_id` stays and the
  server makes the sender anew (`devices.py:197-204`), although 1957 and 1982 call
  the senders the only source of truth.
- Adding a device sends no senders (1874-1887): those paired or entered in the dialog are
  lost, although 1410 says that switching should work after saving.
- Of two channel deletions under way the second answer removes a row by its old index;
  a late answer for the product's channels replaces the rows of a dialog opened meanwhile;
  the answer to a save closes whatever dialog is open.
- Inverting the direction writes the whole device from the client's copy, and a save from
  an old dialog undoes an EEP learned meanwhile; a dialog opened before the refresh brings
  back a channel just deleted.  There is no version check.
- The next free sender id (`server.py:971`) is not reserved, so two rows may get the same
  one.  A POST with an existing id overwrites that device.

## 8  What is abstracted and what is left out

- Readings are natural numbers, not floats; rounding plays no part in the comparisons
  of the guard.  Shutter positions are integers that both travel times divide.  Radio
  telegrams are fingerprints; names, texts and units are left out.
- Heizregler takes the choice of the window and the readiness of a room as input: they
  are pure functions of clock and sensor values.  Publishing of zone topics is an await
  of the run and nothing else there.
- DeviceRegistry leaves out fields of channels that no index depends on, and
  `remap_to_correct_gateway`.  LanGateway leaves out the bytes; radio packets are RxPath.
- GeraeteTab orders rows by channel, leaves out the GET of the gateways before that of
  the devices, the messages and early returns of a form that fails its validation, and
  that adding a row after a removal may repeat a channel id; answers with a sender beyond
  `MaxSender` are dropped at the bound.
- HeizungTab leaves out windows, names and contacts of zones, and a restart of the server,
  which matters to it only after a write that failed; Heizregler has it.
- Rolladen lets the actuator hear a command when the awaited send returns, and takes the
  publish and save after it in the same step.

Not modelled:

| Part | Why |
|---|---|
| Gateway selection (`cascade.py`) | means of RSSI and a choice among enabled gateways; it changes nothing the modelled parts read, only where a telegram goes |
| Switches, dimmers, valves (`tx_router.py`) | no computed state but the dim memory, one assignment per command |
| ReMan pairing (`tx_router.py`) | one handler with three waits; its hazard - any answer wakes any waiter - is listed without a property |
| MQTT (`mqtt_client.py`) | reconnect and reload around a library that owns the connection; what a lost publish does is in the component's module |
| Heating decisions (`heizung.py`) | pure functions with table-driven tests |
| Telegram routing (`pipeline.py`) | mappings per telegram; auto EEP is in GeraeteTab |
| ESP3 framing, sender blocks, EEP, encoders | data conversion without concurrency; the one place where encoder and decoder disagree is in Rolladen |
| Catalogue and scaffold | text matching and tables |
| Teach mode, live log, configuration (`webui/server.py`) | for display.  Met on the way: `loadRecent` runs only when the live log is opened, not after a reconnect as `app.js:2919-2921` has it, which brings the last 50 entries only |
| Audits, deployment | log files; build files |
| Other tabs, HTML templates (`app.js`) | they show what the server answers; more than half of every tab is its template |
| Vue (`vue.global.js`) | vendored library: 16669 lines, four fifths of all JavaScript |

The models follow about 1100 of the 4500 lines of `app.js`.  The larger part of the
modelled code is Python.

## 9  Plan

What a next step would take, in this order:

1. `Kopplung` (ReMan): queries, timeouts and late answers, two pairings at once.
2. `Sendeweg` (RSSI table, `GatewaySelector.choose`) composed with two instances of
   LanGateway: a telegram goes out if a gateway can send it.
3. `MqttPublisher` with the topics of the heating controller; abstract specification: a
   topic that in the end shows the last value.
4. `LiveLog`: snapshot, stream and reconnect between server and tab.
5. `Beurteilung`: windows over midnight, priorities, contacts and offsets as operators
   against a reference, refined into the inputs of Heizregler.
6. `HoechstensEinmal` from a bound on the rate of telegrams against the size of the buffer,
   in place of `PufferReicht`.
