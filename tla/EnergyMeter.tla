---------------------------- MODULE EnergyMeter ----------------------------
(***************************************************************************)
(* EnergyGuard with the meter that feeds it: a counter that only counts    *)
(* up and reports its true reading, and a bounded number of disturbances - *)
(* corrupted telegrams, crashes and orderly restarts.                      *)
(***************************************************************************)
EXTENDS EnergyGuard

CONSTANTS
    MaxZaehler,     \* bounds on the true counters, below the outliers
    Ausreisser,     \* the readings of corrupted telegrams, per meter
    MaxStoerungen   \* bound on the disturbances

ASSUME MeterAssumption ==
    /\ MaxZaehler \in [Keys -> 0..MaxWert] /\ Ausreisser \in [Keys -> SUBSET Wert]
    /\ MaxStoerungen \in Nat

VARIABLES
    zaehler,      \* true counter of every meter
    stoerungen    \* disturbances still to come

meterVars == <<vars, zaehler, stoerungen>>

MeterInit ==
    /\ Init
    /\ zaehler = [k \in Keys |-> 0]
    /\ stoerungen = MaxStoerungen

\* The meter has counted on and reports its reading.
MeterSendet(k) ==
    /\ zaehler[k] < MaxZaehler[k]
    /\ zaehler' = [zaehler EXCEPT ![k] = @ + 1]
    /\ Empfangen(k, zaehler'[k], now)
    /\ UNCHANGED stoerungen

\* A bus artefact or a bit error: another reading, under the meter's id.
Stoertelegramm(k) ==
    /\ stoerungen > 0
    /\ stoerungen' = stoerungen - 1
    /\ \E v \in Ausreisser[k] : Empfangen(k, v, now)
    /\ UNCHANGED zaehler

Unterbrechung ==
    /\ stoerungen > 0
    /\ stoerungen' = stoerungen - 1
    /\ Herunterfahren \/ Absturz
    /\ UNCHANGED zaehler

Neustart ==
    /\ Start
    /\ UNCHANGED <<zaehler, stoerungen>>

Intern ==
    /\ \/ RawPublizieren \/ StatePublizieren \/ PublizierenScheitert
       \/ PipelineStop \/ Tick
    /\ UNCHANGED <<zaehler, stoerungen>>

MeterNext ==
    \/ \E k \in Keys : MeterSendet(k) \/ Stoertelegramm(k)
    \/ Unterbrechung \/ Neustart \/ Intern

Publiziert ==
    /\ RawPublizieren \/ StatePublizieren \/ PublizierenScheitert
    /\ UNCHANGED <<zaehler, stoerungen>>

Beendet == PipelineStop /\ UNCHANGED <<zaehler, stoerungen>>

MeterSpec == MeterInit /\ [][MeterNext]_meterVars

\* The event loop goes on with a publish it has begun and a shutdown it has
\* begun, the container is restarted, and the meter keeps counting.
FairMeterSpec ==
    /\ MeterSpec
    /\ WF_meterVars(Publiziert) /\ WF_meterVars(Beendet)
    /\ WF_meterVars(Neustart)
    /\ \A k \in Keys : WF_meterVars(MeterSendet(k))

-----------------------------------------------------------------------------
(* Properties *)

ReferenzZuHoch(k) == Referenz(k) # None /\ Referenz(k) > zaehler[k]

\* An orderly restart costs two series: one that ends with the process while
\* it is shutting down, and the one after the start.
Haengt(k) ==
    /\ ReferenzZuHoch(k)
    /\ MaxZaehler[k] - zaehler[k] >= 2 * (stoerungen + 1) * Entsperren

\* A reference poisoned by outliers does not block its meter for ever: as
\* long as the counter has enough distinct readings left for the series that the
\* disturbances still to come may cut off, the reference returns to a true
\* reading.  The fairness is the strong part: the meter must report a HIGHER
\* reading each time (see the README on idle meters).
HaengtNichtFest ==
    \A k \in Keys : Haengt(k) ~> ~ReferenzZuHoch(k)

=============================================================================
