------------------------------- MODULE RxPath -------------------------------
(***************************************************************************)
(* The receive path: one radio emission is heard by several gateways, each *)
(* copy is stamped with the wall clock (ReceivedTelegram.received_at) and  *)
(* queued per gateway, pumped into the manager's queue, and handled by the *)
(* pipeline, where the cascade lets the first copy pass and drops the      *)
(* others.                                                                 *)
(***************************************************************************)
EXTENDS DedupBuffer, Integers

CONSTANTS
    Gateways,
    Frames,        \* fingerprints: sender, RORG, status, payload
    GwQueueMax,    \* Gateway._rx_queue maxsize
    MgrQueueMax,   \* GatewayManager._rx_queue maxsize
    Laufzeit,      \* bound on the delay from the air to received_at
    MaxRueck,      \* how far the wall clock may be set back, once
    MaxSendungen,  \* bound on the emissions of a behaviour
    MaxZeit        \* bound on the time of a behaviour

ASSUME RxAssumption ==
    /\ GwQueueMax \in Nat \ {0} /\ MgrQueueMax \in Nat \ {0}
    /\ Laufzeit \in Nat /\ MaxRueck \in Nat
    /\ MaxSendungen \in Nat /\ MaxZeit \in Nat

VARIABLES
    zeit,      \* true time
    rueck,     \* how far the wall clock has been set back
    luft,      \* the emissions so far: fingerprint and time
    offen,     \* <<emission, gateway>> pairs that may still be heard
    gwQueue,   \* per gateway
    mgrQueue,  \* GatewayManager._rx_queue
    entries,   \* DedupBuffer._entries
    durch,     \* history: the telegrams that passed the cascade
    verloren   \* history: emissions of which a full queue dropped a copy

vars == <<zeit, rueck, luft, offen, gwQueue, mgrQueue, entries, durch, verloren>>

\* time.time(), shifted so that a set-back clock stays a natural number.
Uhr == zeit + MaxRueck - rueck

Init ==
    /\ zeit = 0 /\ rueck = 0
    /\ luft = <<>> /\ offen = {}
    /\ gwQueue = [g \in Gateways |-> <<>>] /\ mgrQueue = <<>>
    /\ entries = <<>> /\ durch = <<>> /\ verloren = {}

\* A device transmits; every gateway may hear it.
Senden(fp) ==
    /\ Len(luft) < MaxSendungen
    /\ luft' = Append(luft, [fp |-> fp, ab |-> zeit])
    /\ offen' = offen \cup {<<Len(luft) + 1, g>> : g \in Gateways}
    /\ UNCHANGED <<zeit, rueck, gwQueue, mgrQueue, entries, durch, verloren>>

\* Mutant: the queue is not bounded.
HoerenOhneGrenze(g, e) ==
    /\ <<e, g>> \in offen /\ zeit - luft[e].ab <= Laufzeit
    /\ offen' = {o \in offen : o[2] # g \/ o[1] > e}
    /\ gwQueue' = [gwQueue EXCEPT ![g] =
           Append(@, [e |-> e, fp |-> luft[e].fp, ts |-> Uhr, zeit |-> zeit])]
    /\ UNCHANGED <<zeit, rueck, luft, mgrQueue, entries, durch, verloren>>

\* LANGateway._dispatch_packet: one TCP stream per gateway keeps the order of
\* emissions; what the gateway missed in between is gone.
Hoeren(g, e) ==
    /\ <<e, g>> \in offen /\ zeit - luft[e].ab <= Laufzeit
    /\ offen' = {o \in offen : o[2] # g \/ o[1] > e}
    /\ LET rx == [e |-> e, fp |-> luft[e].fp, ts |-> Uhr, zeit |-> zeit]
       IN  IF Len(gwQueue[g]) < GwQueueMax
           THEN /\ gwQueue' = [gwQueue EXCEPT ![g] = Append(@, rx)]
                /\ UNCHANGED verloren
           ELSE verloren' = verloren \cup {e} /\ UNCHANGED gwQueue
    /\ UNCHANGED <<zeit, rueck, luft, mgrQueue, entries, durch>>

\* GatewayManager._fan_in, one task per gateway.
FanIn(g) ==
    /\ gwQueue[g] # <<>>
    /\ LET rx == Head(gwQueue[g])
       IN  IF Len(mgrQueue) < MgrQueueMax
           THEN mgrQueue' = Append(mgrQueue, rx) /\ UNCHANGED verloren
           ELSE verloren' = verloren \cup {rx.e} /\ UNCHANGED mgrQueue
    /\ gwQueue' = [gwQueue EXCEPT ![g] = Tail(@)]
    /\ UNCHANGED <<zeit, rueck, luft, offen, entries, durch>>

\* Mutant: the queue is worked off from its end.
VerarbeitenNeuestesZuerst ==
    /\ mgrQueue # <<>>
    /\ mgrQueue' = SubSeq(mgrQueue, 1, Len(mgrQueue) - 1)
    /\ LET rx == mgrQueue[Len(mgrQueue)]
       IN  /\ durch' = IF IstDuplikat(entries, rx.fp, rx.ts)
                       THEN durch ELSE Append(durch, rx)
           /\ entries' = NachPruefung(entries, rx.fp, rx.ts)
    /\ UNCHANGED <<zeit, rueck, luft, offen, gwQueue, verloren>>

\* TelegramPipeline._run and Cascade.handle at the head of _process.
Verarbeiten ==
    /\ mgrQueue # <<>>
    /\ mgrQueue' = Tail(mgrQueue)
    /\ LET rx == Head(mgrQueue)
       IN  /\ durch' = IF IstDuplikat(entries, rx.fp, rx.ts)
                       THEN durch ELSE Append(durch, rx)
           /\ entries' = NachPruefung(entries, rx.fp, rx.ts)
    /\ UNCHANGED <<zeit, rueck, luft, offen, gwQueue, verloren>>

\* Time passes only when the event loop polls the sockets again, and by then
\* every woken fan-in task has drained its queue: Queue.get does not suspend
\* while there is an item, and put_nowait never does.
Tick ==
    /\ zeit < MaxZeit /\ \A g \in Gateways : gwQueue[g] = <<>>
    /\ zeit' = zeit + 1
    /\ UNCHANGED <<rueck, luft, offen, gwQueue, mgrQueue, entries, durch, verloren>>

\* Fan-in tasks run in the order in which they were woken, so what was stamped
\* before the clock is set back stays ahead of what is stamped after: as if it
\* had left its gateway's queue by then.
UhrZurueck ==
    /\ rueck = 0 /\ rueck' \in 1..MaxRueck
    /\ \A g \in Gateways : gwQueue[g] = <<>>
    /\ UNCHANGED <<zeit, luft, offen, gwQueue, mgrQueue, entries, durch, verloren>>

Next ==
    \/ \E fp \in Frames : Senden(fp)
    \/ \E g \in Gateways, e \in 1..Len(luft) : Hoeren(g, e)
    \/ \E g \in Gateways : FanIn(g)
    \/ Verarbeiten \/ Tick \/ UhrZurueck

Spec == Init /\ [][Next]_vars

-----------------------------------------------------------------------------
(* Properties *)

Sendungen == 1..Len(luft)

Telegramm ==
    [e : Sendungen, fp : Frames, ts : 0..(MaxZeit + MaxRueck), zeit : 0..MaxZeit]

\* Type invariant: queues and buffer stay within their limits.
TypeOK ==
    /\ zeit \in 0..MaxZeit /\ rueck \in 0..MaxRueck
    /\ luft \in Seq([fp : Frames, ab : 0..MaxZeit])
    /\ offen \subseteq Sendungen \X Gateways
    /\ gwQueue \in [Gateways -> Seq(Telegramm)]
    /\ \A g \in Gateways : Len(gwQueue[g]) <= GwQueueMax
    /\ mgrQueue \in Seq(Telegramm) /\ Len(mgrQueue) <= MgrQueueMax
    /\ entries \in Seq([fp : Frames, ts : 0..(MaxZeit + MaxRueck)])
    /\ Len(entries) <= DedupMax
    /\ durch \in Seq(Telegramm) /\ verloren \subseteq Sendungen

\* cascade.py:5-6: the buffer lets only the first copy of an emission pass,
\* whatever the interleaving of gateways, fan-in tasks and pipeline, and even
\* if the clock is set back in between.  (While the copies are no more than a
\* window apart: Laufzeit <= Window.)
HoechstensEinmal ==
    \A i, j \in 1..Len(durch) : durch[i].e = durch[j].e => i = j

\* A telegram is sacrificed only to one that really was received within the
\* window before it, or within the window and what the clock was set back:
\* a press repeated after that is never swallowed.
\* cascade.py:47-48: "Wird das gleiche Telegramm innerhalb des window_ms
\* empfangen, gilt es als Duplikat".
VerworfenNurImFenster ==
    [][mgrQueue # <<>> /\ mgrQueue' = Tail(mgrQueue) /\ durch' = durch
          => \E i \in 1..Len(durch) :
                /\ durch[i].fp = Head(mgrQueue).fp
                /\ Head(mgrQueue).zeit - durch[i].zeit <= Window + rueck]_vars

\* Press and release, or two meter readings, reach the pipeline in the order
\* in which they were sent, if they were sent further apart than one delay.
ReihenfolgeGewahrt ==
    \A i, j \in 1..Len(durch) :
        i < j => luft[durch[i].e].ab <= luft[durch[j].e].ab + Laufzeit

Allein(e) ==
    \A f \in Sendungen \ {e} :
        luft[f].fp = luft[e].fp =>
            \/ luft[e].ab - luft[f].ab > Window + Laufzeit + rueck
            \/ luft[f].ab - luft[e].ab > Window + Laufzeit + rueck

Wartet(e) ==
    \/ \E g \in Gateways : \E i \in 1..Len(gwQueue[g]) : gwQueue[g][i].e = e
    \/ \E i \in 1..Len(mgrQueue) : mgrQueue[i].e = e

Durchgelassen(e) == \E i \in 1..Len(durch) : durch[i].e = e

\* Every emission that a gateway has heard gets through the cascade, unless
\* the same frame was sent around the same time or a full queue took it.
KommtDurch ==
    [][\A e \in Sendungen :
          Wartet(e) /\ ~Wartet(e)'
              => \/ Durchgelassen(e)' \/ e \in verloren' \/ ~Allein(e)]_vars
=============================================================================
