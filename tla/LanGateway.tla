----------------------------- MODULE LanGateway -----------------------------
(***************************************************************************)
(* LANGateway: the task _run_loop connects, asks the modem for its chip    *)
(* id, reads until the connection ends and tries again after a growing     *)
(* pause; TX callers send on the same writer, one at a time by a lock.     *)
(***************************************************************************)
EXTENDS Naturals, Sequences, Functions

CONSTANTS
    Sender,        \* tasks that call send: commands, heating, pairing
    Schleife,      \* _run_loop, which sends the version request itself
    BackoffStart,  \* CONNECT_BACKOFF_INITIAL
    BackoffMax     \* CONNECT_BACKOFF_MAX

Rufer == Sender \cup {Schleife}

ASSUME GatewayAssumption ==
    /\ Schleife \notin Sender
    /\ BackoffStart \in Nat \ {0} /\ BackoffMax \in Nat /\ BackoffStart <= BackoffMax

VARIABLES
    lauf,          \* where _run_loop awaits
    backoff,       \* its local of this name
    status,        \* GatewayStatus
    writer,        \* _writer: "None", "offen", or "schliesst" while wait_closed
    stop,          \* _stop_event
    sperre,        \* _writer_lock: the holder first, then those waiting
    senden,        \* per caller of send: "ruht", "wartet" for the lock, "drain"
    erwartet,      \* _awaiting_version
    chip,          \* chip_id is known
    gegenstelle,   \* the gateway box accepts connections
    leitung        \* the TCP connection is alive

vars == <<lauf, backoff, status, writer, stop, sperre, senden, erwartet, chip,
          gegenstelle, leitung>>

Init ==
    /\ lauf = "start" /\ backoff = BackoffStart /\ status = "DISCONNECTED"
    /\ writer = "None" /\ stop = FALSE
    /\ sperre = <<>> /\ senden = [r \in Rufer |-> "ruht"]
    /\ erwartet = FALSE /\ chip = FALSE
    /\ gegenstelle \in BOOLEAN /\ leitung = FALSE

-----------------------------------------------------------------------------
(* send *)

\* Mutant: no lock around write and drain.
AnstellenOhneSperre(r) ==
    /\ sperre' = Append(sperre, r)
    /\ senden' = [senden EXCEPT ![r] = "drain"]

\* Past the check of _writer: take the lock and write, or queue for it.
Anstellen(r) ==
    /\ sperre' = Append(sperre, r)
    /\ senden' = [senden EXCEPT ![r] = IF sperre = <<>> THEN "drain" ELSE "wartet"]

\* A TX caller; without a writer send raises and leaves nothing behind.
SendeBeginn(s) ==
    /\ senden[s] = "ruht" /\ writer # "None"
    /\ Anstellen(s)
    /\ UNCHANGED <<lauf, backoff, status, writer, stop, erwartet, chip,
                   gegenstelle, leitung>>

\* The lock has come to r.  The writer it checked may be gone by now: None.write
\* raises, the lock is released.  Else r writes on the writer of now.
SperreErhalten(r) ==
    /\ senden[r] = "wartet" /\ sperre[1] = r
    /\ IF writer = "None"
       THEN sperre' = Tail(sperre) /\ senden' = [senden EXCEPT ![r] = "ruht"]
       ELSE senden' = [senden EXCEPT ![r] = "drain"] /\ UNCHANGED sperre
    /\ UNCHANGED <<lauf, backoff, status, writer, stop, erwartet, chip,
                   gegenstelle, leitung>>

\* Mutant: the lock is released after drain, but not if drain raises.
DrainEndetOhneFreigabe(r) ==
    /\ senden[r] = "drain"
    /\ senden' = [senden EXCEPT ![r] = "ruht"]
    /\ sperre' = IF leitung THEN Tail(sperre) ELSE sperre
    /\ UNCHANGED <<lauf, backoff, status, writer, stop, erwartet, chip,
                   gegenstelle, leitung>>

\* drain returns, or raises because the connection is lost; the lock is
\* released either way.
DrainEndet(r) ==
    /\ senden[r] = "drain"
    /\ senden' = [senden EXCEPT ![r] = "ruht"]
    /\ sperre' = Tail(sperre)
    /\ UNCHANGED <<lauf, backoff, status, writer, stop, erwartet, chip,
                   gegenstelle, leitung>>

-----------------------------------------------------------------------------
(* _run_loop and _connect_and_read *)

\* The next turn of the loop up to the await of open_connection.
Versuchen ==
    /\ lauf = "start"
    /\ IF stop THEN lauf' = "ende" /\ UNCHANGED status
               ELSE lauf' = "verbinden" /\ status' = "CONNECTING"
    /\ UNCHANGED <<backoff, writer, stop, sperre, senden, erwartet, chip,
                   gegenstelle, leitung>>

\* Connected: the version request is sent before anything is read.
Verbunden ==
    /\ lauf = "verbinden" /\ gegenstelle
    /\ lauf' = "version" /\ status' = "CONNECTED" /\ writer' = "offen"
    /\ leitung' = TRUE /\ erwartet' = TRUE
    /\ Anstellen(Schleife)
    /\ UNCHANGED <<backoff, stop, chip, gegenstelle>>

\* open_connection raises.
NichtVerbunden ==
    /\ lauf = "verbinden" /\ ~gegenstelle
    /\ lauf' = "warten" /\ status' = "ERROR"
    /\ UNCHANGED <<backoff, writer, stop, sperre, senden, erwartet, chip,
                   gegenstelle, leitung>>

\* send of the request has returned or raised; either way reading begins.
VersionGesendet ==
    /\ lauf = "version" /\ senden[Schleife] = "ruht"
    /\ lauf' = "lesen"
    /\ UNCHANGED <<backoff, status, writer, stop, sperre, senden, erwartet, chip,
                   gegenstelle, leitung>>

\* A chunk with the answer to the request: _dispatch_packet.
VersionAntwort ==
    /\ lauf = "lesen" /\ leitung /\ erwartet /\ ~stop
    /\ chip' = TRUE /\ erwartet' = FALSE
    /\ UNCHANGED <<lauf, backoff, status, writer, stop, sperre, senden,
                   gegenstelle, leitung>>

\* read returns nothing or raises: finally closes and awaits wait_closed.
Abriss ==
    /\ lauf = "lesen" /\ ~leitung
    /\ lauf' = "schliessen" /\ writer' = "schliesst"
    /\ UNCHANGED <<backoff, status, stop, sperre, senden, erwartet, chip,
                   gegenstelle, leitung>>

\* The stop event is found set after a chunk, or the cancel after 5 s hits read:
\* finally closes and awaits wait_closed here too.
LesenBeendet ==
    /\ stop /\ lauf = "lesen"
    /\ lauf' = "beenden" /\ writer' = "schliesst"
    /\ UNCHANGED <<backoff, status, stop, sperre, senden, erwartet, chip,
                   gegenstelle, leitung>>

\* Mutant: the writer of the lost connection is kept.
GeschlossenOhneReset ==
    /\ \/ lauf = "schliessen" /\ lauf' = "warten" /\ status' = "ERROR"
       \/ lauf = "beenden" /\ lauf' = "ende" /\ status' = "DISCONNECTED"
    /\ UNCHANGED <<backoff, writer, stop, sperre, senden, erwartet, chip,
                   gegenstelle, leitung>>

\* The rest of finally.  After a loss the handler of the exception in _run_loop
\* follows, after reading was ended the task ends.
Geschlossen ==
    /\ \/ lauf = "schliessen" /\ lauf' = "warten" /\ status' = "ERROR"
       \/ lauf = "beenden" /\ lauf' = "ende" /\ status' = "DISCONNECTED"
    /\ writer' = "None"
    /\ UNCHANGED <<backoff, stop, sperre, senden, erwartet, chip, gegenstelle, leitung>>

\* Mutant: the pause ends the task.
PauseEndetImmer ==
    /\ lauf = "warten"
    /\ lauf' = "ende" /\ UNCHANGED backoff
    /\ UNCHANGED <<status, writer, stop, sperre, senden, erwartet, chip,
                   gegenstelle, leitung>>

\* The pause is over, by the stop event or by its time.
PauseEndet ==
    /\ lauf = "warten"
    /\ IF stop THEN lauf' = "ende" /\ UNCHANGED backoff
       ELSE /\ lauf' = "start"
            /\ backoff' = IF backoff * 2 < BackoffMax THEN backoff * 2 ELSE BackoffMax
    /\ UNCHANGED <<status, writer, stop, sperre, senden, erwartet, chip,
                   gegenstelle, leitung>>

\* Gateway.stop sets the event; after 5 s it cancels the task, if need be.
Stoppen ==
    /\ ~stop /\ stop' = TRUE
    /\ UNCHANGED <<lauf, backoff, status, writer, sperre, senden, erwartet, chip,
                   gegenstelle, leitung>>

\* The queue for the lock without the caller at place i.
OhnePlatz(i) == [j \in 1..(Len(sperre) - 1) |-> IF j < i THEN sperre[j] ELSE sperre[j + 1]]

\* The cancel hits an await outside of try: open_connection, the request for the
\* version, or wait_closed; what stands after it is skipped.
Abgebrochen ==
    /\ stop /\ lauf \in {"verbinden", "version", "schliessen", "beenden"}
    /\ lauf' = "ende"
    /\ IF senden[Schleife] = "ruht" THEN UNCHANGED sperre
       ELSE \E i \in 1..Len(sperre) : sperre[i] = Schleife /\ sperre' = OhnePlatz(i)
    /\ senden' = [senden EXCEPT ![Schleife] = "ruht"]
    /\ UNCHANGED <<backoff, status, writer, stop, erwartet, chip, gegenstelle,
                   leitung>>

-----------------------------------------------------------------------------
(* The network *)

GegenstelleWechselt ==
    /\ gegenstelle' = ~gegenstelle
    /\ leitung' = (leitung /\ gegenstelle')
    /\ UNCHANGED <<lauf, backoff, status, writer, stop, sperre, senden, erwartet,
                   chip>>

Betrieb ==
    \/ Versuchen \/ Verbunden \/ NichtVerbunden \/ VersionGesendet
    \/ VersionAntwort \/ Abriss \/ Geschlossen \/ PauseEndet
    \/ LesenBeendet \/ Abgebrochen

Next ==
    \/ Betrieb \/ Stoppen \/ GegenstelleWechselt
    \/ \E s \in Sender : SendeBeginn(s)
    \/ \E r \in Rufer : SperreErhalten(r) \/ DrainEndet(r)

Spec == Init /\ [][Next]_vars

\* The task goes on, the loss of a connection reaches it, drain comes to an end
\* (the peer reads, or the connection is lost).
Fairness ==
    /\ WF_vars(Betrieb)
    /\ \A r \in Rufer : WF_vars(SperreErhalten(r)) /\ WF_vars(DrainEndet(r))

FairSpec == Spec /\ Fairness

-----------------------------------------------------------------------------
(* Properties *)

\* The types, and the lock: nobody queues for it twice, and whoever has called
\* send and not returned is in the queue.
TypeOK ==
    /\ lauf \in {"start", "verbinden", "version", "lesen", "schliessen", "beenden",
                "warten", "ende"}
    /\ backoff \in BackoffStart..BackoffMax
    /\ status \in {"DISCONNECTED", "CONNECTING", "CONNECTED", "ERROR"}
    /\ writer \in {"None", "offen", "schliesst"}
    /\ senden \in [Rufer -> {"ruht", "wartet", "drain"}]
    /\ {stop, erwartet, chip, gegenstelle, leitung} \subseteq BOOLEAN
    /\ sperre \in Seq(Rufer) /\ IsInjective(sperre)
    /\ Range(sperre) = {r \in Rufer : senden[r] # "ruht"}

\* status is what the UI shows and send goes by the writer: outside of the
\* closing of a lost connection they never contradict each other, although the
\* task may be cancelled anywhere.
StatusPasstZuWriter == status = "CONNECTED" <=> writer # "None"

\* _writer_lock: one caller at a time is between write and the end of drain.
EinerSchreibt ==
    \A r, q \in Rufer : senden[r] = "drain" /\ senden[q] = "drain" => r = q

\* CONNECT_BACKOFF: as long as nobody stops the gateway, a box that stays
\* reachable is connected in the end and stays so, whatever was lost before.
WiederVerbunden == <>[](gegenstelle /\ ~stop) => <>[](status = "CONNECTED")

\* Every call of send comes back, also those that wait for the lock while the
\* connection is lost and another one made.
SendenKehrtZurueck == \A r \in Rufer : senden[r] # "ruht" ~> senden[r] = "ruht"

=============================================================================
