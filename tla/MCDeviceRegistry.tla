-------------------------- MODULE MCDeviceRegistry --------------------------
(* Small instances of DeviceRegistry for TLC. *)
EXTENDS DeviceRegistry, TLC

CONSTANTS c1, c2, i1, i2

Nur(rx, tx, inaktiv, beob) ==
    [rx |-> rx, tx |-> tx, inaktiv |-> inaktiv, beob |-> beob]

\* Two channels under the same id, and an actor with two senders, a receive id
\* of its own and an observer.
MCNutzlasten ==
    { [c \in {c1, c2} |-> Nur(i1, None, {}, {})],
      [c \in {c1} |-> Nur(i1, i2, {i1}, {i2})] }

Symmetrie == Permutations(GeraeteIds)
=============================================================================
