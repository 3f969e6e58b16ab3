-------------------------------- MODULE MCHubs --------------------------------
(* Instances of Hubs for TLC. *)
EXTENDS Hubs

CONSTANTS u1, u2

\* MACs that differ in two octets at most.
Text(fifth, last, sep, lower) ==
  [octets |-> [i \in 1..6 |-> IF i = 6 THEN last ELSE IF i = 5 THEN fifth ELSE 171],
   seps |-> [i \in 1..5 |-> IF i = 5 THEN sep ELSE ":"], lower |-> lower]

F(user, mac) == [user |-> user, mac |-> mac, nick |-> "lamp"]

\* Two users; the same MAC in both spellings; last octets at the boundaries of
\* one, two and three digits; a dash; a text that is no MAC.
Submitted == <<
  F(u1, Text(16, 14, ":", FALSE)), F(u1, Text(16, 15, ":", FALSE)),
  F(u2, Text(16, 15, ":", FALSE)), F(u2, Text(16, 15, ":", TRUE)),
  F(u1, Text(17, 15, ":", FALSE)), F(u2, Text(16, 255, ":", FALSE)),
  F(u1, Text(16, 254, "-", FALSE)), F(u2, Blank),
  F(u2, Text(16, 15, ":", FALSE))>>

=============================================================================
