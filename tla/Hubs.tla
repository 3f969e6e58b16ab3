--------------------------------- MODULE Hubs ---------------------------------
(***************************************************************************)
(* The hubs a user registers: models/hub.rb, the limit of models/user.rb   *)
(* and the create and destroy actions of hubs_controller.rb.               *)
(*                                                                         *)
(* current_user.save validates the new hub and the number of hubs with one *)
(* SELECT each, then inserts the row; no index or lock stands behind the   *)
(* validations, so threads may pass them together.                         *)
(***************************************************************************)
EXTENDS Integers, Sequences, FiniteSets

CONSTANTS
  Create,   \* submissions of the form, and the rows they make
  Form,     \* what each submits: [user, mac, nick]
  User,
  MaxHubs,  \* the maximum of user.rb:5, 5
  Blank,    \* a text that is not a MAC address, or no description
  Threads   \* Puma's threads

Octet == 0..255

\* A MAC address as typed: six octets, five separators, and whether its
\* letters are in lower case.
MacText == [octets : [1..6 -> Octet], seps : [1..5 -> {":", "-"}], lower : BOOLEAN]

ASSUME FormAssumption ==
  \A c \in Create : Form[c].user \in User /\ Form[c].mac \in MacText \cup {Blank}
ASSUME BlankAssumption == Blank \notin MacText
ASSUME LimitAssumption == MaxHubs \in Nat /\ Threads \in Nat \ {0}

VARIABLES
  hubs,  \* the table: [rows that exist -> [user, mac, adjusted]]
  pc     \* where each submission is

vars == <<hubs, pc>>

-----------------------------------------------------------------------------
(* before_save.                                                            *)

\* Mutant: mac.upcase, which returns a copy.
Upcase_Copy(m) == m

\* mac.upcase!
Upcase(m) == [m EXCEPT !.lower = FALSE]

\* n.to_s(16), for n up to 256.
Hex(n) ==
  IF n < 16 THEN <<n>> ELSE IF n < 256 THEN <<n \div 16, n % 16>> ELSE <<n \div 256, 0, 0>>

\* Mutant: mac.split('-').last
LastOctet_ByDash(m) ==
  LET starts == {1} \cup {i \in 2..6 : m.seps[i - 1] = "-"}
  IN  CHOOSE i \in starts : \A j \in starts : j <= i

\* The octet that mac.split(':').last.to_i(16) reads: the first one after the
\* last colon, if any.
LastOctet(m) ==
  LET starts == {1} \cup {i \in 2..6 : m.seps[i - 1] = ":"}
  IN  CHOOSE i \in starts : \A j \in starts : j <= i

\* Mutant: mac[0..11], one octet short.
Adjusted_FourOctets(m) ==
  [octets |-> [i \in 1..4 |-> m.octets[i]], seps |-> m.seps,
   digits |-> Hex(m.octets[LastOctet(m)] + 1)]

\* The first 15 characters, then the octet plus one in hexadecimal digits.
Adjusted(m) ==
  [octets |-> [i \in 1..5 |-> m.octets[i]], seps |-> m.seps,
   digits |-> Hex(m.octets[LastOctet(m)] + 1)]

Row(c) ==
  LET m == Upcase(Form[c].mac) IN [user |-> Form[c].user, mac |-> m, adjusted |-> Adjusted(m)]

HubsOf(u) == {c \in DOMAIN hubs : hubs[c].user = u}

-----------------------------------------------------------------------------
(* create.                                                                 *)

Init == hubs = <<>> /\ pc = [c \in Create |-> "new"]

Go(c, from, to) == pc[c] = from /\ pc' = [pc EXCEPT ![c] = to]

Busy == {c \in Create : pc[c] \notin {"new", "done"}}

Arrives(c) ==
  /\ Cardinality(Busy) < Threads
  /\ Go(c, "new", "mac")
  /\ UNCHANGED hubs

\* Mutant: the uniqueness of the MAC is not validated.
Taken_Never(m) == FALSE

\* SELECT ... WHERE mac = the text as typed.
Taken(m) == \E c \in DOMAIN hubs : hubs[c].mac = m

\* validates :mac (uniqueness and format) and :nick.
ValidateHub(c) ==
  LET valid == Form[c].mac # Blank /\ Form[c].nick # Blank /\ ~Taken(Form[c].mac)
  IN  Go(c, "mac", IF valid THEN "count" ELSE "done") /\ UNCHANGED hubs

\* Mutant: the new hub is not counted.
Full_OneLate(u) == Cardinality(HubsOf(u)) > MaxHubs

\* validates :hubs, length: those in the table and the new one.
Full(u) == Cardinality(HubsOf(u)) + 1 > MaxHubs

ValidateCount(c) ==
  Go(c, "count", IF Full(Form[c].user) THEN "done" ELSE "insert") /\ UNCHANGED hubs

Insert(c) ==
  /\ Go(c, "insert", "done")
  /\ hubs' = [d \in DOMAIN hubs \cup {c} |-> IF d = c THEN Row(c) ELSE hubs[d]]

\* destroy, by the owner.
Destroy(u) ==
  /\ \E c \in HubsOf(u) : hubs' = [d \in DOMAIN hubs \ {c} |-> hubs[d]]
  /\ UNCHANGED pc

Next ==
  \/ \E c \in Create : Arrives(c) \/ ValidateHub(c) \/ ValidateCount(c) \/ Insert(c)
  \/ \E u \in User : Destroy(u)

Spec == Init /\ [][Next]_vars

-----------------------------------------------------------------------------
(* Type invariant.                                                         *)

\* A row is made by one submission that reached its end; its MAC is a MAC, in
\* upper case as the API and the TCP server look it up.
TypeOK ==
  /\ DOMAIN hubs \subseteq {c \in Create : pc[c] = "done"}
  /\ \A c \in DOMAIN hubs :
       hubs[c].user = Form[c].user /\ hubs[c].mac \in MacText /\ ~hubs[c].mac.lower
  /\ pc \in [Create -> {"new", "mac", "count", "insert", "done"}]

-----------------------------------------------------------------------------
(* Safety.                                                                 *)

\* However many submissions pass the validation of user.rb:5 together, the
\* limit is exceeded by less than the number of threads; with one, it holds.
LimitExceededByRaceOnly == \A u \in User : Cardinality(HubsOf(u)) < MaxHubs + Threads

\* Rows with the same MAC, typed in upper case (hub.rb:3 compares the text as
\* typed), passed their validation together: there are at most Threads.
DuplicatesByRaceOnly ==
  \A c \in DOMAIN hubs :
    Cardinality({d \in DOMAIN hubs : hubs[d].mac = hubs[c].mac /\ ~Form[d].mac.lower}) <= Threads

Colons(m) == \A i \in 1..5 : m.seps[i] = ":"

\* Two hubs whose MACs are written with colons and differ have different
\* adjusted MACs: the TCP server never takes one for the other (hub.rb:15-18).
AdjustedDistinct ==
  \A c, d \in DOMAIN hubs :
    Colons(hubs[c].mac) /\ Colons(hubs[d].mac) /\ hubs[c].adjusted = hubs[d].adjusted =>
      hubs[c].mac.octets = hubs[d].mac.octets

\* The adjusted MAC is the one a bridge announces, the next MAC in two digits
\* per octet, for MACs with colons whose last octet is in 0F..FE: the others'
\* adjusted MAC has one digit or three at its end.
NextMac(m) ==
  LET n == m.octets[6] + 1
  IN  [octets |-> [i \in 1..5 |-> m.octets[i]], seps |-> m.seps, digits |-> <<n \div 16, n % 16>>]

AdjustedIsNextMac ==
  \A c \in DOMAIN hubs :
    Colons(hubs[c].mac) =>
      (hubs[c].adjusted = NextMac(hubs[c].mac) <=> hubs[c].mac.octets[6] \in 15..254)

=============================================================================
