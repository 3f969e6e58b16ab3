------------------------------ MODULE HubsProofs ------------------------------
(***************************************************************************)
(* Theorems on Hubs, for any users, submissions, threads and limit.        *)
(***************************************************************************)
EXTENDS Hubs, FiniteSetTheorems, TLAPS

\* Upper case leaves a MAC address one, and an upper-case one as it is.
LEMMA UpcaseMac ==
  ASSUME NEW m \in MacText
  PROVE  /\ Upcase(m) \in MacText /\ ~Upcase(m).lower
         /\ Upcase(m).octets = m.octets /\ Upcase(m).seps = m.seps
         /\ ~m.lower => Upcase(m) = m
BY DEF MacText, Upcase

-----------------------------------------------------------------------------
(* The rows.                                                               *)

\* A row is what its submission made of the form; a submission past its
\* validation has a MAC address.
RowsInv ==
  /\ TypeOK
  /\ \A c \in DOMAIN hubs : hubs[c] = Row(c)
  /\ \A c \in Create : pc[c] \in {"count", "insert"} \/ c \in DOMAIN hubs => Form[c].mac \in MacText

LEMMA RowsStep ==
  ASSUME RowsInv, [Next]_vars
  PROVE  RowsInv'
<1> USE FormAssumption, BlankAssumption DEF RowsInv, TypeOK
<1>1. ASSUME NEW c \in Create, Arrives(c) PROVE RowsInv'
  BY <1>1 DEF Arrives, Go
<1>2. ASSUME NEW c \in Create, ValidateHub(c) PROVE RowsInv'
  BY <1>2 DEF ValidateHub, Go
<1>3. ASSUME NEW c \in Create, ValidateCount(c) PROVE RowsInv'
  BY <1>3 DEF ValidateCount, Go
<1>4. ASSUME NEW c \in Create, Insert(c) PROVE RowsInv'
  <2>1. /\ pc[c] = "insert" /\ pc' = [pc EXCEPT ![c] = "done"]
        /\ hubs' = [d \in DOMAIN hubs \cup {c} |-> IF d = c THEN Row(c) ELSE hubs[d]]
    BY <1>4 DEF Insert, Go
  <2>2. Form[c].mac \in MacText
    BY <2>1
  <2>3. Row(c).user = Form[c].user /\ Row(c).mac \in MacText /\ ~Row(c).mac.lower
    BY <2>2, UpcaseMac DEF Row
  <2>4. /\ DOMAIN hubs' = DOMAIN hubs \cup {c}
        /\ \A d \in DOMAIN hubs : hubs'[d] = IF d = c THEN Row(c) ELSE hubs[d]
        /\ hubs'[c] = Row(c)
    BY <2>1
  <2> QED BY <2>1, <2>2, <2>3, <2>4 DEF Row
<1>5. ASSUME NEW u \in User, Destroy(u) PROVE RowsInv'
  <2>1. PICK c \in HubsOf(u) : hubs' = [d \in DOMAIN hubs \ {c} |-> hubs[d]]
    BY <1>5 DEF Destroy
  <2>2. pc' = pc
    BY <1>5 DEF Destroy
  <2> QED BY <2>1, <2>2 DEF Row
<1>6. CASE UNCHANGED vars
  BY <1>6 DEF vars, Row
<1> QED BY <1>1, <1>2, <1>3, <1>4, <1>5, <1>6 DEF Next

\* Every variable keeps its type, and a row is what its form was made into.
THEOREM SpecRowsInv == Spec => []RowsInv
<1>1. Init => RowsInv
  BY DEF Init, RowsInv, TypeOK
<1> QED BY <1>1, RowsStep, PTL DEF Spec

\* Every variable keeps its type; a row's MAC is one, in upper case.
THEOREM SpecTypeOK == Spec => []TypeOK
<1>1. RowsInv => TypeOK
  BY DEF RowsInv
<1> QED BY <1>1, SpecRowsInv, PTL

-----------------------------------------------------------------------------
(* Races between validations.                                              *)

\* No more submissions run than there are threads.
BusyInv == IsFiniteSet(Busy) /\ Cardinality(Busy) <= Threads

\* Rows of a user, and submissions that will insert one.
Claims(u) == HubsOf(u) \cup {c \in Create : pc[c] = "insert" /\ Form[c].user = u}

\* Rows made of an upper-case text, and submissions that found no such row.
Spelled(m) ==
  {c \in DOMAIN hubs : Form[c].mac = m} \cup
  {c \in Create : pc[c] \in {"count", "insert"} /\ Form[c].mac = m}

Upper == {m \in MacText : ~m.lower}

\* A validation counts rows only, so what it lets pass is the rows it saw and
\* as many submissions as run beside it.
RaceInv ==
  /\ BusyInv
  /\ \A u \in User : IsFiniteSet(Claims(u)) /\ Cardinality(Claims(u)) < MaxHubs + Threads
  /\ \A m \in Upper : IsFiniteSet(Spelled(m)) /\ Cardinality(Spelled(m)) <= Threads

\* A smaller set is as finite, and no larger.
LEMMA Fewer ==
  ASSUME NEW S, NEW T, IsFiniteSet(S), T \subseteq S
  PROVE  IsFiniteSet(T) /\ Cardinality(T) \in Nat /\ Cardinality(S) \in Nat
         /\ Cardinality(T) <= Cardinality(S)
BY FS_Subset, FS_CardinalityType

\* Steps that make nothing busy, and add no claim and no spelling.
LEMMA RaceShrinks ==
  ASSUME RaceInv, Busy' \subseteq Busy,
         \A u \in User : Claims(u)' \subseteq Claims(u),
         \A m \in Upper : Spelled(m)' \subseteq Spelled(m)
  PROVE  RaceInv'
<1> USE LimitAssumption DEF RaceInv
<1>1. BusyInv'
  BY Fewer DEF BusyInv
<1>2. ASSUME NEW u \in User
      PROVE  IsFiniteSet(Claims(u)') /\ Cardinality(Claims(u)') < MaxHubs + Threads
  BY Fewer
<1>3. ASSUME NEW m \in Upper
      PROVE  IsFiniteSet(Spelled(m)') /\ Cardinality(Spelled(m)') <= Threads
  BY Fewer
<1>4. Upper' = Upper
  BY DEF Upper, MacText
<1> QED BY <1>1, <1>2, <1>3, <1>4

LEMMA RaceStep ==
  ASSUME RowsInv, RaceInv, [Next]_vars
  PROVE  RaceInv'
<1> USE DEF RowsInv, TypeOK
<1>1. ASSUME NEW c \in Create, Arrives(c) PROVE RaceInv'
  <2>1. /\ Cardinality(Busy) < Threads /\ pc[c] = "new" /\ pc' = [pc EXCEPT ![c] = "mac"] /\ hubs' = hubs
    BY <1>1 DEF Arrives, Go
  <2>2. Busy' = Busy \cup {c} /\ c \notin Busy
    BY <2>1 DEF Busy
  <2>3. BusyInv'
    <3>1. IsFiniteSet(Busy) /\ Cardinality(Busy) \in Nat
      BY FS_CardinalityType DEF RaceInv, BusyInv
    <3>2. IsFiniteSet(Busy \cup {c}) /\ Cardinality(Busy \cup {c}) = Cardinality(Busy) + 1
      BY <2>2, <3>1, FS_AddElement
    <3> QED BY <2>1, <2>2, <3>1, <3>2, LimitAssumption DEF BusyInv
  <2>4. \A u \in User : Claims(u)' = Claims(u)
    BY <2>1 DEF Claims, HubsOf
  <2>5. \A m \in Upper : Spelled(m)' = Spelled(m)
    BY <2>1 DEF Spelled
  <2>6. Upper' = Upper
    BY DEF Upper, MacText
  <2> QED BY <2>3, <2>4, <2>5, <2>6 DEF RaceInv
<1>2. ASSUME NEW c \in Create, ValidateHub(c) PROVE RaceInv'
  <2> DEFINE m == Form[c].mac
  <2>1. pc[c] = "mac" /\ hubs' = hubs /\ Busy' \subseteq Busy
    BY <1>2 DEF ValidateHub, Go, Busy
  <2>2. \A u \in User : Claims(u)' \subseteq Claims(u)
    BY <1>2 DEF ValidateHub, Go, Claims, HubsOf
  <2>3. CASE pc' = [pc EXCEPT ![c] = "done"]
    <3>1. \A n \in Upper : Spelled(n)' \subseteq Spelled(n)
      BY <2>1, <2>3 DEF Spelled
    <3> QED BY <2>1, <2>2, <3>1, RaceShrinks
  <2>4. CASE pc' = [pc EXCEPT ![c] = "count"] /\ ~Taken(m)
    <3>1. BusyInv'
      BY <2>1, Fewer, LimitAssumption DEF RaceInv, BusyInv
    <3>2. ASSUME NEW n \in Upper
          PROVE  IsFiniteSet(Spelled(n)') /\ Cardinality(Spelled(n)') <= Threads
      <4>1. CASE n = m
        <5>1. ASSUME NEW d \in DOMAIN hubs, Form[d].mac = n PROVE FALSE
          <6>1. hubs[d].mac = n
            BY <5>1, UpcaseMac DEF Row, Upper
          <6> QED BY <5>1, <6>1, <2>4, <4>1 DEF Taken
        <5>2. Spelled(n)' \subseteq Busy'
          BY <2>1, <5>1 DEF Spelled, Busy
        <5> QED BY <3>1, <5>2, Fewer, LimitAssumption DEF BusyInv
      <4>2. CASE n # m
        <5>1. Spelled(n)' \subseteq Spelled(n)
          BY <2>1, <2>4, <4>2 DEF Spelled
        <5> QED BY <5>1, Fewer, LimitAssumption DEF RaceInv
      <4> QED BY <4>1, <4>2
    <3>3. ASSUME NEW u \in User
          PROVE  IsFiniteSet(Claims(u)') /\ Cardinality(Claims(u)') < MaxHubs + Threads
      BY <2>2, Fewer, LimitAssumption DEF RaceInv
    <3>4. Upper' = Upper
      BY DEF Upper, MacText
    <3> QED BY <3>1, <3>2, <3>3, <3>4 DEF RaceInv
  <2> QED BY <1>2, <2>3, <2>4 DEF ValidateHub, Go
<1>3. ASSUME NEW c \in Create, ValidateCount(c) PROVE RaceInv'
  <2> DEFINE u == Form[c].user
  <2>1. pc[c] = "count" /\ hubs' = hubs /\ Busy' \subseteq Busy
    BY <1>3 DEF ValidateCount, Go, Busy
  <2>2. \A m \in Upper : Spelled(m)' \subseteq Spelled(m)
    BY <1>3 DEF ValidateCount, Go, Spelled
  <2>3. CASE pc' = [pc EXCEPT ![c] = "done"]
    <3>1. \A v \in User : Claims(v)' \subseteq Claims(v)
      BY <2>1, <2>3 DEF Claims, HubsOf
    <3> QED BY <2>1, <2>2, <3>1, RaceShrinks
  <2>4. CASE pc' = [pc EXCEPT ![c] = "insert"] /\ ~Full(u)
    <3>1. BusyInv'
      BY <2>1, Fewer, LimitAssumption DEF RaceInv, BusyInv
    <3>2. ASSUME NEW v \in User
          PROVE  IsFiniteSet(Claims(v)') /\ Cardinality(Claims(v)') < MaxHubs + Threads
      <4>1. CASE v = u
        <5>1. IsFiniteSet(HubsOf(v)) /\ Cardinality(HubsOf(v)) \in Nat
          BY Fewer DEF RaceInv, Claims
        <5>2. Cardinality(HubsOf(v)) < MaxHubs
          BY <5>1, <2>4, <4>1, LimitAssumption DEF Full
        <5>3. Claims(v)' \subseteq HubsOf(v) \cup Busy'
          BY <2>1 DEF Claims, HubsOf, Busy
        <5>4. IsFiniteSet(HubsOf(v) \cup Busy') /\ Cardinality(HubsOf(v) \cup Busy') < MaxHubs + Threads
          <6>1. /\ IsFiniteSet(HubsOf(v) \cup Busy')
                /\ Cardinality(HubsOf(v) \cup Busy')
                     = Cardinality(HubsOf(v)) + Cardinality(Busy') - Cardinality(HubsOf(v) \cap Busy')
            BY <3>1, <5>1, FS_Union DEF BusyInv
          <6>2. Cardinality(HubsOf(v) \cap Busy') \in Nat /\ Cardinality(Busy') \in Nat
            BY <3>1, <5>1, FS_Intersection, FS_CardinalityType DEF BusyInv
          <6> QED BY <3>1, <5>1, <5>2, <6>1, <6>2, LimitAssumption DEF BusyInv
        <5> QED BY <5>3, <5>4, Fewer, LimitAssumption
      <4>2. CASE v # u
        <5>1. Claims(v)' \subseteq Claims(v)
          BY <2>1, <2>4, <4>2 DEF Claims, HubsOf
        <5> QED BY <5>1, Fewer, LimitAssumption DEF RaceInv
      <4> QED BY <4>1, <4>2
    <3>3. ASSUME NEW m \in Upper
          PROVE  IsFiniteSet(Spelled(m)') /\ Cardinality(Spelled(m)') <= Threads
      BY <2>2, Fewer, LimitAssumption DEF RaceInv
    <3>4. Upper' = Upper
      BY DEF Upper, MacText
    <3> QED BY <3>1, <3>2, <3>3, <3>4 DEF RaceInv
  <2> QED BY <1>3, <2>3, <2>4 DEF ValidateCount, Go
<1>4. ASSUME NEW c \in Create, Insert(c) PROVE RaceInv'
  <2>1. /\ pc[c] = "insert" /\ pc' = [pc EXCEPT ![c] = "done"]
        /\ hubs' = [d \in DOMAIN hubs \cup {c} |-> IF d = c THEN Row(c) ELSE hubs[d]]
    BY <1>4 DEF Insert, Go
  <2>2. Busy' \subseteq Busy
    BY <2>1 DEF Busy
  <2>3. \A u \in User : Claims(u)' \subseteq Claims(u)
    BY <2>1 DEF Claims, HubsOf, Row
  <2>4. \A m \in Upper : Spelled(m)' \subseteq Spelled(m)
    BY <2>1 DEF Spelled
  <2> QED BY <2>2, <2>3, <2>4, RaceShrinks
<1>5. ASSUME NEW u \in User, Destroy(u) PROVE RaceInv'
  <2>1. PICK c \in HubsOf(u) : hubs' = [d \in DOMAIN hubs \ {c} |-> hubs[d]]
    BY <1>5 DEF Destroy
  <2>2. pc' = pc /\ Busy' = Busy
    BY <1>5 DEF Destroy, Busy
  <2>3. \A v \in User : Claims(v)' \subseteq Claims(v)
    BY <2>1, <2>2 DEF Claims, HubsOf
  <2>4. \A m \in Upper : Spelled(m)' \subseteq Spelled(m)
    BY <2>1, <2>2 DEF Spelled
  <2> QED BY <2>2, <2>3, <2>4, RaceShrinks
<1>6. CASE UNCHANGED vars
  BY <1>6, RaceShrinks DEF vars, Busy, Claims, HubsOf, Spelled
<1> QED BY <1>1, <1>2, <1>3, <1>4, <1>5, <1>6 DEF Next

THEOREM SpecRaceInv == Spec => []RaceInv
<1>1. Init => RaceInv
  <2> SUFFICES ASSUME Init PROVE RaceInv
    OBVIOUS
  <2>1. Busy = {} /\ (\A u : Claims(u) = {}) /\ (\A m : Spelled(m) = {})
    BY DEF Init, Busy, Claims, HubsOf, Spelled
  <2> QED BY <2>1, FS_EmptySet, LimitAssumption DEF RaceInv, BusyInv
<1> QED BY <1>1, RaceStep, SpecRowsInv, PTL DEF Spec

\* The limit of user.rb:5 is exceeded by less than the number of threads.
THEOREM SpecLimitExceededByRaceOnly == Spec => []LimitExceededByRaceOnly
<1>1. ASSUME RaceInv, NEW u \in User PROVE Cardinality(HubsOf(u)) < MaxHubs + Threads
  <2>1. HubsOf(u) \subseteq Claims(u)
    BY DEF Claims
  <2>2. IsFiniteSet(Claims(u)) /\ Cardinality(Claims(u)) < MaxHubs + Threads
    BY <1>1 DEF RaceInv
  <2> QED BY <2>1, <2>2, Fewer, LimitAssumption
<1>2. RaceInv => LimitExceededByRaceOnly
  BY <1>1 DEF LimitExceededByRaceOnly
<1> QED BY <1>2, SpecRaceInv, PTL

\* No more rows are made of one upper-case text than there are threads.
THEOREM SpecDuplicatesByRaceOnly == Spec => []DuplicatesByRaceOnly
<1>1. RowsInv /\ RaceInv => DuplicatesByRaceOnly
  <2> SUFFICES ASSUME RowsInv, RaceInv, NEW c \in DOMAIN hubs
               PROVE  Cardinality({d \in DOMAIN hubs :
                        hubs[d].mac = hubs[c].mac /\ ~Form[d].mac.lower}) <= Threads
    BY DEF DuplicatesByRaceOnly
  <2> DEFINE m == hubs[c].mac
             same == {d \in DOMAIN hubs : hubs[d].mac = m /\ ~Form[d].mac.lower}
  <2>1. m \in Upper
    BY DEF RowsInv, TypeOK, Upper
  <2>2. same \subseteq Spelled(m)
    <3>1. ASSUME NEW d \in same PROVE Form[d].mac = m
      <4>1. d \in Create /\ Form[d].mac \in MacText /\ hubs[d] = Row(d)
        BY DEF RowsInv, TypeOK
      <4> QED BY <4>1, UpcaseMac DEF Row
    <3> QED BY <3>1 DEF Spelled
  <2> QED BY <2>1, <2>2, Fewer, LimitAssumption DEF RaceInv
<1> QED BY <1>1, SpecRowsInv, SpecRaceInv, PTL

-----------------------------------------------------------------------------
(* The adjusted MAC.                                                       *)

\* to_s(16) tells numbers apart.
LEMMA HexInjective ==
  ASSUME NEW a \in 1..256, NEW b \in 1..256, Hex(a) = Hex(b)
  PROVE  a = b
<1>1. Len(Hex(a)) = IF a < 16 THEN 1 ELSE IF a < 256 THEN 2 ELSE 3
  BY DEF Hex
<1>2. Len(Hex(b)) = IF b < 16 THEN 1 ELSE IF b < 256 THEN 2 ELSE 3
  BY DEF Hex
<1>3. CASE a < 16 /\ b < 16
  BY <1>3 DEF Hex
<1>4. CASE a \in 16..255 /\ b \in 16..255
  <2>1. Hex(a)[1] = a \div 16 /\ Hex(a)[2] = a % 16 /\ Hex(b)[1] = b \div 16 /\ Hex(b)[2] = b % 16
    BY <1>4 DEF Hex
  <2>2. a = 16 * (a \div 16) + (a % 16) /\ b = 16 * (b \div 16) + (b % 16)
    OBVIOUS
  <2> QED BY <2>1, <2>2
<1> QED BY <1>1, <1>2, <1>3, <1>4

\* The first five octets and the digits of the last plus one tell MACs apart.
LEMMA OctetsDistinct ==
  ASSUME NEW a \in [1..6 -> Octet], NEW b \in [1..6 -> Octet],
         [i \in 1..5 |-> a[i]] = [i \in 1..5 |-> b[i]], Hex(a[6] + 1) = Hex(b[6] + 1)
  PROVE  a = b
<1>1. a[6] \in 0..255 /\ b[6] \in 0..255
  BY DEF Octet
<1>2. a[6] + 1 \in 1..256 /\ b[6] + 1 \in 1..256
  BY <1>1
<1>3. a[6] = b[6]
  <2>1. a[6] + 1 = b[6] + 1
    BY <1>2, HexInjective
  <2>2. ASSUME NEW x \in Int, NEW y \in Int, x + 1 = y + 1 PROVE x = y
    BY <2>2
  <2>3. a[6] \in Int /\ b[6] \in Int
    BY <1>1
  <2> QED BY <2>1, <2>2, <2>3
<1>4. \A i \in 1..5 : a[i] = b[i]
  <2> TAKE i \in 1..5
  <2>1. [j \in 1..5 |-> a[j]][i] = [j \in 1..5 |-> b[j]][i]
    OBVIOUS
  <2> QED BY <2>1
<1>5. \A i \in 1..6 : i = 6 \/ i \in 1..5
  OBVIOUS
<1> QED BY <1>3, <1>4, <1>5

\* Two hexadecimal digits, leading zeros included.
TwoDigits(n) == <<n \div 16, n % 16>>

\* An octet plus one is printed in two digits from 0F to FE.
LEMMA HexTwoDigits ==
  ASSUME NEW o \in 0..255
  PROVE  Hex(o + 1) = TwoDigits(o + 1) <=> o \in 15..254
<1>1. Len(TwoDigits(o + 1)) = 2
  BY DEF TwoDigits
<1>2. o \in 15..254 => Hex(o + 1) = TwoDigits(o + 1)
  BY DEF Hex, TwoDigits
<1>3. Hex(o + 1) = TwoDigits(o + 1) => Len(Hex(o + 1)) = 2
  BY <1>1
<1>4. Len(Hex(o + 1)) = 2 => o \in 15..254
  <2>1. CASE o < 15
    <3>1. Len(Hex(o + 1)) = 1
      BY <2>1 DEF Hex
    <3> QED BY <3>1
  <2>2. CASE o > 254
    <3>1. Len(Hex(o + 1)) = 3
      BY <2>2 DEF Hex
    <3> QED BY <3>1
  <2> QED BY <2>1, <2>2
<1> QED BY <1>2, <1>3, <1>4

\* With colons the octet read is the last.
LEMMA LastOctetColons ==
  ASSUME NEW m \in MacText, Colons(m)
  PROVE  LastOctet(m) = 6
<1> DEFINE starts == {1} \cup {i \in 2..6 : m.seps[i - 1] = ":"}
<1>1. starts = 1..6
  <2>1. \A i \in 2..6 : m.seps[i - 1] = ":"
    BY DEF Colons
  <2> QED BY <2>1
<1>2. LastOctet(m) = CHOOSE i \in 1..6 : \A j \in 1..6 : j <= i
  BY <1>1 DEF LastOctet
<1>3. \E i \in 1..6 : \A j \in 1..6 : j <= i
  <2>1. \A j \in 1..6 : j <= 6
    OBVIOUS
  <2> QED BY <2>1
<1> QED BY <1>2, <1>3

\* What before_save makes of a row whose MAC is written with colons.
LEMMA AdjustedRow ==
  ASSUME RowsInv, NEW c \in DOMAIN hubs, Colons(hubs[c].mac)
  PROVE  /\ hubs[c].mac \in MacText
         /\ hubs[c].adjusted =
              [octets |-> [i \in 1..5 |-> hubs[c].mac.octets[i]], seps |-> hubs[c].mac.seps,
               digits |-> Hex(hubs[c].mac.octets[6] + 1)]
<1>1. c \in Create /\ hubs[c] = Row(c) /\ hubs[c].mac \in MacText
  BY DEF RowsInv, TypeOK
<1>2. hubs[c].adjusted = Adjusted(hubs[c].mac)
  BY <1>1 DEF Row
<1> QED BY <1>1, <1>2, LastOctetColons DEF Adjusted

LEMMA AdjustedParts ==
  ASSUME RowsInv, NEW c \in DOMAIN hubs, Colons(hubs[c].mac)
  PROVE  /\ hubs[c].adjusted.octets = [i \in 1..5 |-> hubs[c].mac.octets[i]]
         /\ hubs[c].adjusted.digits = Hex(hubs[c].mac.octets[6] + 1)
<1> DEFINE octets == [i \in 1..5 |-> hubs[c].mac.octets[i]]
           digits == Hex(hubs[c].mac.octets[6] + 1)
<1>1. hubs[c].adjusted = [octets |-> octets, seps |-> hubs[c].mac.seps, digits |-> digits]
  BY AdjustedRow
<1> HIDE DEF octets, digits
<1>2. hubs[c].adjusted.octets = octets /\ hubs[c].adjusted.digits = digits
  BY <1>1
<1> QED BY <1>2 DEF octets, digits

\* Hubs with different MACs, written with colons, announce different ones.
THEOREM SpecAdjustedDistinct == Spec => []AdjustedDistinct
<1>1. ASSUME RowsInv, NEW c \in DOMAIN hubs, NEW d \in DOMAIN hubs,
             Colons(hubs[c].mac), Colons(hubs[d].mac), hubs[c].adjusted = hubs[d].adjusted
      PROVE  hubs[c].mac.octets = hubs[d].mac.octets
  <2>1. hubs[c].mac.octets \in [1..6 -> Octet] /\ hubs[d].mac.octets \in [1..6 -> Octet]
    BY <1>1, AdjustedRow DEF MacText
  <2>2. /\ hubs[c].adjusted.octets = [i \in 1..5 |-> hubs[c].mac.octets[i]]
        /\ hubs[c].adjusted.digits = Hex(hubs[c].mac.octets[6] + 1)
    BY <1>1, AdjustedParts
  <2>3. /\ hubs[d].adjusted.octets = [i \in 1..5 |-> hubs[d].mac.octets[i]]
        /\ hubs[d].adjusted.digits = Hex(hubs[d].mac.octets[6] + 1)
    BY <1>1, AdjustedParts
  <2>4. /\ [i \in 1..5 |-> hubs[c].mac.octets[i]] = [i \in 1..5 |-> hubs[d].mac.octets[i]]
        /\ Hex(hubs[c].mac.octets[6] + 1) = Hex(hubs[d].mac.octets[6] + 1)
    BY <1>1, <2>2, <2>3, Zenon
  <2> QED BY <2>1, <2>4, OctetsDistinct
<1>2. RowsInv => AdjustedDistinct
  BY <1>1 DEF AdjustedDistinct
<1> QED BY <1>2, SpecRowsInv, PTL

\* The adjusted MAC is the next one exactly for last octets 0F to FE.
THEOREM SpecAdjustedIsNextMac == Spec => []AdjustedIsNextMac
<1>1. ASSUME RowsInv, NEW c \in DOMAIN hubs, Colons(hubs[c].mac)
      PROVE  hubs[c].adjusted = NextMac(hubs[c].mac) <=> hubs[c].mac.octets[6] \in 15..254
  <2>1. PICK o \in 0..255 : o = hubs[c].mac.octets[6]
    <3>1. hubs[c].mac.octets \in [1..6 -> Octet]
      BY <1>1, AdjustedRow DEF MacText
    <3>2. hubs[c].mac.octets[6] \in Octet
      BY <3>1
    <3> QED BY <3>2, Zenon DEF Octet
  <2>2. hubs[c].adjusted = NextMac(hubs[c].mac) <=> Hex(o + 1) = TwoDigits(o + 1)
    <3>1. /\ hubs[c].adjusted.digits = Hex(o + 1)
          /\ NextMac(hubs[c].mac).digits = TwoDigits(o + 1)
      BY <1>1, <2>1, AdjustedParts DEF NextMac, TwoDigits
    <3>2. hubs[c].adjusted =
            [octets |-> [i \in 1..5 |-> hubs[c].mac.octets[i]], seps |-> hubs[c].mac.seps,
             digits |-> Hex(o + 1)]
      BY <1>1, <2>1, AdjustedRow
    <3>3. NextMac(hubs[c].mac) =
            [octets |-> [i \in 1..5 |-> hubs[c].mac.octets[i]], seps |-> hubs[c].mac.seps,
             digits |-> TwoDigits(o + 1)]
      BY <2>1 DEF NextMac, TwoDigits
    <3> QED BY <3>1, <3>2, <3>3, Zenon
  <2>3. Hex(o + 1) = TwoDigits(o + 1) <=> o \in 15..254
    BY HexTwoDigits
  <2> QED BY <2>1, <2>2, <2>3
<1>2. RowsInv => AdjustedIsNextMac
  BY <1>1 DEF AdjustedIsNextMac
<1> QED BY <1>2, SpecRowsInv, PTL

=============================================================================
