------------------------------ MODULE MCRgbwApi ------------------------------
(* Instances of RgbwApi for TLC. *)
EXTENDS RgbwApiProperties, TLC

CONSTANTS r1, r2, h1, h2, u1, m1

A(action, value, group) ==
  [mac |-> m1, user |-> u1, action |-> action, value |-> value, group |-> group]

Hex == {"#FF0000", "#00FF00", "00FF00", "#FFFFFF"}

\* A hub row, and one that may take its place: both have the MAC and the user.
OneMac == [h \in Hub |-> m1]
OneOwner == [h \in Hub |-> u1]
RowsSymmetric == Permutations({h1, h2})

\* A colour for all groups and a command for one.
ColorAndPower == [r \in Request |->
  CASE r = r1 -> A("color", "#00FF00", 0)
    [] r = r2 -> A("power", "off", 4)]

\* All off, and a brightness for one group.
OffAndDim == [r \in Request |->
  CASE r = r1 -> A("power", "off", 0)
    [] r = r2 -> A("brightness", "100", 4)]

=============================================================================
