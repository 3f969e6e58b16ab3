------------------------------ MODULE MCBackend ------------------------------
(* Instances of Backend for TLC. *)
EXTENDS BackendProperties, TLC

CONSTANTS m1, m2, c1, c2, c3

Cmd(m, n) == [mac |-> m, len |-> n]

\* What the API publishes: one colour command, a colour and a power
\* command, or two of which one has no decodable instruction.
OneCommand == <<Cmd(m1, 2)>>
LongAndShort == <<Cmd(m1, 2), Cmd(m1, 1)>>
ShortAndEmpty == <<Cmd(m1, 1), Cmd(m1, 0)>>
TwoBridges == <<Cmd(m1, 0), Cmd(m2, 1)>>

\* All connections are the first bridge's, or the last is another bridge's.
AllFirst == [c \in Conn |-> m1]
LastSecond == [c \in Conn |-> IF c = c3 THEN m2 ELSE m1]

AllSymmetric == Permutations(Conn)
FirstTwoSymmetric == Permutations({c1, c2})

=============================================================================
