------------------------------ MODULE MCAccounts ------------------------------
(* An instance of Accounts for TLC. *)
EXTENDS Accounts, TLC

CONSTANTS s1, s2, s3, s4, a1, a2, e1, E1, e2, t1, t2

\* Two sign-ins of an account whose verified address its provider does not spell
\* as it is stored, a third after it was given another one, which a user has, and
\* one of an account that only claims the first address.
OneRespelt == [t \in SignIn |-> IF t = s4 THEN a2 ELSE a1]
Addresses == [t \in SignIn |->
  [email    |-> CASE t \in {s1, s2} -> E1 [] t = s3 -> e2 [] t = s4 -> e1,
   verified |-> t # s4]]
LowerCase == [e \in {e1, E1, e2, t1, t2} |-> IF e = E1 THEN e1 ELSE e]
Temporary == [a \in {a1, a2} |-> IF a = a1 THEN t1 ELSE t2]

FirstTwoSymmetric == Permutations({s1, s2})

=============================================================================
