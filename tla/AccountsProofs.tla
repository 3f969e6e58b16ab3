---------------------------- MODULE AccountsProofs ----------------------------
(***************************************************************************)
(* Theorems on Accounts, for any sign-ins, accounts, addresses and number  *)
(* of threads.                                                             *)
(***************************************************************************)
EXTENDS Accounts, FiniteSetTheorems, TLAPS

-----------------------------------------------------------------------------
(* Types, and what a sign-in holds at each of its places.                  *)

\* The user is chosen after these places, and known at those.
Choosing == {"new", "find", "unique", "create", "user", "email", "newUser", "insertUser"}
Chose == {"validate", "link", "token", "done"}

\* Nobody is chosen too early, and somebody in time; identity.user decides if
\* no session does; user.save! is called for a missing token only.
Placed(t) ==
  /\ pc[t] = "new" => session[t] = Nil
  /\ pc[t] \in {"new", "find", "unique", "create"} => row[t] = Nil
  /\ row[t] = Nil => owner[t] = Nil
  /\ pc[t] \in Choosing => user[t] = Nil
  /\ pc[t] \in Chose => user[t] # Nil
  /\ pc[t] \in {"email", "newUser", "insertUser"} => owner[t] = Nil /\ session[t] = Nil
  /\ pc[t] \in {"validate", "link"} => owner[t] = Nil \/ session[t] # Nil
  /\ pc[t] = "token" => tokenless[t]

TypeInv == TypeOK /\ Legacy \subseteq DOMAIN users /\ \A t \in SignIn : Placed(t)

LEMMA NewEmailType ==
  ASSUME NEW t \in SignIn
  PROVE  NewEmail(t) \in Emails
BY DEF NewEmail, Verified, Emails

\* What TypeInv says of the steps that leave the tables alone: only the
\* variables of one sign-in matter.
LEMMA LocalType ==
  ASSUME TypeInv, UNCHANGED tables, NEW t \in SignIn,
         \A s \in SignIn \ {t} :
           /\ pc'[s] = pc[s] /\ session'[s] = session[s] /\ row'[s] = row[s]
           /\ owner'[s] = owner[s] /\ user'[s] = user[s] /\ tokenless'[s] = tokenless[s],
         pc' \in [SignIn -> PC], session' \in [SignIn -> DOMAIN users \cup {Nil}],
         row' \in [SignIn -> DOMAIN identities \cup {Nil}],
         row'[t] # Nil => Account[row'[t]] = Account[t],
         owner' \in [SignIn -> DOMAIN users \cup {Nil}],
         user' \in [SignIn -> DOMAIN users \cup {Nil}],
         tokenless' \in [SignIn -> BOOLEAN], alone' \in [SignIn -> BOOLEAN],
         Placed(t)'
  PROVE  TypeInv'
BY DEF TypeInv, TypeOK, Placed, tables

LEMMA ReadingType ==
  ASSUME TypeInv, NEW t \in SignIn,
         Arrives(t) \/ FindIdentity(t) \/ ValidateNew(t) \/ ChooseUser(t) \/ FindUser(t)
           \/ ValidateUser(t) \/ ValidateIdentity(t) \/ Crash(t)
  PROVE  TypeInv'
<1> USE DEF found, tables
<1>t. /\ TypeOK /\ Placed(t) /\ Legacy \subseteq DOMAIN users
  BY DEF TypeInv
<1>p. PC = {"done", "failed", "crashed", "new", "find", "unique", "create", "user", "email",
            "newUser", "insertUser", "validate", "link", "token"}
  BY DEF PC, Ends
<1>l. ASSUME NEW how \in {"failed", "crashed"}, Leaves(t, how), UNCHANGED <<tables, session, alone>>
      PROVE  TypeInv'
  <2>1. Placed(t)'
    BY <1>l, <1>t DEF Leaves, Placed, TypeOK, Choosing, Chose
  <2> QED BY <1>l, <1>t, <1>p, <2>1, LocalType DEF Leaves, TypeOK
<1>s. ASSUME NEW from \in PC, NEW u \in DOMAIN users, NEW missing \in BOOLEAN,
             Settles(t, from, u, missing), UNCHANGED <<tables, session, found, alone>>,
             owner[t] # u /\ session[t] = Nil => owner[t] = Nil
      PROVE  TypeInv'
  <2>1. u # Nil
    BY NilAssumption, <1>t DEF TypeOK
  <2>2. Placed(t)'
    BY <1>s, <1>t, <2>1 DEF Settles, Go, Left, Placed, TypeOK, Choosing, Chose
  <2> QED BY <1>s, <1>t, <1>p, <2>2, LocalType DEF Settles, Go, Left, TypeOK
<1>1. CASE Arrives(t)
  <2>1. PICK u \in Sessions \cup {Nil} :
          /\ session' = [session EXCEPT ![t] = u]
          /\ tokenless' = [tokenless EXCEPT ![t] = u # Nil /\ users[u] = 0]
    BY <1>1 DEF Arrives
  <2>2. u \in DOMAIN users \cup {Nil}
    BY <1>t DEF Sessions, TypeOK
  <2>3. Placed(t)'
    BY <1>1, <1>t, <2>1 DEF Arrives, Go, Placed, TypeOK, Choosing, Chose
  <2>4. alone' \in [SignIn -> BOOLEAN]
    BY <1>1, <1>t DEF Arrives, TypeOK
  <2> QED BY <1>1, <1>t, <1>p, <2>1, <2>2, <2>3, <2>4, LocalType DEF Arrives, Go, TypeOK
<1>2. CASE FindIdentity(t)
  <2>1. CASE UNCHANGED found
    <3>1. Placed(t)'
      BY <1>2, <2>1, <1>t DEF FindIdentity, Go, Placed, TypeOK, Choosing, Chose
    <3> QED BY <1>2, <2>1, <1>t, <1>p, <3>1, LocalType DEF FindIdentity, Go, TypeOK
  <2>2. ASSUME NEW i \in Rows(t), Go(t, "find", "user"),
               row' = [row EXCEPT ![t] = i], owner' = [owner EXCEPT ![t] = identities[i]]
        PROVE  TypeInv'
    <3>1. i \in DOMAIN identities /\ Account[i] = Account[t] /\ i # Nil
          /\ identities[i] \in DOMAIN users \cup {Nil}
      BY <1>t, NilAssumption DEF Rows, TypeOK
    <3>2. Placed(t)'
      BY <1>2, <2>2, <1>t, <3>1 DEF FindIdentity, Go, Placed, TypeOK, Choosing, Chose
    <3> QED BY <1>2, <2>2, <1>t, <1>p, <3>1, <3>2, LocalType DEF FindIdentity, Go, TypeOK
  <2> QED BY <1>2, <2>1, <2>2 DEF FindIdentity
<1>3. CASE ValidateNew(t)
  <2>1. Placed(t)'
    BY <1>3, <1>t DEF ValidateNew, Go, Placed, TypeOK, Choosing, Chose
  <2> QED BY <1>3, <1>t, <1>p, <2>1, LocalType DEF ValidateNew, Go, TypeOK
<1>4. CASE ChooseUser(t)
  <2>1. CASE Chosen(t) # Nil
    <3>1. Chosen(t) \in DOMAIN users
      BY <2>1, <1>t DEF Chosen, TypeOK
    <3>2. Settles(t, "user", Chosen(t),
                  IF session[t] # Nil THEN tokenless[t] ELSE users[Chosen(t)] = 0)
      BY <1>4, <2>1 DEF ChooseUser
    <3>3. (IF session[t] # Nil THEN tokenless[t] ELSE users[Chosen(t)] = 0) \in BOOLEAN
      BY <1>t DEF TypeOK
    <3>4. owner[t] # Chosen(t) /\ session[t] = Nil => owner[t] = Nil
      BY DEF Chosen
    <3> QED BY <1>4, <1>p, <1>s, <3>1, <3>2, <3>3, <3>4 DEF ChooseUser
  <2>2. CASE Chosen(t) = Nil
    <3>1. Placed(t)'
      BY <1>4, <2>2, <1>t DEF ChooseUser, Chosen, Go, Placed, TypeOK, Choosing, Chose
    <3> QED BY <1>4, <2>2, <1>t, <1>p, <3>1, LocalType DEF ChooseUser, Go, TypeOK
  <2> QED BY <2>1, <2>2
<1>5. CASE FindUser(t)
  <2>1. CASE KnownEmail(t)
    <3>1. Settles(t, "email", Verified(t), users[Verified(t)] = 0) /\ Verified(t) \in DOMAIN users
      BY <1>5, <2>1 DEF FindUser, KnownEmail
    <3>2. owner[t] = Nil \/ session[t] # Nil
      BY <3>1, <1>t DEF Settles, Go, Placed
    <3> QED BY <1>5, <1>p, <1>s, <3>1, <3>2 DEF FindUser
  <2>2. CASE ~KnownEmail(t)
    <3>1. Placed(t)'
      BY <1>5, <2>2, <1>t DEF FindUser, Go, Placed, TypeOK, Choosing, Chose
    <3> QED BY <1>5, <2>2, <1>t, <1>p, <3>1, LocalType DEF FindUser, Go, TypeOK
  <2> QED BY <2>1, <2>2
<1>6. CASE ValidateUser(t)
  <2>1. CASE Leaves(t, "failed")
    BY <1>6, <2>1, <1>l DEF ValidateUser
  <2>2. CASE Go(t, "newUser", "insertUser") /\ UNCHANGED <<found, user, tokenless>>
    <3>1. Placed(t)'
      BY <1>6, <2>2, <1>t DEF ValidateUser, Go, Placed, TypeOK, Choosing, Chose
    <3> QED BY <1>6, <2>2, <1>t, <1>p, <3>1, LocalType DEF ValidateUser, Go, TypeOK
  <2> QED BY <1>6, <2>1, <2>2 DEF ValidateUser
<1>7. CASE ValidateIdentity(t)
  <2>1. CASE Leaves(t, "failed")
    BY <1>7, <2>1, <1>l DEF ValidateIdentity
  <2>2. CASE Go(t, "validate", "link") /\ UNCHANGED <<found, user, tokenless>>
    <3>1. Placed(t)'
      BY <1>7, <2>2, <1>t DEF ValidateIdentity, Go, Placed, TypeOK, Choosing, Chose
    <3> QED BY <1>7, <2>2, <1>t, <1>p, <3>1, LocalType DEF ValidateIdentity, Go, TypeOK
  <2> QED BY <1>7, <2>1, <2>2 DEF ValidateIdentity
<1>8. CASE Crash(t)
  BY <1>8, <1>l DEF Crash
<1> QED BY <1>1, <1>2, <1>3, <1>4, <1>5, <1>6, <1>7, <1>8

\* Rows are added and never removed, and keep a user once they have one; a
\* user keeps its tokens.
TablesGrow ==
  /\ DOMAIN users \subseteq DOMAIN users' /\ DOMAIN identities \subseteq DOMAIN identities'
  /\ \A u \in DOMAIN users : users'[u] >= users[u]

\* The same of the steps that write, with the tables as they are afterwards.
LEMMA WritingType ==
  ASSUME TypeInv, NEW t \in SignIn, TablesGrow, required' = required, session' = session,
         alone' = alone,
         \A s \in SignIn \ {t} :
           /\ pc'[s] = pc[s] /\ row'[s] = row[s] /\ owner'[s] = owner[s]
           /\ user'[s] = user[s] /\ tokenless'[s] = tokenless[s],
         DOMAIN users' \subseteq Emails, users' \in [DOMAIN users' -> Nat],
         DOMAIN identities' \subseteq SignIn,
         identities' \in [DOMAIN identities' -> DOMAIN users' \cup {Nil}],
         pc' \in [SignIn -> PC],
         row' \in [SignIn -> DOMAIN identities' \cup {Nil}],
         row'[t] # Nil => Account[row'[t]] = Account[t],
         owner' \in [SignIn -> DOMAIN users' \cup {Nil}],
         user' \in [SignIn -> DOMAIN users' \cup {Nil}],
         tokenless' \in [SignIn -> BOOLEAN], Placed(t)'
  PROVE  TypeInv'
BY DEF TypeInv, TypeOK, Placed, TablesGrow

LEMMA Inserted ==
  ASSUME TypeInv, NEW t \in SignIn, NEW u \in DOMAIN users \cup {Nil}, Insert(t, u)
  PROVE  /\ DOMAIN identities' = DOMAIN identities \cup {t}
         /\ identities' \in [DOMAIN identities' -> DOMAIN users \cup {Nil}]
         /\ identities'[t] = u
         /\ \A i \in DOMAIN identities : i # t => identities'[i] = identities[i]
BY DEF Insert, TypeInv, TypeOK

LEMMA NewUser ==
  ASSUME TypeInv, NEW t \in SignIn, InsertUser(t), NewEmail(t) \notin DOMAIN users
  PROVE  /\ DOMAIN users' = DOMAIN users \cup {NewEmail(t)}
         /\ users' \in [DOMAIN users' -> Nat] /\ users'[NewEmail(t)] = 1
         /\ \A u \in DOMAIN users : users'[u] = users[u]
         /\ Settles(t, "insertUser", NewEmail(t), FALSE)
         /\ UNCHANGED <<found, identities, required, session, alone>>
<1>1. /\ users' = [f \in DOMAIN users \cup {NewEmail(t)} |-> IF f = NewEmail(t) THEN 1 ELSE users[f]]
      /\ Settles(t, "insertUser", NewEmail(t), FALSE)
      /\ UNCHANGED <<found, identities, required, session, alone>>
  BY DEF InsertUser
<1> QED BY <1>1 DEF TypeInv, TypeOK

\* The row a sign-in saves its user in.
Saved(t) == IF row[t] = Nil THEN t ELSE row[t]

LEMMA SavedRow ==
  ASSUME TypeInv, NEW t \in SignIn, SaveIdentity(t)
  PROVE  /\ row' = [row EXCEPT ![t] = Saved(t)]
         /\ Saved(t) # Nil /\ Saved(t) \in SignIn /\ Account[Saved(t)] = Account[t]
         /\ DOMAIN identities' = DOMAIN identities \cup {Saved(t)}
         /\ identities' \in [DOMAIN identities' -> DOMAIN users \cup {Nil}]
         /\ user[t] \in DOMAIN users /\ user[t] # Nil /\ identities'[Saved(t)] = user[t]
         /\ \A i \in DOMAIN identities : i # Saved(t) => identities'[i] = identities[i]
<1>t. TypeOK /\ Placed(t)
  BY DEF TypeInv
<1>1. pc[t] = "link" /\ user[t] \in DOMAIN users /\ user[t] # Nil
  BY <1>t DEF SaveIdentity, Go, Placed, Chose, TypeOK
<1>2. CASE row[t] = Nil
  <2>1. Insert(t, user[t]) /\ row' = [row EXCEPT ![t] = t] /\ Saved(t) = t
    BY <1>2, <1>t DEF SaveIdentity, TypeOK, Saved
  <2>2. /\ DOMAIN identities' = DOMAIN identities \cup {t}
        /\ identities' \in [DOMAIN identities' -> DOMAIN users \cup {Nil}]
        /\ identities'[t] = user[t]
        /\ \A i \in DOMAIN identities : i # t => identities'[i] = identities[i]
    BY <1>1, <2>1, Inserted
  <2> QED BY <1>1, <2>1, <2>2, NilAssumption
<1>3. CASE row[t] # Nil
  <2>1. /\ identities' = [identities EXCEPT ![row[t]] = user[t]]
        /\ row' = [row EXCEPT ![t] = row[t]] /\ Saved(t) = row[t]
    BY <1>3, <1>t DEF SaveIdentity, TypeOK, Saved
  <2>2. row[t] \in DOMAIN identities /\ row[t] \in SignIn /\ Account[row[t]] = Account[t]
    BY <1>3, <1>t DEF TypeOK
  <2>3. identities \in [DOMAIN identities -> DOMAIN users \cup {Nil}]
    BY <1>t DEF TypeOK
  <2> QED BY <1>1, <1>3, <2>1, <2>2, <2>3
<1> QED BY <1>2, <1>3

LEMMA WriterType ==
  ASSUME TypeInv, NEW t \in SignIn,
         CreateIdentity(t) \/ InsertUser(t) \/ SaveIdentity(t) \/ SaveToken(t)
  PROVE  TypeInv' /\ TablesGrow
<1> USE DEF found, tables
<1>t. TypeOK /\ Placed(t)
  BY DEF TypeInv
<1>p. PC = {"done", "failed", "crashed", "new", "find", "unique", "create", "user", "email",
            "newUser", "insertUser", "validate", "link", "token"}
  BY DEF PC, Ends
<1>l. ASSUME Leaves(t, "failed"), UNCHANGED <<tables, session, alone>>
      PROVE  TypeInv' /\ TablesGrow
  <2>1. Placed(t)'
    BY <1>l, <1>t DEF Leaves, Placed, TypeOK, Choosing, Chose
  <2>2. TypeInv'
    BY <1>l, <1>t, <1>p, <2>1, LocalType DEF Leaves, TypeOK
  <2> QED BY <1>l, <1>t, <2>2 DEF TablesGrow, TypeOK
<1>1. CASE CreateIdentity(t)
  <2>1. Insert(t, Nil) /\ users' = users /\ row' = [row EXCEPT ![t] = t]
    BY <1>1 DEF CreateIdentity
  <2>2. /\ DOMAIN identities' = DOMAIN identities \cup {t}
        /\ identities' \in [DOMAIN identities' -> DOMAIN users \cup {Nil}]
    <3>1. Nil \in DOMAIN users \cup {Nil}
      OBVIOUS
    <3> QED BY <2>1, <3>1, Inserted
  <2>3. TablesGrow
    BY <2>1, <2>2, <1>t DEF TablesGrow, TypeOK
  <2>4. Placed(t)'
    BY <1>1, <1>t, NilAssumption DEF CreateIdentity, Go, Placed, TypeOK, Choosing, Chose
  <2>5. pc' \in [SignIn -> PC] /\ row' \in [SignIn -> DOMAIN identities' \cup {Nil}] /\ row'[t] = t
    BY <1>1, <1>t, <1>p, <2>1, <2>2 DEF CreateIdentity, Go, TypeOK
  <2>6. DOMAIN identities' \subseteq SignIn
    BY <2>2, <1>t DEF TypeOK
  <2> QED
    BY <1>1, <1>t, <2>1, <2>2, <2>3, <2>4, <2>5, <2>6, WritingType DEF CreateIdentity, Go, TypeOK
<1>2. CASE InsertUser(t)
  <2>1. CASE NewEmail(t) \in DOMAIN users
    BY <1>2, <2>1, <1>l DEF InsertUser
  <2>2. CASE NewEmail(t) \notin DOMAIN users
    <3>1. /\ DOMAIN users' = DOMAIN users \cup {NewEmail(t)}
          /\ users' \in [DOMAIN users' -> Nat]
          /\ \A u \in DOMAIN users : users'[u] = users[u]
          /\ Settles(t, "insertUser", NewEmail(t), FALSE)
          /\ UNCHANGED <<found, identities, required, session, alone>>
      BY <1>2, <2>2, NewUser
    <3>2. NewEmail(t) # Nil /\ NewEmail(t) \in Emails
      BY NewEmailType, NilAssumption
    <3>3. TablesGrow
      BY <3>1, <1>t DEF TablesGrow, TypeOK
    <3>4. Placed(t)'
      BY <1>t, <3>1, <3>2 DEF Settles, Go, Left, Placed, TypeOK, Choosing, Chose
    <3>5. /\ pc' \in [SignIn -> PC] /\ user' \in [SignIn -> DOMAIN users' \cup {Nil}]
          /\ tokenless' \in [SignIn -> BOOLEAN]
      BY <1>t, <1>p, <3>1 DEF Settles, Go, Left, TypeOK
    <3>6. /\ DOMAIN users' \subseteq Emails
          /\ identities' \in [DOMAIN identities' -> DOMAIN users' \cup {Nil}]
          /\ owner' \in [SignIn -> DOMAIN users' \cup {Nil}]
      BY <1>t, <3>1, <3>2 DEF TypeOK
    <3> QED
      BY <1>t, <3>1, <3>3, <3>4, <3>5, <3>6, WritingType DEF Settles, Go, TypeOK
  <2> QED BY <2>1, <2>2
<1>3. CASE SaveIdentity(t)
  <2>1. /\ row' = [row EXCEPT ![t] = Saved(t)]
        /\ Saved(t) # Nil /\ Saved(t) \in SignIn /\ Account[Saved(t)] = Account[t]
        /\ DOMAIN identities' = DOMAIN identities \cup {Saved(t)}
        /\ identities' \in [DOMAIN identities' -> DOMAIN users \cup {Nil}]
        /\ user[t] \in DOMAIN users /\ user[t] # Nil
    BY <1>3, SavedRow
  <2>2. users' = users /\ TablesGrow
    BY <1>3, <1>t, <2>1 DEF SaveIdentity, TablesGrow, TypeOK
  <2>3. Placed(t)'
    BY <1>3, <1>t, <2>1 DEF SaveIdentity, Go, Placed, TypeOK, Choosing, Chose
  <2>4. /\ pc' \in [SignIn -> PC] /\ row' \in [SignIn -> DOMAIN identities' \cup {Nil}]
        /\ row'[t] = Saved(t) /\ DOMAIN identities' \subseteq SignIn
        /\ owner' \in [SignIn -> DOMAIN users \cup {Nil}]
    BY <1>3, <1>t, <1>p, <2>1 DEF SaveIdentity, Go, TypeOK
  <2> QED
    BY <1>3, <1>t, <2>1, <2>2, <2>3, <2>4, WritingType DEF SaveIdentity, Go, TypeOK
<1>4. CASE SaveToken(t)
  <2>1. CASE Leaves(t, "failed") /\ users' = users
    BY <1>4, <2>1, <1>l DEF SaveToken
  <2>2. CASE Go(t, "token", "done") /\ users' = [users EXCEPT ![user[t]] = @ + 1]
             /\ UNCHANGED <<found, user, tokenless>>
    <3>1. user[t] \in DOMAIN users
      BY <2>2, <1>t DEF Go, Placed, Chose, TypeOK
    <3>2. DOMAIN users' = DOMAIN users /\ users' \in [DOMAIN users -> Nat] /\ TablesGrow
      BY <1>4, <2>2, <3>1, <1>t DEF SaveToken, TablesGrow, TypeOK
    <3>3. Placed(t)'
      BY <1>4, <2>2, <1>t DEF SaveToken, Go, Placed, TypeOK, Choosing, Chose
    <3> QED
      BY <1>4, <2>2, <1>t, <1>p, <3>2, <3>3, WritingType DEF SaveToken, Go, TypeOK
  <2> QED BY <1>4, <2>1, <2>2 DEF SaveToken
<1> QED BY <1>1, <1>2, <1>3, <1>4

\* Steps that read leave the tables as they are.
LEMMA ReadingKeeps ==
  ASSUME NEW t \in SignIn,
         Arrives(t) \/ FindIdentity(t) \/ ValidateNew(t) \/ ChooseUser(t) \/ FindUser(t)
           \/ ValidateUser(t) \/ ValidateIdentity(t) \/ Crash(t)
  PROVE  UNCHANGED tables
BY DEF tables, Arrives, FindIdentity, ValidateNew, ChooseUser, FindUser, ValidateUser,
       ValidateIdentity, Crash

THEOREM SpecTypeInv == Spec => []TypeInv
<1>1. Init => TypeInv
  BY DEF Init, TypeInv, TypeOK, Placed, Choosing, Chose, PC, Ends, Emails
<1>2. TypeInv /\ [Next]_vars => TypeInv'
  <2> SUFFICES ASSUME TypeInv, [Next]_vars PROVE TypeInv'
    OBVIOUS
  <2>1. CASE UNCHANGED vars
    BY <2>1 DEF vars, tables, found, TypeInv, TypeOK, Placed
  <2>2. ASSUME NEW t \in SignIn, Arrives(t) \/ Step(t) \/ Crash(t) PROVE TypeInv'
    BY <2>2, ReadingType, WriterType DEF Step
  <2> QED BY <2>1, <2>2 DEF Next
<1> QED BY <1>1, <1>2, PTL DEF Spec

\* Every variable keeps its type; a sign-in works on a row of its own account.
THEOREM SpecTypeOK == Spec => []TypeOK
<1>1. TypeInv => TypeOK
  BY DEF TypeInv
<1> QED BY <1>1, SpecTypeInv, PTL

(***************************************************************************)
(* The safety and action properties of Accounts, for any sign-ins,         *)
(* accounts, addresses and number of threads.                              *)
(***************************************************************************)

-----------------------------------------------------------------------------
(* What a step of one sign-in leaves to the others.                        *)

OneStep(t) == Arrives(t) \/ Step(t) \/ Crash(t)

\* The local variables of a sign-in stay.
Rests(s) ==
  /\ pc'[s] = pc[s] /\ session'[s] = session[s] /\ row'[s] = row[s]
  /\ owner'[s] = owner[s] /\ user'[s] = user[s] /\ tokenless'[s] = tokenless[s]

LEMMA OthersRest ==
  ASSUME TypeInv, NEW t \in SignIn, OneStep(t)
  PROVE  \A s \in SignIn \ {t} : Rests(s)
<1> USE DEF TypeInv, TypeOK, found, Rests
<1>1. CASE Arrives(t)
  BY <1>1 DEF Arrives, Go
<1>2. CASE FindIdentity(t)
  BY <1>2 DEF FindIdentity, Go
<1>3. CASE ValidateNew(t)
  BY <1>3 DEF ValidateNew, Go
<1>4. CASE CreateIdentity(t)
  BY <1>4 DEF CreateIdentity, Go
<1>5. CASE ChooseUser(t)
  BY <1>5 DEF ChooseUser, Settles, Go
<1>6. CASE FindUser(t)
  BY <1>6 DEF FindUser, Settles, Go
<1>7. CASE ValidateUser(t)
  BY <1>7 DEF ValidateUser, Leaves, Go
<1>8. CASE InsertUser(t)
  BY <1>8 DEF InsertUser, Settles, Leaves, Go
<1>9. CASE ValidateIdentity(t)
  BY <1>9 DEF ValidateIdentity, Leaves, Go
<1>10. CASE SaveIdentity(t)
  BY <1>10 DEF SaveIdentity, Go
<1>11. CASE SaveToken(t)
  BY <1>11 DEF SaveToken, Leaves, Go
<1>12. CASE Crash(t)
  BY <1>12 DEF Crash, Leaves
<1> QED
  BY <1>1, <1>2, <1>3, <1>4, <1>5, <1>6, <1>7, <1>8, <1>9, <1>10, <1>11, <1>12 DEF OneStep, Step

LEMMA StepGrows ==
  ASSUME TypeInv, NEW t \in SignIn, OneStep(t)
  PROVE  TypeInv' /\ TablesGrow
<1>1. CASE CreateIdentity(t) \/ InsertUser(t) \/ SaveIdentity(t) \/ SaveToken(t)
  BY <1>1, WriterType
<1>2. CASE ~(CreateIdentity(t) \/ InsertUser(t) \/ SaveIdentity(t) \/ SaveToken(t))
  <2>1. TypeInv' /\ UNCHANGED tables
    BY <1>2, ReadingType, ReadingKeeps DEF OneStep, Step
  <2> QED BY <2>1 DEF tables, TypeInv, TypeOK, TablesGrow
<1> QED BY <1>1, <1>2

-----------------------------------------------------------------------------
(* DoneIsLinked.                                                           *)

\* A sign-in makes a row once, after it found none; whoever it holds in
\* owner has been saved in its row; who has no token, of those it has loaded,
\* is known to it.
Linked(t) ==
  /\ t \in DOMAIN identities =>
       /\ pc[t] \notin {"new", "find", "unique", "create"}
       /\ pc[t] \notin {"failed", "crashed"} => row[t] = t
  /\ owner[t] # Nil \/ pc[t] \in {"token", "done"} => row[t] # Nil /\ identities[row[t]] # Nil
  /\ pc[t] \in {"find", "unique", "create", "user"} /\ session[t] # Nil /\ ~tokenless[t] =>
       users[session[t]] > 0
  /\ pc[t] \in {"validate", "link"} /\ ~tokenless[t] => users[user[t]] > 0
  /\ pc[t] = "done" => users[user[t]] > 0

LinkInv == \A t \in SignIn : Linked(t)

\* A row that has a user keeps one, and rows are made by their own sign-in.
RowsKept(t) ==
  /\ DOMAIN identities' \subseteq DOMAIN identities \cup {t}
  /\ \A i \in DOMAIN identities : identities[i] # Nil => identities'[i] # Nil

LEMMA StepKeepsRows ==
  ASSUME TypeInv, LinkInv, NEW t \in SignIn, OneStep(t)
  PROVE  RowsKept(t)
<1>t. TypeOK /\ Placed(t) /\ Linked(t)
  BY DEF TypeInv, LinkInv
<1>1. CASE CreateIdentity(t)
  <2>1. Insert(t, Nil) /\ t \notin DOMAIN identities
    BY <1>1, <1>t DEF CreateIdentity, Go, Linked
  <2>2. Nil \in DOMAIN users \cup {Nil}
    OBVIOUS
  <2>3. /\ DOMAIN identities' = DOMAIN identities \cup {t}
        /\ \A i \in DOMAIN identities : i # t => identities'[i] = identities[i]
    BY <2>1, <2>2, Inserted
  <2> QED BY <2>1, <2>3 DEF RowsKept
<1>2. CASE SaveIdentity(t)
  <2>1. /\ DOMAIN identities' = DOMAIN identities \cup {Saved(t)}
        /\ user[t] # Nil /\ identities'[Saved(t)] = user[t]
        /\ \A i \in DOMAIN identities : i # Saved(t) => identities'[i] = identities[i]
    BY <1>2, SavedRow
  <2>2. Saved(t) \in DOMAIN identities \cup {t}
    BY <1>t DEF Saved, TypeOK
  <2> QED BY <2>1, <2>2 DEF RowsKept
<1>3. CASE InsertUser(t) \/ SaveToken(t)
  BY <1>3 DEF InsertUser, SaveToken, RowsKept
<1>4. CASE ~(CreateIdentity(t) \/ InsertUser(t) \/ SaveIdentity(t) \/ SaveToken(t))
  BY <1>4, ReadingKeeps DEF OneStep, Step, tables, RowsKept
<1> QED BY <1>1, <1>2, <1>3, <1>4

LEMMA OthersLinked ==
  ASSUME TypeInv, TypeInv', LinkInv, NEW t \in SignIn, TablesGrow, RowsKept(t), NEW s \in SignIn \ {t}, Rests(s)
  PROVE  Linked(s)'
<1>1. Linked(s) /\ TypeOK /\ Placed(s)
  BY DEF LinkInv, TypeInv
<1>2. s \in DOMAIN identities' <=> s \in DOMAIN identities
  BY DEF RowsKept, TablesGrow
<1>3. row[s] # Nil => row[s] \in DOMAIN identities
  BY <1>1 DEF TypeOK
<1>4. \A u \in DOMAIN users : users[u] > 0 => users'[u] > 0
  <2> SUFFICES ASSUME NEW u \in DOMAIN users, users[u] > 0 PROVE users'[u] > 0
    OBVIOUS
  <2>1. users[u] \in Nat /\ users'[u] \in Nat /\ users'[u] >= users[u]
    BY <1>1 DEF TablesGrow, TypeInv, TypeOK
  <2> QED BY <2>1
<1>5. session[s] \in DOMAIN users \cup {Nil} /\ user[s] \in DOMAIN users \cup {Nil}
  BY <1>1 DEF TypeOK
<1>6. pc[s] \in {"validate", "link", "done"} => user[s] # Nil
  BY <1>1 DEF Placed, Chose
<1> QED BY <1>1, <1>2, <1>3, <1>4, <1>5, <1>6 DEF Linked, Rests, RowsKept

LEMMA SelfLinked ==
  ASSUME TypeInv, LinkInv, NEW t \in SignIn, OneStep(t)
  PROVE  Linked(t)'
<1> USE DEF found, tables
<1>t. TypeOK /\ Placed(t) /\ Linked(t)
  BY DEF TypeInv, LinkInv
<1>l. ASSUME NEW how \in {"failed", "crashed"}, Leaves(t, how), session' = session,
             identities' = identities, pc[t] \notin Ends \cup {"new"}, pc[t] \notin {"find", "unique", "create"}
               \/ t \notin DOMAIN identities
      PROVE  Linked(t)'
  BY <1>l, <1>t DEF Leaves, Linked, TypeOK
<1>s. ASSUME NEW from \in PC, NEW u \in DOMAIN users', NEW missing \in BOOLEAN,
             from \in {"user", "email", "insertUser"},
             Settles(t, from, u, missing), UNCHANGED <<identities, session, found>>,
             ~missing => users'[u] > 0, u # Nil
      PROVE  Linked(t)'
  <2>1. pc[t] = from /\ pc'[t] = Left(t, u, missing) /\ user'[t] = u /\ tokenless'[t] = missing
    BY <1>s, <1>t DEF Settles, Go, TypeOK
  <2>2. row'[t] = row[t] /\ owner'[t] = owner[t]
    BY <1>s
  <2>3. Left(t, u, missing) \in {"validate", "token", "done"}
        /\ (Left(t, u, missing) # "validate" => owner[t] = u)
        /\ (Left(t, u, missing) = "done" => ~missing)
    BY DEF Left
  <2> QED BY <1>s, <1>t, <2>1, <2>2, <2>3 DEF Linked
<1>1. CASE Arrives(t)
  <2>1. PICK u \in Sessions \cup {Nil} :
          /\ session' = [session EXCEPT ![t] = u]
          /\ tokenless' = [tokenless EXCEPT ![t] = u # Nil /\ users[u] = 0]
    BY <1>1 DEF Arrives
  <2>2. u \in DOMAIN users \cup {Nil}
    BY <1>t, <2>1 DEF Sessions, TypeOK, TypeInv
  <2>3. u # Nil => users[u] \in Nat
    BY <1>t, <2>2 DEF TypeOK
  <2>4. /\ pc[t] = "new" /\ pc'[t] = "find" /\ session'[t] = u
        /\ (tokenless'[t] <=> u # Nil /\ users[u] = 0)
        /\ UNCHANGED <<tables, row, owner>>
    BY <1>1, <1>t, <2>1 DEF Arrives, Go, TypeOK
  <2>5. session'[t] # Nil /\ ~tokenless'[t] => users'[session'[t]] > 0
    <3>1. users' = users
      BY <2>4 DEF tables
    <3>2. u # Nil /\ users[u] # 0 => users[u] > 0
      BY <2>3
    <3> QED BY <2>4, <3>1, <3>2
  <2> QED BY <1>t, <2>4, <2>5 DEF Linked
<1>2. CASE FindIdentity(t)
  <2>1. CASE UNCHANGED found
    BY <1>2, <2>1, <1>t DEF FindIdentity, Go, Linked, TypeOK
  <2>2. ASSUME NEW i \in Rows(t), Go(t, "find", "user"),
               row' = [row EXCEPT ![t] = i], owner' = [owner EXCEPT ![t] = identities[i]]
        PROVE  Linked(t)'
    <3>1. i \in DOMAIN identities /\ i # Nil
      BY <1>t, NilAssumption DEF Rows, TypeOK
    <3> QED BY <1>2, <2>2, <1>t, <3>1 DEF FindIdentity, Go, Linked, TypeOK
  <2> QED BY <1>2, <2>1, <2>2 DEF FindIdentity
<1>3. CASE ValidateNew(t)
  BY <1>3, <1>t DEF ValidateNew, Go, Linked, TypeOK
<1>4. CASE CreateIdentity(t)
  <2>1. pc[t] = "create" /\ pc'[t] = "user" /\ row'[t] = t /\ owner'[t] = owner[t]
        /\ session' = session /\ tokenless' = tokenless /\ users' = users
    BY <1>4, <1>t DEF CreateIdentity, Go, TypeOK
  <2>2. owner[t] = Nil
    BY <1>t, <2>1 DEF Placed
  <2> QED BY <1>t, <2>1, <2>2 DEF Linked
<1>5. CASE ChooseUser(t)
  <2>1. CASE Chosen(t) # Nil
    <3>1. Chosen(t) \in DOMAIN users /\ pc[t] = "user"
      BY <1>5, <2>1, <1>t DEF Chosen, TypeOK, ChooseUser, Settles, Go
    <3> DEFINE missing == IF session[t] # Nil THEN tokenless[t] ELSE users[Chosen(t)] = 0
    <3>2. Settles(t, "user", Chosen(t), missing)
      BY <1>5, <2>1 DEF ChooseUser
    <3>3. missing \in BOOLEAN
      BY <1>t DEF TypeOK
    <3>4. ~missing => users[Chosen(t)] > 0
      <4>1. users[Chosen(t)] \in Nat
        BY <1>t, <3>1 DEF TypeOK
      <4>2. CASE session[t] # Nil
        BY <1>t, <3>1, <4>2 DEF Linked, Chosen
      <4>3. CASE session[t] = Nil
        BY <4>1, <4>3
      <4> QED BY <4>2, <4>3
    <3>5. UNCHANGED <<identities, session, found, users>>
      BY <1>5 DEF ChooseUser
    <3>6. "user" \in PC
      BY DEF PC
    <3> HIDE DEF missing
    <3> QED BY <1>s, <2>1, <3>1, <3>2, <3>3, <3>4, <3>5, <3>6
  <2>2. CASE Chosen(t) = Nil
    BY <1>5, <2>2, <1>t DEF ChooseUser, Go, Linked, TypeOK
  <2> QED BY <2>1, <2>2
<1>6. CASE FindUser(t)
  <2>1. CASE KnownEmail(t)
    <3>1. Settles(t, "email", Verified(t), users[Verified(t)] = 0) /\ Verified(t) \in DOMAIN users
      BY <1>6, <2>1 DEF FindUser, KnownEmail
    <3>2. Verified(t) # Nil /\ users[Verified(t)] \in Nat
      BY <1>t, <3>1, NilAssumption DEF TypeOK
    <3>3. UNCHANGED <<identities, session, found, users>> /\ "email" \in PC
      BY <1>6 DEF FindUser, PC
    <3>4. (users[Verified(t)] = 0) \in BOOLEAN /\ (~(users[Verified(t)] = 0) => users'[Verified(t)] > 0)
      BY <3>2, <3>3
    <3> QED BY <1>s, <3>1, <3>2, <3>3, <3>4
  <2>2. CASE ~KnownEmail(t)
    BY <1>6, <2>2, <1>t DEF FindUser, Go, Linked, TypeOK
  <2> QED BY <2>1, <2>2
<1>7. CASE ValidateUser(t)
  <2>1. CASE Leaves(t, "failed")
    BY <1>7, <2>1, <1>l DEF ValidateUser, Ends
  <2>2. CASE Go(t, "newUser", "insertUser") /\ UNCHANGED <<found, user, tokenless>>
    BY <1>7, <2>2, <1>t DEF ValidateUser, Go, Linked, TypeOK
  <2> QED BY <1>7, <2>1, <2>2 DEF ValidateUser
<1>8. CASE InsertUser(t)
  <2>1. CASE NewEmail(t) \in DOMAIN users
    BY <1>8, <2>1, <1>l DEF InsertUser, Ends
  <2>2. CASE NewEmail(t) \notin DOMAIN users
    <3>1. /\ NewEmail(t) \in DOMAIN users' /\ users'[NewEmail(t)] = 1
          /\ Settles(t, "insertUser", NewEmail(t), FALSE)
          /\ UNCHANGED <<found, identities, session>>
      BY <1>8, <2>2, NewUser
    <3>2. NewEmail(t) # Nil /\ "insertUser" \in PC
      BY NewEmailType, NilAssumption DEF PC
    <3>3. users'[NewEmail(t)] > 0
      BY <3>1
    <3> QED BY <1>s, <3>1, <3>2, <3>3
  <2> QED BY <2>1, <2>2
<1>9. CASE ValidateIdentity(t)
  <2>1. CASE Leaves(t, "failed")
    BY <1>9, <2>1, <1>l DEF ValidateIdentity, Ends
  <2>2. CASE Go(t, "validate", "link") /\ UNCHANGED <<found, user, tokenless>>
    BY <1>9, <2>2, <1>t DEF ValidateIdentity, Go, Linked, TypeOK
  <2> QED BY <1>9, <2>1, <2>2 DEF ValidateIdentity
<1>10. CASE SaveIdentity(t)
  <2>1. /\ row' = [row EXCEPT ![t] = Saved(t)] /\ Saved(t) # Nil
        /\ DOMAIN identities' = DOMAIN identities \cup {Saved(t)}
        /\ user[t] \in DOMAIN users /\ user[t] # Nil /\ identities'[Saved(t)] = user[t]
    BY <1>10, SavedRow
  <2>2. /\ pc[t] = "link" /\ pc'[t] = IF tokenless[t] THEN "token" ELSE "done"
        /\ row'[t] = Saved(t) /\ users' = users /\ user' = user /\ tokenless' = tokenless
        /\ session' = session
    BY <1>10, <1>t, <2>1 DEF SaveIdentity, Go, TypeOK
  <2>3. t \in DOMAIN identities' => Saved(t) = t
    BY <1>t, <2>1, <2>2 DEF Linked, Saved
  <2> QED BY <1>t, <2>1, <2>2, <2>3 DEF Linked
<1>11. CASE SaveToken(t)
  <2>1. CASE Leaves(t, "failed")
    BY <1>11, <2>1, <1>l, <1>t DEF SaveToken, Ends, Leaves, Go, TypeOK
  <2>2. CASE Go(t, "token", "done") /\ users' = [users EXCEPT ![user[t]] = @ + 1]
             /\ UNCHANGED <<found, user, tokenless>>
    <3>1. user[t] \in DOMAIN users /\ users[user[t]] \in Nat
      BY <2>2, <1>t DEF Go, Placed, Chose, TypeOK
    <3>2. pc[t] = "token" /\ pc'[t] = "done" /\ users'[user[t]] > 0
      BY <2>2, <3>1, <1>t DEF Go, TypeOK
    <3> QED BY <1>11, <2>2, <1>t, <3>2 DEF SaveToken, Linked
  <2> QED BY <1>11, <2>1, <2>2 DEF SaveToken
<1>12. CASE Crash(t)
  BY <1>12, <1>l, <1>t DEF Crash, Busy, Linked
<1> QED
  BY <1>1, <1>2, <1>3, <1>4, <1>5, <1>6, <1>7, <1>8, <1>9, <1>10, <1>11, <1>12 DEF OneStep, Step

\* All of the above holds together.
IInv == TypeInv /\ LinkInv

LEMMA NextOneStep ==
  ASSUME Next
  PROVE  \E t \in SignIn : OneStep(t)
BY DEF Next, OneStep

THEOREM SpecLinkInv == Spec => []IInv
<1>1. Init => LinkInv
  BY DEF Init, LinkInv, Linked
<1>2. IInv /\ TypeInv' /\ [Next]_vars => IInv'
  <2> SUFFICES ASSUME IInv, TypeInv', [Next]_vars PROVE LinkInv'
    BY DEF IInv
  <2>1. CASE UNCHANGED vars
    BY <2>1 DEF vars, tables, found, IInv, LinkInv, Linked
  <2>2. ASSUME NEW t \in SignIn, OneStep(t) PROVE LinkInv'
    BY <2>2, OthersRest, StepGrows, StepKeepsRows, OthersLinked, SelfLinked DEF IInv, LinkInv
  <2> QED BY <2>1, <2>2, NextOneStep
<1> QED BY <1>1, <1>2, SpecTypeInv, PTL DEF Spec, IInv

\* Whoever raced it, a sign-in that succeeds leaves a saved identity that has a
\* user, and its user has a token to put into the SmartApp (user.rb:55-64).
THEOREM SpecDoneIsLinked == Spec => []DoneIsLinked
<1>1. IInv => DoneIsLinked
  <2> SUFFICES ASSUME IInv, NEW t \in SignIn, pc[t] = "done"
               PROVE  /\ row[t] \in DOMAIN identities /\ identities[row[t]] # Nil
                      /\ user[t] \in DOMAIN users /\ users[user[t]] > 0
    BY DEF DoneIsLinked
  <2>1. TypeOK /\ Placed(t) /\ Linked(t)
    BY DEF IInv, TypeInv, LinkInv
  <2> QED BY <2>1 DEF TypeOK, Placed, Chose, Linked
<1> QED BY <1>1, SpecLinkInv, PTL

-----------------------------------------------------------------------------
(* OwnUserOnly.                                                            *)

\* Where identities of an account may lead to.
Own(a) ==
  {Nil, Stored[TempEmail[a]]} \cup
  UNION {{session[t]} \cup (IF Info[t].verified THEN {Stored[Info[t].email]} ELSE {})
         : t \in {s \in SignIn : Account[s] = a}}

\* What a sign-in remembers is as good as what is in the table.
OwnInv ==
  /\ \A i \in DOMAIN identities : identities[i] \in Own(Account[i])
  /\ \A t \in SignIn : owner[t] \in Own(Account[t]) /\ user[t] \in Own(Account[t])

LEMMA OwnFacts ==
  ASSUME NEW t \in SignIn
  PROVE  /\ {Nil, session[t], NewEmail(t)} \subseteq Own(Account[t])
         /\ Verified(t) \in Emails => Verified(t) \in Own(Account[t])
<1>1. Nil \in Own(Account[t]) /\ session[t] \in Own(Account[t])
  BY DEF Own
<1>2. Info[t].verified => Stored[Info[t].email] \in Own(Account[t])
  <2>1. Info[t].verified =>
          Stored[Info[t].email] \in IF Info[t].verified THEN {Stored[Info[t].email]} ELSE {}
    OBVIOUS
  <2> QED BY <2>1 DEF Own
<1>3. Stored[TempEmail[Account[t]]] \in Own(Account[t])
  BY DEF Own
<1>4. Verified(t) \in Emails => Info[t].verified /\ Verified(t) = Stored[Info[t].email]
  BY StoredAssumption, NilAssumption DEF Verified
<1>5. NewEmail(t) \in Own(Account[t])
  BY <1>2, <1>3 DEF Verified, NewEmail
<1> QED BY <1>1, <1>2, <1>4, <1>5

LEMMA OwnGrows ==
  ASSUME TypeInv, NEW t \in SignIn, OneStep(t), NEW a, NEW u \in Own(a)
  PROVE  u \in Own(a)'
<1>1. session'[t] = session[t] \/ session[t] = Nil
  <2>1. CASE Arrives(t)
    BY <2>1 DEF Arrives, Go, TypeInv, Placed
  <2>2. CASE Step(t) \/ Crash(t)
    BY <2>2 DEF Step, Crash, FindIdentity, ValidateNew, CreateIdentity, ChooseUser, FindUser,
                ValidateUser, InsertUser, ValidateIdentity, SaveIdentity, SaveToken
  <2> QED BY <2>1, <2>2 DEF OneStep
<1>2. \A s \in SignIn : session'[s] = session[s] \/ session[s] = Nil
  BY <1>1, OthersRest DEF Rests
<1>3. CASE u \in {Nil, Stored[TempEmail[a]]}
  BY <1>3 DEF Own
<1>4. CASE \E s \in SignIn : /\ Account[s] = a
                             /\ u \in {session[s]} \cup (IF Info[s].verified THEN {Stored[Info[s].email]} ELSE {})
  <2>1. PICK s \in SignIn : /\ Account[s] = a
                            /\ u \in {session[s]} \cup (IF Info[s].verified THEN {Stored[Info[s].email]} ELSE {})
    BY <1>4
  <2>2. u = Nil \/ u \in {session'[s]} \cup (IF Info[s].verified THEN {Stored[Info[s].email]} ELSE {})
    BY <1>2, <2>1
  <2> QED BY <2>1, <2>2 DEF Own
<1> QED BY <1>3, <1>4 DEF Own

\* What a sign-in takes or saves is allowed to it.
LEMMA OwnStep ==
  ASSUME TypeInv, OwnInv, NEW t \in SignIn, OneStep(t)
  PROVE  /\ {owner'[t], user'[t]} \subseteq Own(Account[t])
         /\ \A i \in DOMAIN identities' :
              \/ identities'[i] \in Own(Account[t]) /\ Account[i] = Account[t]
              \/ i \in DOMAIN identities /\ identities'[i] = identities[i]
<1> USE DEF found, tables
<1>t. TypeOK /\ Placed(t)
  BY DEF TypeInv
<1>o. /\ {Nil, session[t], NewEmail(t), owner[t], user[t]} \subseteq Own(Account[t])
      /\ KnownEmail(t) => Verified(t) \in Own(Account[t])
  BY <1>t, OwnFacts DEF OwnInv, KnownEmail, TypeOK
<1>l. ASSUME NEW how, Leaves(t, how)
      PROVE  {owner'[t], user'[t]} \subseteq Own(Account[t])
  BY <1>l, <1>t, <1>o DEF Leaves, TypeOK
<1>1. CASE Arrives(t) \/ ValidateNew(t) \/ Crash(t)
  BY <1>1, <1>l, <1>o DEF Arrives, ValidateNew, Crash
<1>2. CASE FindIdentity(t)
  <2>1. CASE UNCHANGED found
    BY <1>2, <2>1, <1>o DEF FindIdentity
  <2>2. ASSUME NEW i \in Rows(t), owner' = [owner EXCEPT ![t] = identities[i]]
        PROVE  owner'[t] \in Own(Account[t])
    BY <2>2, <1>t DEF OwnInv, Rows, TypeOK
  <2> QED BY <1>2, <2>1, <2>2, <1>o DEF FindIdentity
<1>4. CASE CreateIdentity(t)
  <2>1. /\ DOMAIN identities' = DOMAIN identities \cup {t} /\ identities'[t] = Nil
        /\ \A i \in DOMAIN identities : i # t => identities'[i] = identities[i]
    <3>1. Nil \in DOMAIN users \cup {Nil} /\ Insert(t, Nil)
      BY <1>4 DEF CreateIdentity
    <3> QED BY <3>1, Inserted
  <2> QED BY <1>4, <2>1, <1>o DEF CreateIdentity
<1>5. CASE ChooseUser(t) \/ FindUser(t)
  BY <1>5, <1>t, <1>o DEF ChooseUser, Chosen, FindUser, Settles, TypeOK
<1>7. CASE ValidateUser(t) \/ ValidateIdentity(t)
  BY <1>7, <1>l, <1>o DEF ValidateUser, ValidateIdentity
<1>8. CASE InsertUser(t)
  BY <1>8, <1>l, <1>t, <1>o DEF InsertUser, Settles, TypeOK
<1>10. CASE SaveIdentity(t)
  <2>1. /\ Account[Saved(t)] = Account[t] /\ DOMAIN identities' = DOMAIN identities \cup {Saved(t)}
        /\ identities'[Saved(t)] = user[t]
        /\ \A i \in DOMAIN identities : i # Saved(t) => identities'[i] = identities[i]
    BY <1>10, SavedRow
  <2>2. owner'[t] = user[t] /\ user' = user
    BY <1>10, <1>t DEF SaveIdentity, TypeOK
  <2> QED BY <2>1, <2>2, <1>o
<1>11. CASE SaveToken(t)
  BY <1>11, <1>l, <1>o DEF SaveToken
<1> QED BY <1>1, <1>2, <1>4, <1>5, <1>7, <1>8, <1>10, <1>11 DEF OneStep, Step

THEOREM SpecOwnInv == Spec => []OwnInv
<1>1. Init => OwnInv
  BY DEF Init, OwnInv, Own
<1>2. TypeInv /\ OwnInv /\ [Next]_vars => OwnInv'
  <2> SUFFICES ASSUME TypeInv, OwnInv, [Next]_vars PROVE OwnInv'
    OBVIOUS
  <2>1. CASE UNCHANGED vars
    BY <2>1 DEF vars, tables, found, OwnInv, Own
  <2>2. ASSUME NEW t \in SignIn, OneStep(t) PROVE OwnInv'
    <3>1. \A a : \A u \in Own(a) : u \in Own(a)'
      BY <2>2, OwnGrows
    <3>2. /\ {owner'[t], user'[t]} \subseteq Own(Account[t])
          /\ \A i \in DOMAIN identities' :
               \/ identities'[i] \in Own(Account[t]) /\ Account[i] = Account[t]
               \/ i \in DOMAIN identities /\ identities'[i] = identities[i]
      BY <2>2, OwnStep
    <3>3. \A s \in SignIn \ {t} : owner'[s] = owner[s] /\ user'[s] = user[s]
      BY <2>2, OthersRest DEF Rests
    <3>4. \A i \in DOMAIN identities : identities[i] \in Own(Account[i])
      BY DEF OwnInv
    <3>5. \A s \in SignIn : owner[s] \in Own(Account[s]) /\ user[s] \in Own(Account[s])
      BY DEF OwnInv
    <3>6. \A i \in DOMAIN identities' : identities'[i] \in Own(Account[i])
      BY <3>2, <3>4
    <3>7. \A s \in SignIn : owner'[s] \in Own(Account[s]) /\ user'[s] \in Own(Account[s])
      BY <3>2, <3>3, <3>5
    <3> QED BY <3>1, <3>6, <3>7 DEF OwnInv
  <2> QED BY <2>1, <2>2, NextOneStep
<1> QED BY <1>1, <1>2, SpecTypeInv, PTL DEF Spec

\* An identity only leads to the user of its made-up address, of an address its
\* provider had verified, or of a session it was signed in from (user.rb:25-46).
THEOREM SpecOwnUserOnly == Spec => []OwnUserOnly
<1>1. OwnInv => OwnUserOnly
  BY DEF OwnInv, Own, OwnUserOnly
<1> QED BY <1>1, SpecOwnInv, PTL

-----------------------------------------------------------------------------
(* How many sign-ins are at work.                                          *)

BusyInv == IsFiniteSet(Busy) /\ Cardinality(Busy) <= Threads

LEMMA BusyStep ==
  ASSUME TypeInv, NEW t \in SignIn, OneStep(t)
  PROVE  /\ Busy' \subseteq Busy \cup {t}
         /\ ~Arrives(t) => t \in Busy
         /\ Arrives(t) => Busy' = Busy \cup {t} /\ Cardinality(Busy) < Threads
<1>1. CASE Arrives(t)
  <2>1. pc[t] = "new" /\ pc'[t] = "find" /\ Cardinality(Busy) < Threads
    BY <1>1 DEF Arrives, Go, TypeInv, TypeOK
  <2>2. \A s \in SignIn \ {t} : s \in Busy' <=> s \in Busy
    BY <1>1, OthersRest DEF OneStep, Busy, Rests
  <2>3. t \in Busy'
    BY <2>1 DEF Busy, Ends
  <2> QED BY <1>1, <2>1, <2>2, <2>3 DEF Busy
<1>2. CASE Step(t) \/ Crash(t)
  <2>1. t \in Busy
    BY <1>2 DEF Step, Crash, FindIdentity, ValidateNew, CreateIdentity, ChooseUser, FindUser,
                ValidateUser, InsertUser, ValidateIdentity, SaveIdentity, SaveToken,
                Settles, Go, Busy, Ends
  <2>2. ~Arrives(t)
    BY <2>1 DEF Arrives, Go, Busy
  <2>3. Busy' \subseteq Busy \cup {t}
    BY <1>2, OthersRest DEF OneStep, Busy, Rests
  <2> QED BY <2>1, <2>2, <2>3
<1> QED BY <1>1, <1>2 DEF OneStep

LEMMA BusyKept ==
  ASSUME TypeInv, BusyInv, NEW t \in SignIn, OneStep(t)
  PROVE  BusyInv'
<1>b. IsFiniteSet(Busy) /\ Cardinality(Busy) \in Nat /\ Cardinality(Busy) <= Threads
  BY FS_CardinalityType DEF BusyInv
<1>1. CASE Arrives(t)
  <2>1. Busy' = Busy \cup {t} /\ Cardinality(Busy) < Threads
    BY <1>1, BusyStep
  <2>2. IsFiniteSet(Busy') /\ Cardinality(Busy') <= Cardinality(Busy) + 1
    <3>1. /\ IsFiniteSet(Busy \cup {t})
          /\ \/ Cardinality(Busy \cup {t}) = Cardinality(Busy)
             \/ Cardinality(Busy \cup {t}) = Cardinality(Busy) + 1
      BY <1>b, FS_AddElement
    <3> QED BY <1>b, <2>1, <3>1
  <2>3. Cardinality(Busy') \in Nat
    BY <2>2, FS_CardinalityType
  <2> QED BY <1>b, <2>1, <2>2, <2>3, ThreadsAssumption DEF BusyInv
<1>2. CASE ~Arrives(t)
  <2>1. Busy' \subseteq Busy
    BY <1>2, BusyStep
  <2>2. IsFiniteSet(Busy') /\ Cardinality(Busy') <= Cardinality(Busy)
    BY <1>b, <2>1, FS_Subset
  <2>3. Cardinality(Busy') \in Nat
    BY <2>2, FS_CardinalityType
  <2> QED BY <1>b, <2>2, <2>3, ThreadsAssumption DEF BusyInv
<1> QED BY <1>1, <1>2

\* A part of Busy is as small.
LEMMA BusyBounds ==
  ASSUME BusyInv, NEW S, S \subseteq Busy
  PROVE  IsFiniteSet(S) /\ Cardinality(S) \in Nat /\ Cardinality(S) <= Threads
<1>1. IsFiniteSet(S) /\ Cardinality(S) <= Cardinality(Busy)
  BY FS_Subset DEF BusyInv
<1>2. Cardinality(S) \in Nat /\ Cardinality(Busy) \in Nat
  BY <1>1, FS_CardinalityType DEF BusyInv
<1> QED BY <1>1, <1>2, ThreadsAssumption DEF BusyInv

-----------------------------------------------------------------------------
(* DuplicatesByRaceOnly.                                                   *)

\* A sign-in that has found no row and may still make one.
Makes(t) ==
  /\ row[t] = Nil
  /\ pc[t] \in {"unique", "create", "user", "email", "newUser", "insertUser", "validate", "link"}

\* The rows of an account, and those that may still be made.
Racing(a) == {t \in SignIn : Account[t] = a /\ (t \in DOMAIN identities \/ Makes(t))}

RacingInv == \A a : IsFiniteSet(Racing(a)) /\ Cardinality(Racing(a)) <= Threads

LEMMA MakesStep ==
  ASSUME TypeInv, NEW t \in SignIn, OneStep(t), (t \in DOMAIN identities \/ Makes(t))'
  PROVE  \/ t \in DOMAIN identities \/ Makes(t)
         \/ FindIdentity(t) /\ Rows(t) = {}
<1> USE DEF found, tables
<1>t. TypeOK /\ Placed(t)
  BY DEF TypeInv
<1>l. ASSUME NEW how \in {"failed", "crashed"}, Leaves(t, how)
      PROVE  ~Makes(t)'
  BY <1>l, <1>t DEF Leaves, Makes, TypeOK
<1>1. CASE Arrives(t)
  BY <1>1, <1>t DEF Arrives, Go, Makes, TypeOK
<1>2. CASE FindIdentity(t)
  <2>1. ASSUME NEW i \in Rows(t), row' = [row EXCEPT ![t] = i]
        PROVE  ~Makes(t)'
    BY <2>1, <1>t, NilAssumption DEF Rows, Makes, TypeOK
  <2> QED BY <1>2, <2>1 DEF FindIdentity
<1>3. CASE ValidateNew(t) \/ CreateIdentity(t)
  BY <1>3, <1>t DEF ValidateNew, CreateIdentity, Go, Makes, Placed
<1>5. CASE ChooseUser(t) \/ FindUser(t)
  BY <1>5, <1>t DEF ChooseUser, FindUser, Settles, Go, Makes
<1>7. CASE ValidateUser(t) \/ ValidateIdentity(t)
  BY <1>7, <1>l DEF ValidateUser, ValidateIdentity, Go, Makes
<1>8. CASE InsertUser(t)
  BY <1>8, <1>l DEF InsertUser, Settles, Go, Makes
<1>10. CASE SaveIdentity(t)
  BY <1>10, <1>t, SavedRow DEF SaveIdentity, Saved, Go, Makes, TypeOK
<1>11. CASE SaveToken(t)
  BY <1>11, <1>l, <1>t DEF SaveToken, Go, Makes, TypeOK
<1>12. CASE Crash(t)
  BY <1>12, <1>l DEF Crash
<1> QED BY <1>1, <1>2, <1>3, <1>5, <1>7, <1>8, <1>10, <1>11, <1>12 DEF OneStep, Step

LEMMA RacingKept ==
  ASSUME TypeInv, LinkInv, BusyInv', RacingInv, NEW t \in SignIn, OneStep(t)
  PROVE  RacingInv'
<1> SUFFICES ASSUME NEW a
             PROVE  IsFiniteSet(Racing(a)') /\ Cardinality(Racing(a)') <= Threads
  BY DEF RacingInv
<1>o. \A s \in SignIn \ {t} : (s \in DOMAIN identities \/ Makes(s))' => s \in DOMAIN identities \/ Makes(s)
  BY OthersRest, StepKeepsRows DEF Rests, RowsKept, Makes
<1>1. CASE Racing(a)' \subseteq Racing(a)
  <2>1. IsFiniteSet(Racing(a)) /\ Cardinality(Racing(a)) <= Threads
    BY DEF RacingInv
  <2>2. IsFiniteSet(Racing(a)') /\ Cardinality(Racing(a)') <= Cardinality(Racing(a))
    BY <1>1, <2>1, FS_Subset
  <2>3. Cardinality(Racing(a)) \in Nat /\ Cardinality(Racing(a)') \in Nat
    BY <2>1, <2>2, FS_CardinalityType
  <2> QED BY <2>1, <2>2, <2>3, ThreadsAssumption
<1>2. CASE ~(Racing(a)' \subseteq Racing(a))
  <2>1. t \notin Racing(a) /\ t \in Racing(a)'
    BY <1>2, <1>o DEF Racing
  <2>2. FindIdentity(t) /\ Rows(t) = {} /\ Account[t] = a
    BY <2>1, MakesStep DEF Racing
  <2>3. \A s \in Racing(a)' : Makes(s)'
    BY <2>2 DEF Racing, FindIdentity, tables, Rows
  <2>4. Racing(a)' \subseteq Busy'
    BY <2>3 DEF Makes, Busy, Ends, Racing
  <2>5. IsFiniteSet(Busy') /\ Cardinality(Busy') <= Threads
    BY DEF BusyInv
  <2>6. IsFiniteSet(Racing(a)') /\ Cardinality(Racing(a)') <= Cardinality(Busy')
    BY <2>4, <2>5, FS_Subset
  <2>7. Cardinality(Busy') \in Nat /\ Cardinality(Racing(a)') \in Nat
    BY <2>5, <2>6, FS_CardinalityType
  <2> QED BY <2>5, <2>6, <2>7, ThreadsAssumption
<1> QED BY <1>1, <1>2

-----------------------------------------------------------------------------
(* TokensByRaceOnly.                                                       *)

\* The user a sign-in works for, as far as it is known, and the sign-ins that
\* saw that a user has no token.
Holder(t) == IF user[t] # Nil THEN user[t] ELSE session[t]
Stale(u) == {t \in Busy : tokenless[t] /\ Holder(t) = u}

\* Each of them may give it one more.
TokenInv == \A u \in DOMAIN users : users[u] + Cardinality(Stale(u)) <= Threads

LEMMA StaleStep ==
  ASSUME TypeInv, NEW t \in SignIn, OneStep(t), NEW u \in DOMAIN users', t \in Stale(u)'
  PROVE  t \in Stale(u) \/ users'[u] = 0
<1> USE DEF found, tables
<1>t. TypeOK /\ Placed(t)
  BY DEF TypeInv
<1>u. tokenless'[t] /\ Holder(t)' = u /\ u # Nil /\ pc'[t] \notin Ends
  <2>1. TypeOK'
    BY StepGrows DEF TypeInv
  <2> QED BY <2>1, NilAssumption DEF Stale, Busy, TypeOK
<1>b. ~Arrives(t) => t \in Busy
  BY BusyStep
<1>l. ~Leaves(t, "failed") /\ ~Leaves(t, "crashed")
  BY <1>u, <1>t DEF Leaves, Ends, TypeOK
<1>1. CASE Arrives(t)
  <2>1. PICK v \in Sessions \cup {Nil} :
          /\ session' = [session EXCEPT ![t] = v]
          /\ tokenless' = [tokenless EXCEPT ![t] = v # Nil /\ users[v] = 0]
    BY <1>1 DEF Arrives
  <2>2. user'[t] = Nil /\ session'[t] = v /\ users' = users
    BY <1>1, <1>t, <2>1 DEF Arrives, Go, Placed, Choosing, TypeOK
  <2>3. users[v] = 0
    <3>1. tokenless'[t] <=> v # Nil /\ users[v] = 0
      BY <1>t, <2>1 DEF TypeOK
    <3> QED BY <1>u, <3>1
  <2> QED BY <1>u, <2>2, <2>3 DEF Holder
<1>2. CASE FindIdentity(t) \/ ValidateNew(t) \/ CreateIdentity(t) \/ SaveIdentity(t)
  <2>1. UNCHANGED <<user, session, tokenless>> /\ ~Arrives(t)
    BY <1>2 DEF FindIdentity, ValidateNew, CreateIdentity, SaveIdentity, Arrives, Go
  <2> QED BY <1>u, <1>b, <2>1 DEF Stale, Holder
<1>3. CASE ValidateUser(t) \/ ValidateIdentity(t)
  <2>1. UNCHANGED <<user, session, tokenless>> /\ ~Arrives(t)
    BY <1>3, <1>l DEF ValidateUser, ValidateIdentity, Arrives, Go
  <2> QED BY <1>u, <1>b, <2>1 DEF Stale, Holder
<1>5. CASE ChooseUser(t)
  <2>1. pc[t] = "user" /\ session' = session /\ users' = users /\ user[t] = Nil /\ t \in Busy
    BY <1>5, <1>t, <1>b DEF ChooseUser, Settles, Go, Placed, Choosing, Arrives
  <2>2. CASE session[t] # Nil
    <3>1. Settles(t, "user", session[t], tokenless[t])
      BY <1>5, <2>2 DEF ChooseUser, Chosen
    <3>2. user'[t] = session[t] /\ (tokenless'[t] <=> tokenless[t])
      BY <3>1, <1>t DEF Settles, TypeOK
    <3> QED BY <1>u, <2>1, <2>2, <3>2 DEF Stale, Holder
  <2>3. CASE session[t] = Nil /\ owner[t] # Nil
    <3>1. Settles(t, "user", owner[t], users[owner[t]] = 0)
      BY <1>5, <2>3 DEF ChooseUser, Chosen
    <3>2. user'[t] = owner[t] /\ (tokenless'[t] <=> users[owner[t]] = 0)
      BY <3>1, <1>t DEF Settles, TypeOK
    <3> QED BY <1>u, <2>1, <2>3, <3>2 DEF Holder
  <2>4. CASE Chosen(t) = Nil
    BY <1>5, <1>u, <2>1, <2>4 DEF ChooseUser, Stale, Holder
  <2> QED BY <2>2, <2>3, <2>4 DEF Chosen
<1>6. CASE FindUser(t)
  <2>1. pc[t] = "email" /\ session' = session /\ users' = users /\ t \in Busy
    BY <1>6, <1>b DEF FindUser, Settles, Go, Arrives
  <2>2. CASE KnownEmail(t)
    <3>1. Settles(t, "email", Verified(t), users[Verified(t)] = 0) /\ Verified(t) # Nil
      BY <1>6, <2>2, <1>t, NilAssumption DEF FindUser, KnownEmail, TypeOK
    <3>2. user'[t] = Verified(t) /\ (tokenless'[t] <=> users[Verified(t)] = 0)
      BY <3>1, <1>t DEF Settles, TypeOK
    <3> QED BY <1>u, <2>1, <3>1, <3>2 DEF Holder
  <2>3. CASE ~KnownEmail(t)
    BY <1>6, <1>u, <2>1, <2>3 DEF FindUser, Stale, Holder
  <2> QED BY <2>2, <2>3
<1>8. CASE InsertUser(t)
  <2>1. Settles(t, "insertUser", NewEmail(t), FALSE)
    BY <1>8, <1>l DEF InsertUser
  <2>2. ~tokenless'[t]
    BY <2>1, <1>t DEF Settles, TypeOK
  <2> QED BY <1>u, <2>2
<1>11. CASE SaveToken(t)
  BY <1>11, <1>u, <1>l, <1>t DEF SaveToken, Go, Ends, TypeOK
<1>12. CASE Crash(t)
  BY <1>12, <1>l DEF Crash
<1> QED
  BY <1>1, <1>2, <1>3, <1>5, <1>6, <1>8, <1>11, <1>12 DEF OneStep, Step

\* A token more is a sign-in less that would give one.
LEMMA TokenStep ==
  ASSUME TypeInv, NEW t \in SignIn, OneStep(t), NEW u \in DOMAIN users'
  PROVE  \/ u \in DOMAIN users /\ users'[u] = users[u]
         \/ users'[u] = 1 /\ Stale(u)' = {}
         \/ u \in DOMAIN users /\ users'[u] = users[u] + 1 /\ t \in Stale(u) /\ t \notin Busy'
<1>t. TypeOK /\ Placed(t)
  BY DEF TypeInv
<1>1. CASE InsertUser(t) /\ NewEmail(t) \notin DOMAIN users
  <2>1. /\ DOMAIN users' = DOMAIN users \cup {NewEmail(t)} /\ users'[NewEmail(t)] = 1
        /\ \A v \in DOMAIN users : users'[v] = users[v]
        /\ Settles(t, "insertUser", NewEmail(t), FALSE) /\ session' = session
    BY <1>1, NewUser
  <2>2. CASE u = NewEmail(t)
    <3>1. \A s \in SignIn \ {t} : Rests(s)
      BY OthersRest
    <3>2. u # Nil
      BY <2>2, NewEmailType, NilAssumption
    <3>3. \A s \in SignIn : user[s] # u /\ session[s] # u
      BY <1>1, <1>t, <2>2, <3>2 DEF TypeOK
    <3>4. \A s \in SignIn \ {t} : s \notin Stale(u)'
      BY <3>1, <3>3 DEF Stale, Holder, Rests
    <3>5. t \notin Stale(u)'
      BY <2>1, <1>t DEF Settles, Stale, TypeOK
    <3>6. Stale(u)' = {}
      BY <3>4, <3>5 DEF Stale, Busy
    <3> QED BY <2>1, <2>2, <3>6
  <2>3. CASE u # NewEmail(t)
    BY <2>1, <2>3
  <2> QED BY <2>2, <2>3
<1>2. CASE SaveToken(t) /\ users' # users
  <2>1. /\ Go(t, "token", "done") /\ users' = [users EXCEPT ![user[t]] = @ + 1]
    BY <1>2 DEF SaveToken
  <2>2. pc[t] = "token" /\ pc'[t] = "done" /\ tokenless[t] /\ user[t] # Nil
    BY <2>1, <1>t DEF Go, Placed, Chose, TypeOK
  <2>3. t \in Stale(user[t]) /\ t \notin Busy'
    BY <2>2 DEF Stale, Busy, Ends, Holder
  <2> QED BY <2>1, <2>3, <1>t DEF TypeOK
<1>3. CASE users' = users
  BY <1>3
<1> QED
  BY <1>1, <1>2, <1>3
     DEF OneStep, Step, Arrives, FindIdentity, ValidateNew, CreateIdentity, ChooseUser, FindUser,
         ValidateUser, InsertUser, ValidateIdentity, SaveIdentity, Crash, tables

LEMMA TokenKept ==
  ASSUME TypeInv, BusyInv, BusyInv', TokenInv, NEW t \in SignIn, OneStep(t)
  PROVE  TokenInv'
<1> SUFFICES ASSUME NEW u \in DOMAIN users'
             PROVE  users'[u] + Cardinality(Stale(u)') <= Threads
  BY DEF TokenInv
<1>f. /\ IsFiniteSet(Stale(u)) /\ Cardinality(Stale(u)) \in Nat
      /\ IsFiniteSet(Stale(u)') /\ Cardinality(Stale(u)') \in Nat /\ Cardinality(Stale(u)') <= Threads
  <2>1. Stale(u) \subseteq Busy /\ Stale(u)' \subseteq Busy'
    BY DEF Stale
  <2>2. IsFiniteSet(Stale(u)) /\ Cardinality(Stale(u)) \in Nat
    BY <2>1, BusyBounds
  <2>3. IsFiniteSet(Busy') /\ Cardinality(Busy') <= Threads
    BY DEF BusyInv
  <2>4. IsFiniteSet(Stale(u)') /\ Cardinality(Stale(u)') <= Cardinality(Busy')
    BY <2>1, <2>3, FS_Subset
  <2>5. Cardinality(Stale(u)') \in Nat /\ Cardinality(Busy') \in Nat
    BY <2>3, <2>4, FS_CardinalityType
  <2> QED BY <2>2, <2>3, <2>4, <2>5, ThreadsAssumption
<1>n. users'[u] \in Nat /\ (u \in DOMAIN users => users[u] \in Nat)
  BY StepGrows DEF TypeInv, TypeOK
<1>1. CASE users'[u] = 0
  BY <1>1, <1>f, ThreadsAssumption
<1>2. CASE users'[u] # 0
  <2>1. Stale(u)' \subseteq Stale(u)
    <3>1. \A s \in SignIn \ {t} : s \in Stale(u)' => s \in Stale(u)
      BY OthersRest DEF Stale, Busy, Holder, Rests
    <3>2. t \in Stale(u)' => t \in Stale(u)
      BY <1>2, StaleStep
    <3> QED BY <3>1, <3>2 DEF Stale, Busy
  <2>2. CASE u \in DOMAIN users /\ users'[u] = users[u]
    <3>1. Cardinality(Stale(u)') <= Cardinality(Stale(u))
      BY <1>f, <2>1, FS_Subset
    <3>2. users[u] + Cardinality(Stale(u)) <= Threads
      BY <2>2 DEF TokenInv
    <3> QED BY <1>f, <1>n, <2>2, <3>1, <3>2, ThreadsAssumption
  <2>3. CASE users'[u] = 1 /\ Stale(u)' = {}
    BY <2>3, FS_EmptySet, ThreadsAssumption
  <2>4. CASE u \in DOMAIN users /\ users'[u] = users[u] + 1 /\ t \in Stale(u) /\ t \notin Busy'
    <3>1. Stale(u)' \subseteq Stale(u) \ {t}
      BY <2>1, <2>4 DEF Stale
    <3>2. IsFiniteSet(Stale(u) \ {t}) /\ Cardinality(Stale(u) \ {t}) = Cardinality(Stale(u)) - 1
      BY <1>f, <2>4, FS_RemoveElement
    <3>3. Cardinality(Stale(u)') <= Cardinality(Stale(u) \ {t})
      BY <3>1, <3>2, FS_Subset
    <3>4. users[u] + Cardinality(Stale(u)) <= Threads
      BY <2>4 DEF TokenInv
    <3> QED BY <1>f, <1>n, <2>4, <3>2, <3>3, <3>4, ThreadsAssumption
  <2> QED BY <2>2, <2>3, <2>4, TokenStep
<1> QED BY <1>1, <1>2

\* All of the above holds together.
CountInv == IInv /\ BusyInv /\ RacingInv /\ TokenInv

THEOREM SpecCountInv == Spec => []CountInv
<1>1. Init => BusyInv /\ RacingInv /\ TokenInv
  <2> SUFFICES ASSUME Init PROVE BusyInv /\ RacingInv /\ TokenInv
    OBVIOUS
  <2>1. Busy = {}
    BY DEF Init, Busy
  <2>2. \A a : Racing(a) = {}
    BY DEF Init, Racing, Makes
  <2>3. \A u : Stale(u) = {}
    BY <2>1 DEF Stale
  <2>4. \A u \in DOMAIN users : users[u] = 0
    BY DEF Init
  <2>5. IsFiniteSet({}) /\ Cardinality({}) = 0
    BY FS_EmptySet
  <2> QED BY <2>1, <2>2, <2>3, <2>4, <2>5, ThreadsAssumption DEF BusyInv, RacingInv, TokenInv
<1>2. CountInv /\ IInv' /\ [Next]_vars => CountInv'
  <2> SUFFICES ASSUME CountInv, IInv', [Next]_vars PROVE BusyInv' /\ RacingInv' /\ TokenInv'
    BY DEF CountInv
  <2>i. TypeInv /\ LinkInv /\ BusyInv /\ RacingInv /\ TokenInv
    BY DEF CountInv, IInv
  <2>1. CASE UNCHANGED vars
    <3>1. /\ Busy' = Busy /\ \A a : Racing(a)' = Racing(a)
          /\ \A u : Stale(u)' = Stale(u)
      BY <2>1 DEF vars, tables, found, Busy, Racing, Makes, Stale, Holder
    <3>2. BusyInv' /\ RacingInv'
      BY <2>i, <3>1 DEF BusyInv, RacingInv
    <3>3. users' = users
      BY <2>1 DEF vars, tables
    <3> QED BY <2>i, <3>1, <3>2, <3>3 DEF TokenInv
  <2>2. ASSUME NEW t \in SignIn, OneStep(t) PROVE BusyInv' /\ RacingInv' /\ TokenInv'
    BY <2>2, <2>i, BusyKept, RacingKept, TokenKept
  <2> QED BY <2>1, <2>2, NextOneStep
<1> QED BY <1>1, <1>2, SpecLinkInv, PTL DEF Spec, CountInv

LEMMA RowsBounded ==
  ASSUME RacingInv, NEW t \in SignIn, TypeOK
  PROVE  IsFiniteSet(Rows(t)) /\ Cardinality(Rows(t)) <= Threads
<1>1. Rows(t) \subseteq Racing(Account[t])
  BY DEF Rows, Racing, TypeOK
<1>2. IsFiniteSet(Racing(Account[t])) /\ Cardinality(Racing(Account[t])) <= Threads
  BY DEF RacingInv
<1>3. IsFiniteSet(Rows(t)) /\ Cardinality(Rows(t)) <= Cardinality(Racing(Account[t]))
  BY <1>1, <1>2, FS_Subset
<1>4. Cardinality(Rows(t)) \in Nat /\ Cardinality(Racing(Account[t])) \in Nat
  BY <1>2, <1>3, FS_CardinalityType
<1> QED BY <1>2, <1>3, <1>4, ThreadsAssumption

\* Sign-ins that find no identity together each make one (identity.rb:4-7): an
\* account never has more rows than there are threads, and one with one thread.
THEOREM SpecDuplicatesByRaceOnly == Spec => []DuplicatesByRaceOnly
<1>1. CountInv => DuplicatesByRaceOnly
  BY RowsBounded DEF CountInv, IInv, TypeInv, DuplicatesByRaceOnly, Rows
<1> QED BY <1>1, SpecCountInv, PTL

\* Sign-ins that find a user without a token together each give it one, and
\* the last one stays (user.rb:61-64): again no more than there are threads.
THEOREM SpecTokensByRaceOnly == Spec => []TokensByRaceOnly
<1>1. CountInv => TokensByRaceOnly
  <2> SUFFICES ASSUME CountInv, NEW u \in DOMAIN users PROVE users[u] <= Threads
    BY DEF TokensByRaceOnly
  <2>1. users[u] + Cardinality(Stale(u)) <= Threads /\ users[u] \in Nat
    BY DEF CountInv, TokenInv, IInv, TypeInv, TypeOK
  <2>2. Cardinality(Stale(u)) \in Nat
    BY BusyBounds DEF CountInv, Stale
  <2> QED BY <2>1, <2>2, ThreadsAssumption
<1> QED BY <1>1, SpecCountInv, PTL

-----------------------------------------------------------------------------
(* FailsForACause and MovesForACause.                                      *)

\* What a sign-in beside which no other runs has read is still true.
Lonely(t) ==
  alone[t] /\ t \in Busy =>
    /\ Busy = {t}
    /\ row[t] # Nil => owner[t] = identities[row[t]]
    /\ row[t] = Nil /\ pc[t] # "find" => Rows(t) = {}
    /\ pc[t] \in {"newUser", "insertUser"} => Verified(t) \notin DOMAIN users
    /\ pc[t] = "insertUser" => NewEmail(t) \notin DOMAIN users

AloneInv == \A t \in SignIn : Lonely(t)

LEMMA OthersLonely ==
  ASSUME TypeInv, AloneInv, NEW t \in SignIn, OneStep(t), NEW s \in SignIn \ {t}
  PROVE  Lonely(s)'
<1> SUFFICES ASSUME alone'[s], s \in Busy' PROVE FALSE
  BY DEF Lonely
<1>1. s \in Busy /\ Rests(s)
  BY OthersRest DEF Busy, Rests
<1>2. CASE Arrives(t)
  BY <1>1, <1>2 DEF Arrives
<1>3. CASE ~Arrives(t)
  <2>1. alone' = alone
    BY <1>3 DEF OneStep, Step, Crash, FindIdentity, ValidateNew, CreateIdentity, ChooseUser,
                FindUser, ValidateUser, InsertUser, ValidateIdentity, SaveIdentity, SaveToken
  <2>2. Busy = {s}
    BY <1>1, <2>1 DEF AloneInv, Lonely
  <2> QED BY <1>3, <2>2, BusyStep
<1> QED BY <1>2, <1>3

LEMMA SelfLonely ==
  ASSUME TypeInv, LinkInv, AloneInv, NEW t \in SignIn, OneStep(t)
  PROVE  Lonely(t)'
<1> USE DEF found, tables
<1> SUFFICES ASSUME alone'[t], t \in Busy' PROVE Lonely(t)'
  BY DEF Lonely
<1>t. TypeOK /\ Placed(t)
  BY DEF TypeInv
<1>l. ~Leaves(t, "failed") /\ ~Leaves(t, "crashed")
  BY <1>t DEF Leaves, Busy, Ends, TypeOK
<1>1. CASE Arrives(t)
  <2>1. Busy = {} /\ pc'[t] = "find" /\ row'[t] = Nil
    BY <1>1, <1>t DEF Arrives, Go, Placed, TypeOK
  <2>2. Busy' = {t}
    BY <1>1, <2>1, BusyStep
  <2> QED BY <2>1, <2>2 DEF Lonely
<1>n. CASE ~Arrives(t)
  <2>1. alone' = alone
    BY <1>n DEF OneStep, Step, Crash, FindIdentity, ValidateNew, CreateIdentity, ChooseUser,
                FindUser, ValidateUser, InsertUser, ValidateIdentity, SaveIdentity, SaveToken
  <2>2. /\ Busy = {t} /\ Busy' = {t}
        /\ row[t] # Nil => owner[t] = identities[row[t]]
        /\ row[t] = Nil /\ pc[t] # "find" => Rows(t) = {}
        /\ pc[t] \in {"newUser", "insertUser"} => Verified(t) \notin DOMAIN users
    BY <1>n, <2>1, BusyStep DEF AloneInv, Lonely
  <2>u. \A u \in DOMAIN users : u # Nil
    BY <1>t, NilAssumption DEF TypeOK
  <2>3. CASE FindIdentity(t)
    <3>1. pc'[t] \in {"user", "unique"} /\ UNCHANGED tables
      BY <2>3, <1>t DEF FindIdentity, Go, TypeOK
    <3>2. CASE Rows(t) = {} /\ UNCHANGED found
      <4>1. row[t] = Nil
        BY <2>3, <1>t DEF FindIdentity, Go, Placed
      <4> QED BY <2>2, <3>1, <3>2, <4>1 DEF Lonely, Rows
    <3>3. ASSUME NEW i \in Rows(t), row' = [row EXCEPT ![t] = i],
                 owner' = [owner EXCEPT ![t] = identities[i]]
          PROVE  Lonely(t)'
      <4>1. row'[t] = i /\ owner'[t] = identities[i] /\ i # Nil
        BY <3>3, <1>t, NilAssumption DEF Rows, TypeOK
      <4> QED BY <2>2, <3>1, <4>1 DEF Lonely
    <3> QED BY <2>3, <3>2, <3>3 DEF FindIdentity
  <2>4. CASE ValidateNew(t)
    <3>1. pc'[t] \in {"create", "user"} /\ pc[t] # "find" /\ UNCHANGED <<tables, found>>
      BY <2>4, <1>t DEF ValidateNew, Go, TypeOK
    <3> QED BY <2>2, <3>1 DEF Lonely, Rows
  <2>5. CASE CreateIdentity(t)
    <3>1. pc[t] = "create" /\ pc'[t] = "user" /\ row'[t] = t /\ owner' = owner /\ Insert(t, Nil)
      BY <2>5, <1>t DEF CreateIdentity, Go, TypeOK
    <3>2. owner[t] = Nil /\ t # Nil
      BY <3>1, <1>t, NilAssumption DEF Placed
    <3>3. identities'[t] = Nil
      BY <3>1 DEF Insert
    <3> QED BY <2>2, <3>1, <3>2, <3>3 DEF Lonely
  <2>6. CASE ChooseUser(t) \/ FindUser(t)
    <3>1. UNCHANGED <<tables, found>> /\ pc[t] # "find" /\ pc'[t] # "insertUser"
      BY <2>6, <1>t DEF ChooseUser, FindUser, Settles, Left, Go, TypeOK
    <3>2. pc'[t] = "newUser" => Verified(t) \notin DOMAIN users
      BY <2>6, <2>u, <1>t DEF ChooseUser, FindUser, KnownEmail, Settles, Left, Go, TypeOK
    <3> QED BY <2>2, <3>1, <3>2 DEF Lonely, Rows, Verified
  <2>7. CASE ValidateUser(t)
    <3>1. /\ UNCHANGED <<tables, found>> /\ pc[t] = "newUser" /\ pc'[t] = "insertUser"
          /\ NewEmail(t) \notin DOMAIN users
      BY <2>7, <1>l, <1>t DEF ValidateUser, Go, TypeOK
    <3> QED BY <2>2, <3>1 DEF Lonely, Rows, Verified, NewEmail
  <2>8. CASE InsertUser(t)
    <3>1. UNCHANGED <<identities, found>> /\ pc[t] = "insertUser"
          /\ pc'[t] \in {"validate", "token", "done"}
      BY <2>8, <1>l, <1>t DEF InsertUser, Settles, Left, Go, TypeOK
    <3> QED BY <2>2, <3>1 DEF Lonely, Rows
  <2>9. CASE ValidateIdentity(t)
    <3>1. UNCHANGED <<tables, found>> /\ pc[t] = "validate" /\ pc'[t] = "link"
      BY <2>9, <1>l, <1>t DEF ValidateIdentity, Go, TypeOK
    <3> QED BY <2>2, <3>1 DEF Lonely, Rows
  <2>10. CASE SaveIdentity(t)
    <3>1. row' = [row EXCEPT ![t] = Saved(t)] /\ identities'[Saved(t)] = user[t] /\ Saved(t) # Nil
      BY <2>10, SavedRow
    <3>2. row'[t] = Saved(t) /\ owner'[t] = user[t] /\ pc'[t] \in {"token", "done"}
      BY <2>10, <3>1, <1>t DEF SaveIdentity, Go, TypeOK
    <3> QED BY <2>2, <3>1, <3>2 DEF Lonely
  <2>11. CASE SaveToken(t)
    <3>1. pc'[t] = "done"
      BY <2>11, <1>l, <1>t DEF SaveToken, Go, TypeOK
    <3> QED BY <3>1 DEF Busy, Ends
  <2>12. CASE Crash(t)
    BY <2>12, <1>l DEF Crash
  <2> QED
    BY <1>n, <2>3, <2>4, <2>5, <2>6, <2>7, <2>8, <2>9, <2>10, <2>11, <2>12 DEF OneStep, Step
<1> QED BY <1>1, <1>n

\* All that is known.
FullInv == CountInv /\ AloneInv

THEOREM SpecFullInv == Spec => []FullInv
<1>1. Init => AloneInv
  BY DEF Init, AloneInv, Lonely
<1>2. FullInv /\ CountInv' /\ [Next]_vars => FullInv'
  <2> SUFFICES ASSUME FullInv, CountInv', [Next]_vars PROVE AloneInv'
    BY DEF FullInv
  <2>1. CASE UNCHANGED vars
    BY <2>1 DEF vars, tables, found, FullInv, AloneInv, Lonely, Busy, Rows
  <2>2. ASSUME NEW t \in SignIn, OneStep(t) PROVE AloneInv'
    BY <2>2, OthersLonely, SelfLonely DEF FullInv, CountInv, IInv, AloneInv
  <2> QED BY <2>1, <2>2, NextOneStep
<1> QED BY <1>1, <1>2, SpecCountInv, PTL DEF Spec, FullInv

\* A sign-in fails at one of its validations or at the unique index.
LEMMA FailsWhere ==
  ASSUME TypeInv, NEW t \in SignIn, OneStep(t), pc[t] # "failed", pc'[t] = "failed"
  PROVE  \/ pc[t] \in {"newUser", "insertUser"} /\ NewEmail(t) \in DOMAIN users
         \/ pc[t] = "validate" /\ ~OnlyRow(t)
         \/ pc[t] = "token" /\ user[t] \in Overfull
<1>t. TypeOK
  BY DEF TypeInv
<1>1. ASSUME NEW from, NEW to \in PC \ {"failed"}, Go(t, from, to)
      PROVE  FALSE
  BY <1>1, <1>t DEF Go, TypeOK
<1>2. \A u, m : Left(t, u, m) \in PC \ {"failed"}
  BY DEF Left, PC, Ends
<1>3. ASSUME NEW from, NEW u, NEW m, Settles(t, from, u, m) PROVE FALSE
  BY <1>1, <1>2, <1>3 DEF Settles
<1>4. ASSUME Leaves(t, "crashed") PROVE FALSE
  BY <1>4, <1>t DEF Leaves, TypeOK
<1>p. {"find", "user", "unique", "create", "email", "newUser", "insertUser", "link", "token", "done"}
        \subseteq PC \ {"failed"}
  BY DEF PC, Ends
<1>5. ~Arrives(t) /\ ~FindIdentity(t) /\ ~ValidateNew(t) /\ ~CreateIdentity(t) /\ ~SaveIdentity(t)
  BY <1>1, <1>p DEF Arrives, FindIdentity, ValidateNew, CreateIdentity, SaveIdentity
<1>6. ~ChooseUser(t) /\ ~FindUser(t)
  BY <1>1, <1>3, <1>p DEF ChooseUser, FindUser
<1>7. ~Crash(t)
  BY <1>4 DEF Crash
<1>8. ValidateUser(t) => pc[t] = "newUser" /\ NewEmail(t) \in DOMAIN users
  BY <1>1, <1>p DEF ValidateUser
<1>9. InsertUser(t) => pc[t] = "insertUser" /\ NewEmail(t) \in DOMAIN users
  BY <1>3 DEF InsertUser
<1>10. ValidateIdentity(t) => pc[t] = "validate" /\ ~OnlyRow(t)
  BY <1>1, <1>p DEF ValidateIdentity
<1>11. SaveToken(t) => pc[t] = "token" /\ user[t] \in Overfull
  BY <1>1, <1>p DEF SaveToken
<1> QED BY <1>5, <1>6, <1>7, <1>8, <1>9, <1>10, <1>11 DEF OneStep, Step

\* A set with two members has more than one.
LEMMA TwoMembers ==
  ASSUME NEW S, IsFiniteSet(S), NEW x \in S, NEW y \in S, x # y
  PROVE  Cardinality(S) > 1
<1>1. IsFiniteSet(S \ {x}) /\ Cardinality(S \ {x}) = Cardinality(S) - 1
  BY FS_RemoveElement
<1>2. Cardinality(S \ {x}) # 0
  BY <1>1, FS_EmptySet
<1> QED BY <1>1, <1>2, FS_CardinalityType

\* A sign-in that no other runs beside fails only for what earlier ones left
\* behind: duplicates of its identity, too many hubs, or a user without identity
\* under an address it is not looked for by, being made up (41) or not spelt as
\* Devise stores it (39, devise.rb:48, 53).  With a verified address in that
\* spelling it recovers from a sign-in that was stopped anywhere (user.rb:34-51).
THEOREM SpecFailsForACause == Spec => FailsForACause
<1>1. ASSUME FullInv, [Next]_vars, NEW t \in SignIn, alone[t], pc[t] # "failed", pc'[t] = "failed"
      PROVE  \/ Cardinality(Rows(t)) > 1
             \/ Orphaned(t) /\ Verified(t) # NewEmail(t)
             \/ user[t] \in Overfull
  <2>i. TypeInv /\ TypeOK /\ Placed(t) /\ Linked(t) /\ Lonely(t) /\ RacingInv
    BY <1>1 DEF FullInv, CountInv, IInv, TypeInv, LinkInv, AloneInv
  <2>1. OneStep(t)
    <3>1. pc' # pc
      BY <1>1
    <3>2. PICK s \in SignIn : OneStep(s)
      BY <1>1, <3>1, NextOneStep DEF vars
    <3>3. s = t
      BY <1>1, <2>i, <3>2, OthersRest DEF Rests
    <3> QED BY <3>2, <3>3
  <2>2. IsFiniteSet(Rows(t))
    BY <2>i, RowsBounded
  <2>3. row[t] # Nil => row[t] \in Rows(t)
    BY <2>i DEF TypeOK, Rows
  <2>4. ~Arrives(t) /\ t \in Busy
    <3>1. ~Arrives(t)
      BY <1>1, <2>i DEF Arrives, Go, TypeOK
    <3> QED BY <2>1, <2>i, <3>1, BusyStep
  <2>5. CASE pc[t] \in {"newUser", "insertUser"} /\ NewEmail(t) \in DOMAIN users
    <3>1. pc[t] = "newUser" /\ Verified(t) \notin DOMAIN users
      BY <1>1, <2>i, <2>4, <2>5 DEF Lonely
    <3>2. NewEmail(t) \in DOMAIN users /\ Verified(t) # NewEmail(t)
      BY <2>5, <3>1
    <3>3. owner[t] = Nil
      BY <2>i, <3>1 DEF Placed
    <3>4. CASE \E i \in Rows(t) : i # row[t]
      <4>1. row[t] # Nil
        BY <1>1, <2>i, <2>4, <3>1, <3>4 DEF Lonely
      <4> QED BY <2>2, <2>3, <3>4, <4>1, TwoMembers
    <3>5. CASE \A i \in Rows(t) : i = row[t]
      <4>1. \A i \in Rows(t) : identities[i] = Nil
        <5>1. row[t] # Nil => identities[row[t]] = Nil
          BY <1>1, <2>i, <2>4, <3>3 DEF Lonely
        <5>2. row[t] = Nil => Rows(t) = {}
          BY <1>1, <2>i, <2>4, <3>1 DEF Lonely
        <5> QED BY <3>5, <5>1, <5>2
      <4> QED BY <3>2, <4>1 DEF Orphaned
    <3> QED BY <3>4, <3>5
  <2>6. CASE pc[t] = "validate" /\ ~OnlyRow(t)
    <3>1. PICK i \in Rows(t) : i # row[t]
      BY <2>6 DEF OnlyRow
    <3>2. row[t] # Nil
      BY <1>1, <2>i, <2>4, <2>6, <3>1 DEF Lonely
    <3> QED BY <2>2, <2>3, <3>1, <3>2, TwoMembers
  <2> QED BY <1>1, <2>1, <2>i, <2>5, <2>6, FailsWhere
<1>2. FullInv /\ [Next]_vars =>
        \A t \in SignIn :
          alone[t] /\ pc[t] # "failed" /\ pc'[t] = "failed" =>
            \/ Cardinality(Rows(t)) > 1
            \/ Orphaned(t) /\ Verified(t) # NewEmail(t)
            \/ user[t] \in Overfull
  BY <1>1
<1> QED BY <1>2, SpecFullInv, PTL DEF Spec, FailsForACause

\* An identity that has a user is given another one only by a sign-in from a
\* session, or by two sign-ins at once: an address that changed or was verified
\* since does not move it (user.rb:25-29).
THEOREM SpecMovesForACause == Spec => MovesForACause
<1>1. ASSUME FullInv, [Next]_vars, NEW i \in DOMAIN identities,
             identities[i] # Nil, identities'[i] # identities[i]
      PROVE  \E t \in SignIn :
               /\ row[t] = i /\ pc[t] = "link" /\ pc'[t] # "link"
               /\ session[t] # Nil \/ ~alone[t]
  <2>1. PICK t \in SignIn : OneStep(t)
    BY <1>1, NextOneStep DEF vars, tables
  <2>i. TypeInv /\ TypeOK /\ Placed(t) /\ Linked(t) /\ Lonely(t)
    BY <1>1 DEF FullInv, CountInv, IInv, TypeInv, LinkInv, AloneInv
  <2>2. ~CreateIdentity(t)
    <3> SUFFICES ASSUME CreateIdentity(t) PROVE FALSE
      OBVIOUS
    <3>1. Insert(t, Nil) /\ t \notin DOMAIN identities
      BY <2>i DEF CreateIdentity, Go, Linked
    <3> QED BY <1>1, <3>1 DEF Insert
  <2>3. SaveIdentity(t)
    BY <1>1, <2>1, <2>2
       DEF OneStep, Step, Arrives, FindIdentity, ValidateNew, ChooseUser, FindUser, ValidateUser,
           InsertUser, ValidateIdentity, SaveToken, Crash, tables
  <2>4. pc[t] = "link" /\ pc'[t] \in {"token", "done"}
    BY <2>3, <2>i DEF SaveIdentity, Go, TypeOK
  <2>5. i = Saved(t)
    BY <1>1, <2>3, <2>i, SavedRow
  <2>6. row[t] # Nil
    BY <1>1, <2>4, <2>5, <2>i, NilAssumption DEF Saved, Linked
  <2>7. row[t] = i
    BY <2>5, <2>6 DEF Saved
  <2>8. session[t] # Nil \/ ~alone[t]
    <3> SUFFICES ASSUME alone[t], session[t] = Nil PROVE FALSE
      OBVIOUS
    <3>1. owner[t] = Nil
      BY <2>4, <2>i DEF Placed
    <3>2. t \in Busy
      BY <2>4 DEF Busy, Ends
    <3> QED BY <1>1, <2>i, <2>6, <2>7, <3>1, <3>2 DEF Lonely
  <2> QED BY <2>4, <2>7, <2>8
<1>2. FullInv /\ [Next]_vars =>
        \A i \in DOMAIN identities :
          identities[i] # Nil /\ identities'[i] # identities[i] =>
            \E t \in SignIn :
              /\ row[t] = i /\ pc[t] = "link" /\ pc'[t] # "link"
              /\ session[t] # Nil \/ ~alone[t]
  BY <1>1
<1> QED BY <1>2, SpecFullInv, PTL DEF Spec, MovesForACause

=============================================================================
