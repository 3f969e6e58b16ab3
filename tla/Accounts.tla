------------------------------- MODULE Accounts -------------------------------
(***************************************************************************)
(* Signing in with an account of a provider: User.find_for_oauth of        *)
(* models/user.rb, which finds or makes a row of identities for the        *)
(* account and a row of users for its owner, and links them.               *)
(*                                                                         *)
(* It runs in concurrent threads, a statement at a time, with no           *)
(* transaction around it.  Behind its validations, which are SELECTs,      *)
(* there is a unique index on users.email and none on identities.          *)
(***************************************************************************)
EXTENDS Integers, FiniteSets

CONSTANTS
  SignIn,    \* callbacks from the provider, and the identities they make
  Account,   \* the account, (uid, provider), of each
  Info,      \* what the provider says of it: [email, verified]
  TempEmail, \* the address made up for an account, not@provided-...
  Stored,    \* [addresses -> as Devise stores them, in lower case and stripped]
  Legacy,    \* users from before the column users.token, by address
  Overfull,  \* users who may have more hubs than user.rb:5 allows
  Nil,
  Threads    \* Puma's threads

\* Addresses a row of users may have.
Emails == {Stored[Info[t].email] : t \in SignIn} \cup {Stored[TempEmail[Account[t]]] : t \in SignIn}
            \cup Legacy

ASSUME NilAssumption == Nil \notin Emails \cup {Info[t].email : t \in SignIn} \cup SignIn
ASSUME ThreadsAssumption == Threads \in Nat \ {0}
ASSUME StoredAssumption == \A e \in Emails : Stored[e] = e
ASSUME TempEmailAssumption ==
  \A t, u \in SignIn :
    LET e == Stored[TempEmail[Account[t]]] IN
    /\ e = Stored[TempEmail[Account[u]]] => Account[t] = Account[u]
    /\ e # Stored[Info[u].email] /\ e \notin Legacy

VARIABLES
  users,       \* [addresses with a user -> tokens it has been given]
  identities,  \* [rows that exist -> address of the row's user, or Nil]
  required,    \* new_framework_defaults.rb:18, unless set after Active Record is loaded
  pc,          \* where each sign-in is
  session,     \* signed_in_resource
  row, owner,  \* identity: its row, or Nil if not saved, and identity.user
  user,        \* user
  tokenless,   \* user.token.nil?
  alone        \* of a sign-in at work: no other has run beside it

tables == <<users, identities, required>>
found  == <<row, owner>>
vars   == <<tables, pc, session, found, user, tokenless, alone>>

Init ==
  /\ users = [e \in Legacy |-> 0] /\ identities = <<>>
  /\ required \in BOOLEAN
  /\ pc = [t \in SignIn |-> "new"]
  /\ session = [t \in SignIn |-> Nil]
  /\ row = [t \in SignIn |-> Nil] /\ owner = [t \in SignIn |-> Nil]
  /\ user = [t \in SignIn |-> Nil] /\ tokenless = [t \in SignIn |-> FALSE]
  /\ alone = [t \in SignIn |-> FALSE]

-----------------------------------------------------------------------------
(* What a sign-in computes.                                                *)

Ends == {"done", "failed", "crashed"}
Busy == {t \in SignIn : pc[t] \notin Ends \cup {"new"}}

\* Users a browser may be signed in as.
Sessions == Legacy \cup {user[t] : t \in {s \in SignIn : pc[s] = "done"}}

\* Mutant: the provider's word is not asked for.
Verified_Always(t) == Info[t].email

\* The address of the account as the provider spells it, if it has verified it.
Verified(t) == IF Info[t].verified THEN Info[t].email ELSE Nil

\* The address a new user gets: Devise converts it before the validation.
NewEmail(t) == Stored[IF Verified(t) # Nil THEN Verified(t) ELSE TempEmail[Account[t]]]

\* Mutants: the account is not looked at; only rows without a user are.
Rows_AnyAccount(t) == DOMAIN identities
Rows_NoUser(t) == {i \in DOMAIN identities : Account[i] = Account[t] /\ identities[i] = Nil}

\* Rows with the account of a sign-in.
Rows(t) == {i \in DOMAIN identities : Account[i] = Account[t]}

\* Mutant: an address that is known goes first.
Chosen_EmailFirst(t) ==
  IF session[t] # Nil THEN session[t] ELSE IF Verified(t) \in DOMAIN users THEN Verified(t) ELSE owner[t]

\* Who signs in, as far as session and identity tell.
Chosen(t) == IF session[t] # Nil THEN session[t] ELSE owner[t]

\* Mutants: each sign-in gives a new token; after that nothing is saved.
Left_NewToken(t, u, missing) == IF owner[t] # u THEN "validate" ELSE "token"
Left_TokenFirst(t, u, missing) ==
  IF missing THEN "token" ELSE IF owner[t] # u THEN "validate" ELSE "done"

\* What is left to do once the user is u.
Left(t, u, missing) ==
  IF owner[t] # u THEN "validate" ELSE IF missing THEN "token" ELSE "done"

Go(t, from, to) == pc[t] = from /\ pc' = [pc EXCEPT ![t] = to]

\* The thread leaves find_for_oauth, and what it held in memory is gone.
Leaves(t, how) ==
  /\ pc' = [pc EXCEPT ![t] = how]
  /\ row' = [row EXCEPT ![t] = Nil] /\ owner' = [owner EXCEPT ![t] = Nil]
  /\ user' = [user EXCEPT ![t] = Nil] /\ tokenless' = [tokenless EXCEPT ![t] = FALSE]

\* The user is u, whose token may be missing.
Settles(t, from, u, missing) ==
  /\ Go(t, from, Left(t, u, missing))
  /\ user' = [user EXCEPT ![t] = u]
  /\ tokenless' = [tokenless EXCEPT ![t] = missing]

-----------------------------------------------------------------------------
(* The steps of a sign-in.                                                 *)

\* A thread is free; current_user is loaded.
Arrives(t) ==
  /\ Cardinality(Busy) < Threads
  /\ Go(t, "new", "find")
  /\ \E u \in Sessions \cup {Nil} :
       /\ session' = [session EXCEPT ![t] = u]
       /\ tokenless' = [tokenless EXCEPT ![t] = u # Nil /\ users[u] = 0]
  /\ alone' = [s \in SignIn |-> s = t /\ Busy = {}]
  /\ UNCHANGED <<tables, found, user>>

\* find_or_create_by.  A new identity has no user yet: if one is required it
\* is not valid, and stays unsaved.
FindIdentity(t) ==
  /\ \/ /\ Go(t, "find", "user")
        /\ \E i \in Rows(t) :
             /\ row' = [row EXCEPT ![t] = i]
             /\ owner' = [owner EXCEPT ![t] = identities[i]]
     \/ /\ Rows(t) = {}
        /\ Go(t, "find", IF required THEN "user" ELSE "unique")
        /\ UNCHANGED found
  /\ UNCHANGED <<tables, session, user, tokenless, alone>>

\* validates_uniqueness_of :uid; create returns the unsaved record if it fails.
ValidateNew(t) ==
  /\ Go(t, "unique", IF Rows(t) = {} THEN "create" ELSE "user")
  /\ UNCHANGED <<tables, session, found, user, tokenless, alone>>

Insert(t, u) == identities' = [i \in DOMAIN identities \cup {t} |-> IF i = t THEN u ELSE identities[i]]

CreateIdentity(t) ==
  /\ Go(t, "create", "user")
  /\ Insert(t, Nil)
  /\ row' = [row EXCEPT ![t] = t]
  /\ UNCHANGED <<users, required, session, owner, user, tokenless, alone>>

\* The session's user, or else identity.user, which is loaded now.
ChooseUser(t) ==
  LET u == Chosen(t) IN
  /\ IF u # Nil
       THEN Settles(t, "user", u, IF session[t] # Nil THEN tokenless[t] ELSE users[u] = 0)
       ELSE Go(t, "user", IF Verified(t) # Nil THEN "email" ELSE "newUser") /\ UNCHANGED <<user, tokenless>>
  /\ UNCHANGED <<tables, session, found, alone>>

\* Mutant: users are not looked for by their address.
KnownEmail_Never(t) == FALSE

\* A user has this address in this spelling.
KnownEmail(t) == Verified(t) \in DOMAIN users

\* User.where(email: email).first, which converts nothing.
FindUser(t) ==
  /\ IF KnownEmail(t)
       THEN Settles(t, "email", Verified(t), users[Verified(t)] = 0)
       ELSE Go(t, "email", "newUser") /\ UNCHANGED <<user, tokenless>>
  /\ UNCHANGED <<tables, session, found, alone>>

\* User.new(...).save! validates the uniqueness of the address, by Devise ...
ValidateUser(t) ==
  /\ pc[t] = "newUser"
  /\ IF NewEmail(t) \in DOMAIN users
       THEN Leaves(t, "failed")
       ELSE Go(t, "newUser", "insertUser") /\ UNCHANGED <<found, user, tokenless>>
  /\ UNCHANGED <<tables, session, alone>>

\* ... and inserts the row, with a token, unless the unique index refuses it.
InsertUser(t) ==
  LET e == NewEmail(t) IN
  /\ \/ /\ e \notin DOMAIN users
        /\ users' = [f \in DOMAIN users \cup {e} |-> IF f = e THEN 1 ELSE users[f]]
        /\ Settles(t, "insertUser", e, FALSE)
        /\ UNCHANGED found
     \/ /\ pc[t] = "insertUser" /\ e \in DOMAIN users
        /\ Leaves(t, "failed")
        /\ UNCHANGED users
  /\ UNCHANGED <<identities, required, session, alone>>

\* No other row has the account.
OnlyRow(t) == Rows(t) \subseteq {row[t]}

\* identity.save! validates its uniqueness again ...
ValidateIdentity(t) ==
  /\ pc[t] = "validate"
  /\ IF OnlyRow(t)
       THEN Go(t, "validate", "link") /\ UNCHANGED <<found, user, tokenless>>
       ELSE Leaves(t, "failed")
  /\ UNCHANGED <<tables, session, alone>>

\* ... and writes its row, or a new one.
SaveIdentity(t) ==
  /\ Go(t, "link", IF tokenless[t] THEN "token" ELSE "done")
  /\ IF row[t] = Nil THEN Insert(t, user[t]) ELSE identities' = [identities EXCEPT ![row[t]] = user[t]]
  /\ row' = [row EXCEPT ![t] = IF @ = Nil THEN t ELSE @]
  /\ owner' = [owner EXCEPT ![t] = user[t]]
  /\ UNCHANGED <<users, required, session, user, tokenless, alone>>

\* user.save! with a new token validates the number of hubs as well.
SaveToken(t) ==
  /\ \/ /\ Go(t, "token", "done")
        /\ users' = [users EXCEPT ![user[t]] = @ + 1]
        /\ UNCHANGED <<found, user, tokenless>>
     \/ /\ pc[t] = "token" /\ user[t] \in Overfull
        /\ Leaves(t, "failed")
        /\ UNCHANGED users
  /\ UNCHANGED <<identities, required, session, alone>>

\* The process is killed, or a statement fails for other reasons than these.
Crash(t) ==
  /\ t \in Busy
  /\ Leaves(t, "crashed")
  /\ UNCHANGED <<tables, session, alone>>

Step(t) ==
  \/ FindIdentity(t) \/ ValidateNew(t) \/ CreateIdentity(t) \/ ChooseUser(t) \/ FindUser(t)
  \/ ValidateUser(t) \/ InsertUser(t) \/ ValidateIdentity(t) \/ SaveIdentity(t) \/ SaveToken(t)

Next == \E t \in SignIn : Arrives(t) \/ Step(t) \/ Crash(t)

Spec == Init /\ [][Next]_vars

-----------------------------------------------------------------------------
(* Type invariant.                                                         *)

PC == Ends \cup {"new", "find", "unique", "create", "user", "email", "newUser", "insertUser",
                 "validate", "link", "token"}

\* Every variable keeps its type; a sign-in works on a row of its own account,
\* for a user that exists.
TypeOK ==
  /\ DOMAIN users \subseteq Emails /\ users \in [DOMAIN users -> Nat]
  /\ DOMAIN identities \subseteq SignIn /\ identities \in [DOMAIN identities -> DOMAIN users \cup {Nil}]
  /\ required \in BOOLEAN /\ pc \in [SignIn -> PC]
  /\ session \in [SignIn -> DOMAIN users \cup {Nil}]
  /\ row \in [SignIn -> DOMAIN identities \cup {Nil}]
  /\ \A t \in SignIn : row[t] # Nil => Account[row[t]] = Account[t]
  /\ owner \in [SignIn -> DOMAIN users \cup {Nil}]
  /\ user \in [SignIn -> DOMAIN users \cup {Nil}]
  /\ tokenless \in [SignIn -> BOOLEAN] /\ alone \in [SignIn -> BOOLEAN]

-----------------------------------------------------------------------------
(* Safety.                                                                 *)

\* Sign-ins that find no identity together each make one (identity.rb:4-7): an
\* account never has more rows than there are threads, and one with one thread.
DuplicatesByRaceOnly ==
  \A t \in SignIn : Cardinality({i \in DOMAIN identities : Account[i] = Account[t]}) <= Threads

\* Sign-ins that find a user without a token together each give it one, and
\* the last one stays (user.rb:61-64): again no more than there are threads.
TokensByRaceOnly == \A u \in DOMAIN users : users[u] <= Threads

\* Whoever raced it, a sign-in that succeeds leaves a saved identity that has a
\* user, and its user has a token to put into the SmartApp (user.rb:55-64).
DoneIsLinked ==
  \A t \in SignIn :
    pc[t] = "done" =>
      /\ row[t] \in DOMAIN identities /\ identities[row[t]] # Nil
      /\ user[t] \in DOMAIN users /\ users[user[t]] > 0

\* An identity only leads to the user of its made-up address, of an address its
\* provider had verified, or of a session it was signed in from (user.rb:25-46).
OwnUserOnly ==
  \A i \in DOMAIN identities :
    identities[i] \in
      {Nil, Stored[TempEmail[Account[i]]]} \cup
      UNION {{session[t]} \cup (IF Info[t].verified THEN {Stored[Info[t].email]} ELSE {})
             : t \in {s \in SignIn : Account[s] = Account[i]}}

-----------------------------------------------------------------------------
(* Action properties.                                                      *)

\* The address that a new user for the account would get has one, to which none of
\* its rows leads: it belongs to someone else, or a sign-in stopped between
\* user.save! and identity.save!.
Orphaned(t) == NewEmail(t) \in DOMAIN users /\ \A i \in Rows(t) : identities[i] = Nil

\* A sign-in that no other runs beside fails only for what earlier ones left
\* behind: duplicates of its identity, too many hubs, or a user without identity
\* under an address it is not looked for by, being made up (41) or not spelt as
\* Devise stores it (39, devise.rb:48, 53).  With a verified address in that
\* spelling it recovers from a sign-in that was stopped anywhere (user.rb:34-51).
FailsForACause ==
  [][\A t \in SignIn :
       alone[t] /\ pc[t] # "failed" /\ pc'[t] = "failed" =>
         \/ Cardinality(Rows(t)) > 1
         \/ Orphaned(t) /\ Verified(t) # NewEmail(t)
         \/ user[t] \in Overfull]_vars

\* An identity that has a user is given another one only by a sign-in from a
\* session, or by two sign-ins at once: an address that changed or was verified
\* since does not move it (user.rb:25-29).
MovesForACause ==
  [][\A i \in DOMAIN identities :
       identities[i] # Nil /\ identities'[i] # identities[i] =>
         \E t \in SignIn :
           /\ row[t] = i /\ pc[t] = "link" /\ pc'[t] # "link"
           /\ session[t] # Nil \/ ~alone[t]]_vars

=============================================================================
