--------------------------- MODULE OnboardingProofs ---------------------------
(***************************************************************************)
(* Proofs about Onboarding for any requests, emails and package sizes.     *)
(*                                                                         *)
(* The invariants build on each other: types and roles; rows held by the   *)
(* transaction that made them (Held); what the last flush before a commit  *)
(* wrote (Flushed); registrations and purchases whole (Whole); rules and   *)
(* accounts that fit (Fitting); one seed (OneSeed); and what holds while   *)
(* requests come one at a time (OneAtATime).  Each action has a lemma that *)
(* says what it changes; the invariants' steps cite it.                    *)
(***************************************************************************)
EXTENDS Onboarding, FiniteSetTheorems, TLAPS

(* The rows and requests the program can hold.                             *)
AllEmails == Emails \union {AdminEmail, DemoEmail}
Sizes     == PackageSizes \union {IndiaSize, DemoSize, CoreSize}
Makers    == Requests \union {Operator}
Names     == {"India Index Prop Challenge", "Core Trading Sandbox"}

UserRows       == [email : AllEmails, by : Makers]
ChallengeRows  == [name : Names, by : Requests]
RuleRows       == [challenge : ChallengeRows, size : Sizes, by : Requests]
AccountRows    == [user : AllEmails, challenge : ChallengeRows, rule : RuleRows,
                   size : Sizes, by : Requests]
PurchaseRows   == [user : AllEmails, size : PackageSizes, by : Requests,
                   status : {"PENDING_VERIFICATION", "APPROVED"},
                   account : AccountRows \union {None}]
PackageRows    == [size : PackageSizes, by : Makers]
InstrumentRows == [by : Makers]
Rows == UserRows \union ChallengeRows \union RuleRows \union AccountRows
          \union PurchaseRows \union PackageRows \union InstrumentRows

RowsTyped(rows) ==
  /\ rows["users"] \subseteq UserRows /\ rows["challenges"] \subseteq ChallengeRows
  /\ rows["rules"] \subseteq RuleRows /\ rows["accounts"] \subseteq AccountRows
  /\ rows["purchases"] \subseteq PurchaseRows /\ rows["packages"] \subseteq PackageRows
  /\ rows["instruments"] \subseteq InstrumentRows

Seeding == {"admin", "insertAdmin", "demo", "insertDemo", "packages", "instruments",
            "insertInstruments", "signin"}
Stages  == Ended \union Seeding \union
             {"waiting", "lookup", "challenge", "rule", "user", "account", "approve", "commit"}
RequestStates == [pc : Stages, email : AllEmails \union {None},
                  purchase : PurchaseRows \union {None},
                  challenge : ChallengeRows \union {None}, rule : RuleRows \union {None}]

Typed ==
  /\ bootstrap \in BOOLEAN /\ overlapped \in BOOLEAN
  /\ db \in [Tables -> SUBSET Rows] /\ RowsTyped(db)
  /\ own \in [Requests -> [Tables -> SUBSET Rows]]
  /\ \A r \in Requests : RowsTyped(own[r])
  /\ req \in [Requests -> RequestStates]

(* Which request does what, and what it has to do it with.                 *)
RoleOf(r) ==
  /\ req[r].pc \in Seeding => r \in Logins
  /\ req[r].pc \in {"lookup", "user"} => r \in Registrations \union Creations
  /\ req[r].pc \in {"challenge", "rule"} => r \in Registrations \union Approvals
  /\ req[r].pc \in {"account", "approve"} => r \in Approvals
  /\ req[r].pc = "commit" => r \notin Approvals
  /\ r \in Registrations \union Creations /\ UnderWay(r) => req[r].email \in Emails
  /\ r \in Approvals /\ req[r].pc # "waiting" => req[r].purchase \in PurchaseRows
  /\ req[r].pc = "rule" => req[r].challenge \in ChallengeRows
  /\ req[r].pc \in {"account", "approve"} \/ (req[r].pc = "user" /\ r \in Registrations) =>
       req[r].challenge \in ChallengeRows /\ req[r].rule \in RuleRows
Roles == \A r \in Requests : RoleOf(r)

(* What a step of r leaves alone, and how it moves r on.                   *)
Alone(r) == /\ \A s \in Requests \ {r} : req'[s] = req[s] /\ own'[s] = own[s]
            /\ UNCHANGED bootstrap
Same(r) == /\ req'[r].email = req[r].email /\ req'[r].purchase = req[r].purchase
           /\ req'[r].challenge = req[r].challenge /\ req'[r].rule = req[r].rule
Proceeds(r, from, to) == req[r].pc = from /\ req'[r].pc = to /\ Same(r)
Ends(r, from, to) == /\ req[r].pc = from /\ req'[r].pc = to
                     /\ req'[r].purchase = req[r].purchase
                     /\ own'[r] = NoRows /\ UNCHANGED <<db, overlapped>>
Quiet == UNCHANGED <<own, db, overlapped>>

(* Moving a request on changes its stage and nothing else of it.           *)
LEMMA GoEffect ==
  ASSUME Typed, NEW r \in Requests, NEW pc \in Stages, Go(r, pc)
  PROVE  /\ req' \in [Requests -> RequestStates]
         /\ req'[r] = [req[r] EXCEPT !.pc = pc]
         /\ req'[r].pc = pc
         /\ req'[r].email = req[r].email /\ req'[r].purchase = req[r].purchase
         /\ req'[r].challenge = req[r].challenge /\ req'[r].rule = req[r].rule
         /\ \A s \in Requests \ {r} : req'[s] = req[s]
BY DEF Go, Typed, RequestStates

(* A request that is over keeps what it approved; its other variables go.  *)
LEMMA OverEffect ==
  ASSUME Typed, NEW r \in Requests, NEW pc \in Stages, Over(r, pc)
  PROVE  /\ req' \in [Requests -> RequestStates]
         /\ req'[r].pc = pc
         /\ req'[r].purchase = req[r].purchase
         /\ \A s \in Requests \ {r} : req'[s] = req[s]
BY DEF Over, Typed, RequestStates

(* A transaction without rows.                                             *)
LEMMA NoRowsTyped ==
  /\ NoRows \in [Tables -> SUBSET Rows] /\ RowsTyped(NoRows)
  /\ \A t \in Tables : NoRows[t] = {}
BY DEF NoRows, RowsTyped, Tables

(* A rollback, or the close of a session that wrote nothing, leaves the    *)
(* database as it was.                                                     *)
LEMMA EndEffect ==
  ASSUME Typed, NEW r \in Requests, NEW pc \in Stages, End(r, pc)
  PROVE  /\ req' \in [Requests -> RequestStates]
         /\ req'[r].pc = pc
         /\ req'[r].purchase = req[r].purchase
         /\ \A s \in Requests \ {r} : req'[s] = req[s] /\ own'[s] = own[s]
         /\ own' \in [Requests -> [Tables -> SUBSET Rows]]
         /\ own'[r] = NoRows
         /\ \A s \in Requests : RowsTyped(own'[s])
         /\ db' = db
BY OverEffect, NoRowsTyped DEF End, Typed

OwnRows == [Requests -> [Tables -> SUBSET Rows]]

(* A user's row and its account become the transaction's.                  *)
Inserts(r, email, accounts, pc) ==
         /\ db' = db /\ req'[r].pc = pc
         /\ req'[r].email = req[r].email /\ req'[r].purchase = req[r].purchase
         /\ ~HasUser(db["users"], email)
         /\ \A s \in Requests \ {r} : ~HasUser(own[s]["users"], email)
         /\ req'[r].challenge = req[r].challenge /\ req'[r].rule = req[r].rule
         /\ own'[r]["users"] = own[r]["users"] \union {[email |-> email, by |-> r]}
         /\ own'[r]["accounts"] = own[r]["accounts"] \union accounts
         /\ \A t \in Tables \ {"users", "accounts"} : own'[r][t] = own[r][t]

(* flush: the unique email raises and rolls back, or the user's row and    *)
(* its account are the transaction's.                                      *)
LEMMA InsertEffect ==
  ASSUME Typed, NEW r \in Requests, NEW pc \in Stages, NEW email \in AllEmails,
         NEW accounts \in SUBSET AccountRows, Insert(r, email, accounts, pc)
  PROVE  /\ req' \in [Requests -> RequestStates]
         /\ own' \in [Requests -> [Tables -> SUBSET Rows]]
         /\ \A s \in Requests : RowsTyped(own'[s])
         /\ \A s \in Requests \ {r} : req'[s] = req[s] /\ own'[s] = own[s]
         /\ \/ HasUser(db["users"], email) /\ req'[r].pc = "raised" /\ own'[r] = NoRows
               /\ db' = db /\ req'[r].purchase = req[r].purchase
            \/ Inserts(r, email, accounts, pc)
<1>1. CASE HasUser(db["users"], email) /\ End(r, "raised")
  BY <1>1, EndEffect DEF Stages, Ended
<1>2. CASE /\ ~HasUser(db["users"], email)
           /\ \A s \in Requests \ {r} : ~HasUser(own[s]["users"], email)
           /\ own' = [own EXCEPT ![r]["users"] = @ \union {[email |-> email, by |-> r]},
                                 ![r]["accounts"] = @ \union accounts]
           /\ Go(r, pc) /\ UNCHANGED db
  <2>1. [email |-> email, by |-> r] \in UserRows
    BY DEF UserRows, Makers
  <2>0. PICK new : new = {[email |-> email, by |-> r]}
    OBVIOUS
  <2>2. new \in SUBSET Rows /\ accounts \in SUBSET Rows /\ new \subseteq UserRows
    BY <2>0, <2>1 DEF Rows
  <2>3. "users" \in Tables /\ "accounts" \in Tables /\ own \in OwnRows
    BY DEF Tables, OwnRows, Typed
  <2>4. own' = [own EXCEPT ![r]["users"] = @ \union new, ![r]["accounts"] = @ \union accounts]
    BY <1>2, <2>0
  <2>6. /\ own' \in OwnRows
        /\ own'[r]["users"] = own[r]["users"] \union new
        /\ own'[r]["accounts"] = own[r]["accounts"] \union accounts
        /\ \A t \in Tables \ {"users", "accounts"} : own'[r][t] = own[r][t]
        /\ \A s \in Requests \ {r} : own'[s] = own[s]
    BY <2>2, <2>3, <2>4 DEF OwnRows
  <2>7. RowsTyped(own'[r])
    BY <2>2, <2>6 DEF Typed, RowsTyped, Tables
  <2>8. \A s \in Requests : RowsTyped(own'[s])
    BY <2>6, <2>7 DEF Typed
  <2>9. own'[r]["users"] = own[r]["users"] \union {[email |-> email, by |-> r]}
    BY <2>6, <2>0
  <2> QED BY <1>2, <2>6, <2>8, <2>9, GoEffect DEF Inserts, OwnRows
<1> QED BY <1>1, <1>2 DEF Insert

(* The steps of ensure_seed_data: each lemma says what the step reads,     *)
(* adds and leaves alone. The first selects the administrator.             *)
LEMMA SelectAdminEffect ==
  ASSUME Typed, NEW r \in Requests, SelectAdmin(r)
  PROVE  /\ Typed' /\ Alone(r) /\ Quiet
         /\ Proceeds(r, "admin", IF bootstrap /\ ~HasUser(View(r, "users"), AdminEmail)
                                THEN "insertAdmin" ELSE "demo")
<1> DEFINE pc == IF bootstrap /\ ~HasUser(View(r, "users"), AdminEmail)
                 THEN "insertAdmin" ELSE "demo"
<1>1. pc \in Stages
  BY DEF Stages, Seeding
<1>2. req[r].pc = "admin" /\ UNCHANGED <<bootstrap, overlapped, db, own>> /\ Go(r, pc)
  BY DEF SelectAdmin, Steps
<1> HIDE DEF pc
<1>3. Typed' /\ Alone(r) /\ Quiet /\ Proceeds(r, "admin", pc)
  BY <1>1, <1>2, GoEffect DEF Typed, Alone, Quiet, Proceeds, Same, Steps
<1> QED BY <1>3 DEF pc

(* The administrator is inserted, or another transaction has committed it  *)
(* first.                                                                  *)
LEMMA InsertAdminEffect ==
  ASSUME Typed, NEW r \in Requests, InsertAdmin(r)
  PROVE  /\ Typed' /\ Alone(r)
         /\ \/ HasUser(db["users"], AdminEmail) /\ Ends(r, "insertAdmin", "raised")
            \/ Proceeds(r, "insertAdmin", "demo") /\ Inserts(r, AdminEmail, {}, "demo")
<1>1. /\ req[r].pc = "insertAdmin" /\ UNCHANGED <<bootstrap, overlapped>>
      /\ Insert(r, AdminEmail, {}, "demo")
  BY DEF InsertAdmin, Steps
<1>2. "demo" \in Stages /\ AdminEmail \in AllEmails /\ {} \in SUBSET AccountRows
  BY DEF Stages, Seeding, AllEmails
<1> QED BY <1>1, <1>2, InsertEffect DEF Typed, Alone, Ends, Proceeds, Same, Inserts

(* The demo user is selected; without one its challenge and rule are added *)
(* first.                                                                  *)
LEMMA SelectDemoEffect ==
  ASSUME Typed, NEW r \in Requests, SelectDemo(r)
  PROVE  /\ Typed' /\ Alone(r) /\ UNCHANGED <<db, overlapped>>
         /\ \/ /\ Proceeds(r, "demo", "packages") /\ Quiet
               /\ ~(bootstrap /\ ~HasUser(View(r, "users"), DemoEmail))
            \/ /\ Proceeds(r, "demo", "insertDemo")
               /\ bootstrap /\ ~HasUser(View(r, "users"), DemoEmail)
               /\ own'[r]["challenges"] = own[r]["challenges"] \union {India(r)}
               /\ own'[r]["rules"] = own[r]["rules"] \union {IndiaRule(r)}
               /\ \A t \in Tables \ {"challenges", "rules"} : own'[r][t] = own[r][t]
<1>1. "packages" \in Stages /\ "insertDemo" \in Stages
  BY DEF Stages, Seeding
<1>2. req[r].pc = "demo" /\ UNCHANGED <<bootstrap, overlapped, db>>
  BY DEF SelectDemo, Steps
<1>3. CASE bootstrap /\ ~HasUser(View(r, "users"), DemoEmail)
  <2>1. /\ own' = [own EXCEPT ![r]["challenges"] = @ \union {India(r)},
                              ![r]["rules"] = @ \union {IndiaRule(r)}]
        /\ Go(r, "insertDemo")
    BY <1>3 DEF SelectDemo
  <2>2. India(r) \in ChallengeRows /\ IndiaRule(r) \in RuleRows
    BY DEF India, IndiaRule, ChallengeRows, RuleRows, Names, Sizes
  <2>3. {India(r)} \in SUBSET Rows /\ {IndiaRule(r)} \in SUBSET Rows
    BY <2>2 DEF Rows
  <2>4. "challenges" \in Tables /\ "rules" \in Tables
    BY DEF Tables
  <2>5. /\ own' \in [Requests -> [Tables -> SUBSET Rows]]
        /\ own'[r]["challenges"] = own[r]["challenges"] \union {India(r)}
        /\ own'[r]["rules"] = own[r]["rules"] \union {IndiaRule(r)}
        /\ \A t \in Tables \ {"challenges", "rules"} : own'[r][t] = own[r][t]
        /\ \A s \in Requests \ {r} : own'[s] = own[s]
    BY <2>1, <2>3, <2>4 DEF Typed
  <2>6. RowsTyped(own'[r])
    BY <2>2, <2>5 DEF Typed, RowsTyped, Tables
  <2>7. \A s \in Requests : RowsTyped(own'[s])
    BY <2>5, <2>6 DEF Typed
  <2>8. Typed'
    BY <1>1, <1>2, <2>1, <2>5, <2>7, GoEffect DEF Typed
  <2> QED BY <1>1, <1>2, <1>3, <2>1, <2>5, <2>8, GoEffect DEF Alone, Proceeds, Same
<1>4. CASE ~(bootstrap /\ ~HasUser(View(r, "users"), DemoEmail))
  <2>1. Go(r, "packages") /\ UNCHANGED own
    BY <1>4 DEF SelectDemo
  <2> QED BY <1>1, <1>2, <1>4, <2>1, GoEffect DEF Typed, Alone, Quiet, Proceeds, Same
<1> QED BY <1>3, <1>4

(* The demo user is inserted with the account for it, or the email raises. *)
LEMMA InsertDemoEffect ==
  ASSUME Typed, NEW r \in Requests, InsertDemo(r)
  PROVE  /\ Typed' /\ Alone(r)
         /\ \/ HasUser(db["users"], DemoEmail) /\ Ends(r, "insertDemo", "raised")
            \/ /\ Proceeds(r, "insertDemo", "packages")
               /\ Inserts(r, DemoEmail, {Account(r, DemoEmail, India(r), IndiaRule(r), DemoSize)},
                          "packages")
<1>1. PICK accounts : accounts = {Account(r, DemoEmail, India(r), IndiaRule(r), DemoSize)}
  OBVIOUS
<1>2. /\ req[r].pc = "insertDemo" /\ UNCHANGED <<bootstrap, overlapped>>
      /\ Insert(r, DemoEmail, accounts, "packages")
  BY <1>1 DEF InsertDemo, Steps
<1>3. "packages" \in Stages /\ DemoEmail \in AllEmails
  BY DEF Stages, Seeding, AllEmails
<1>4. India(r) \in ChallengeRows /\ IndiaRule(r) \in RuleRows
  BY DEF India, IndiaRule, ChallengeRows, RuleRows, Names, Sizes
<1>5. accounts \in SUBSET AccountRows
  BY <1>1, <1>3, <1>4 DEF Account, AccountRows, Sizes
<1>6. /\ Typed' /\ Alone(r)
      /\ \/ HasUser(db["users"], DemoEmail) /\ Ends(r, "insertDemo", "raised")
         \/ Proceeds(r, "insertDemo", "packages") /\ Inserts(r, DemoEmail, accounts, "packages")
  BY <1>2, <1>3, <1>5, InsertEffect DEF Typed, Alone, Ends, Proceeds, Same, Inserts
<1> QED BY <1>1, <1>6

(* Rows added to one table of a transaction.                               *)
Added(r, t, rows) ==
  own'[r][t] = own[r][t] \union rows /\ \A u \in Tables \ {t} : own'[r][u] = own[r][u]

(* Rows added to one table are the transaction's, and no other's.          *)
LEMMA AddsEffect ==
  ASSUME Typed, NEW r \in Requests, NEW t \in Tables, NEW rows \in SUBSET Rows, Adds(r, t, rows)
  PROVE  /\ own' \in [Requests -> [Tables -> SUBSET Rows]] /\ Added(r, t, rows)
         /\ \A s \in Requests \ {r} : own'[s] = own[s]
BY DEF Typed, Adds, Added

(* Packages are added when the transaction sees none.                      *)
LEMMA SeedPackagesEffect ==
  ASSUME Typed, NEW r \in Requests, SeedPackages(r)
  PROVE  /\ Typed' /\ Alone(r) /\ UNCHANGED <<db, overlapped>>
         /\ Proceeds(r, "packages", "instruments")
         /\ \/ Quiet /\ ~(bootstrap /\ View(r, "packages") = {})
            \/ /\ bootstrap /\ View(r, "packages") = {}
               /\ Added(r, "packages", [size : PackageSizes, by : {r}])
<1>1. "instruments" \in Stages /\ "packages" \in Tables
  BY DEF Stages, Seeding, Tables
<1>2. PICK rows : rows = [size : PackageSizes, by : {r}]
  OBVIOUS
<1>3. rows \in SUBSET Rows /\ rows \subseteq PackageRows
  BY <1>2 DEF Rows, PackageRows, Makers
<1>4. /\ req[r].pc = "packages" /\ UNCHANGED <<bootstrap, overlapped, db>> /\ Go(r, "instruments")
      /\ \/ UNCHANGED own /\ ~(bootstrap /\ View(r, "packages") = {})
         \/ bootstrap /\ View(r, "packages") = {} /\ Adds(r, "packages", rows)
  BY <1>2 DEF SeedPackages, Steps
<1>5. CASE UNCHANGED own /\ ~(bootstrap /\ View(r, "packages") = {})
  BY <1>1, <1>4, <1>5, GoEffect DEF Typed, Alone, Quiet, Proceeds, Same
<1>6. CASE bootstrap /\ View(r, "packages") = {} /\ Adds(r, "packages", rows)
  <2>1. /\ own' \in [Requests -> [Tables -> SUBSET Rows]] /\ Added(r, "packages", rows)
        /\ \A s \in Requests \ {r} : own'[s] = own[s]
    BY <1>1, <1>3, <1>6, AddsEffect
  <2>2. \A s \in Requests : RowsTyped(own'[s])
    BY <1>3, <2>1 DEF Typed, RowsTyped, Added, Tables
  <2>3. Typed' /\ Alone(r) /\ Proceeds(r, "packages", "instruments")
    BY <1>1, <1>4, <2>1, <2>2, GoEffect DEF Typed, Alone, Proceeds, Same
  <2> QED BY <1>2, <1>4, <1>6, <2>1, <2>3
<1> QED BY <1>4, <1>5, <1>6

(* Instruments are to be inserted when the transaction sees none.          *)
LEMMA SeedInstrumentsEffect ==
  ASSUME Typed, NEW r \in Requests, SeedInstruments(r)
  PROVE  /\ Typed' /\ Alone(r) /\ Quiet
         /\ \/ /\ Proceeds(r, "instruments", "insertInstruments")
               /\ bootstrap /\ View(r, "instruments") = {}
            \/ /\ Proceeds(r, "instruments", "commit")
               /\ ~(bootstrap /\ View(r, "instruments") = {})
<1>1. PICK pc : pc = IF bootstrap /\ View(r, "instruments") = {} THEN "insertInstruments" ELSE "commit"
  OBVIOUS
<1>2. pc \in Stages
  BY <1>1 DEF Stages, Seeding
<1>3. req[r].pc = "instruments" /\ Go(r, pc) /\ UNCHANGED <<bootstrap, overlapped, db, own>>
  BY <1>1 DEF SeedInstruments, Steps
<1>4. Typed' /\ Alone(r) /\ Quiet /\ Proceeds(r, "instruments", pc)
  BY <1>2, <1>3, GoEffect DEF Typed, Alone, Quiet, Proceeds, Same
<1> QED BY <1>1, <1>4

(* The commit's flush: another's committed instruments raise, another's    *)
(* uncommitted ones are waited for, and where there are none they are      *)
(* added.                                                                  *)
LEMMA InsertInstrumentsEffect ==
  ASSUME Typed, NEW r \in Requests, InsertInstruments(r)
  PROVE  /\ Typed' /\ Alone(r) /\ UNCHANGED <<db, overlapped>>
         /\ \/ Ends(r, "insertInstruments", "raised") /\ db["instruments"] # {}
            \/ /\ Proceeds(r, "insertInstruments", "commit") /\ db["instruments"] = {}
               /\ \A s \in Requests \ {r} : own[s]["instruments"] = {}
               /\ Added(r, "instruments", {[by |-> r]})
<1>1. "commit" \in Stages /\ "raised" \in Stages /\ "instruments" \in Tables
  BY DEF Stages, Ended, Tables
<1>2. PICK rows : rows = {[by |-> r]}
  OBVIOUS
<1>3. rows \in SUBSET Rows /\ rows \subseteq InstrumentRows
  BY <1>2 DEF Rows, InstrumentRows, Makers
<1>4. /\ req[r].pc = "insertInstruments" /\ UNCHANGED <<bootstrap, overlapped>>
      /\ \/ db["instruments"] # {} /\ End(r, "raised")
         \/ /\ db["instruments"] = {} /\ \A s \in Requests \ {r} : own[s]["instruments"] = {}
            /\ Adds(r, "instruments", rows) /\ Go(r, "commit") /\ UNCHANGED db
  BY <1>2 DEF InsertInstruments, Steps
<1>5. CASE db["instruments"] # {} /\ End(r, "raised")
  BY <1>1, <1>4, <1>5, EndEffect DEF Typed, Alone, Ends
<1>6. CASE /\ db["instruments"] = {} /\ \A s \in Requests \ {r} : own[s]["instruments"] = {}
           /\ Adds(r, "instruments", rows) /\ Go(r, "commit") /\ UNCHANGED db
  <2>1. /\ own' \in [Requests -> [Tables -> SUBSET Rows]] /\ Added(r, "instruments", rows)
        /\ \A s \in Requests \ {r} : own'[s] = own[s]
    BY <1>1, <1>3, <1>6, AddsEffect
  <2>2. \A s \in Requests : RowsTyped(own'[s])
    BY <1>3, <2>1 DEF Typed, RowsTyped, Added, Tables
  <2>3. Typed' /\ Alone(r) /\ Proceeds(r, "insertInstruments", "commit")
    BY <1>1, <1>4, <1>6, <2>1, <2>2, GoEffect DEF Typed, Alone, Proceeds, Same
  <2> QED BY <1>2, <1>4, <1>6, <2>1, <2>3
<1> QED BY <1>4, <1>5, <1>6

(* The login after the seed answers or refuses, and writes nothing.        *)
LEMMA SignInEffect ==
  ASSUME Typed, NEW r \in Requests, SignIn(r)
  PROVE  /\ Typed' /\ Alone(r)
         /\ Ends(r, "signin", "answered") \/ Ends(r, "signin", "refused")
<1>1. "answered" \in Stages /\ "refused" \in Stages
  BY DEF Stages, Ended
<1>2. /\ req[r].pc = "signin" /\ UNCHANGED <<bootstrap, overlapped>>
      /\ End(r, "answered") \/ End(r, "refused")
  BY DEF SignIn, Steps
<1> QED BY <1>1, <1>2, EndEffect DEF Typed, Alone, Ends

(* register and create_admin_user go on with an email that is not taken.   *)
LEMMA LookUpEmailEffect ==
  ASSUME Typed, NEW r \in Requests, LookUpEmail(r)
  PROVE  /\ Typed' /\ Alone(r)
         /\ \/ HasUser(View(r, "users"), req[r].email) /\ Ends(r, "lookup", "refused")
            \/ /\ ~HasUser(View(r, "users"), req[r].email) /\ Quiet
               /\ Proceeds(r, "lookup", IF r \in Registrations THEN "challenge" ELSE "user")
<1>1. "refused" \in Stages /\ "challenge" \in Stages /\ "user" \in Stages
  BY DEF Stages, Ended
<1>2. req[r].pc = "lookup" /\ UNCHANGED <<bootstrap, overlapped>>
  BY DEF LookUpEmail, Steps
<1>3. CASE HasUser(View(r, "users"), req[r].email)
  BY <1>1, <1>2, <1>3, EndEffect DEF LookUpEmail, Typed, Alone, Ends
<1>4. CASE ~HasUser(View(r, "users"), req[r].email)
  <2>1. /\ Go(r, IF r \in Registrations THEN "challenge" ELSE "user")
        /\ UNCHANGED <<db, own>>
    BY <1>4 DEF LookUpEmail
  <2> QED BY <1>1, <1>2, <1>4, <2>1, GoEffect DEF Typed, Alone, Quiet, Proceeds, Same
<1> QED BY <1>3, <1>4

(* The registered or created user is inserted, a registered one with its   *)
(* account.                                                                *)
LEMMA InsertUserEffect ==
  ASSUME Typed, NEW r \in Requests, RoleOf(r), InsertUser(r)
  PROVE  /\ Typed' /\ Alone(r)
         /\ \/ HasUser(db["users"], req[r].email) /\ Ends(r, "user", "raised")
            \/ /\ Proceeds(r, "user", "commit")
               /\ Inserts(r, req[r].email,
                          IF r \in Creations THEN {}
                          ELSE {Account(r, req[r].email, req[r].challenge, req[r].rule, CoreSize)},
                          "commit")
<1>1. PICK accounts : accounts =
        IF r \in Creations THEN {}
        ELSE {Account(r, req[r].email, req[r].challenge, req[r].rule, CoreSize)}
  OBVIOUS
<1>e. PICK email : email = req[r].email
  OBVIOUS
<1>2. /\ req[r].pc = "user" /\ UNCHANGED <<bootstrap, overlapped>>
      /\ Insert(r, email, accounts, "commit")
  BY <1>1, <1>e DEF InsertUser, Steps
<1>3. "commit" \in Stages /\ email \in AllEmails
  BY <1>2, <1>e DEF Stages, RoleOf, AllEmails, UnderWay, Ended
<1>5. accounts \in SUBSET AccountRows
  <2>1. CASE r \in Creations
    BY <1>1, <2>1
  <2>2. CASE r \notin Creations
    <3>1. req[r].challenge \in ChallengeRows /\ req[r].rule \in RuleRows
      BY <1>2, <2>2 DEF RoleOf
    <3> QED BY <1>1, <1>e, <1>3, <2>2, <3>1 DEF Account, AccountRows, Sizes
  <2> QED BY <2>1, <2>2
<1>6. /\ Typed' /\ Alone(r)
      /\ \/ HasUser(db["users"], email) /\ Ends(r, "user", "raised")
         \/ Proceeds(r, "user", "commit") /\ Inserts(r, email, accounts, "commit")
  BY <1>2, <1>3, <1>5, InsertEffect DEF Typed, Alone, Ends, Proceeds, Same, Inserts
<1> QED BY <1>1, <1>e, <1>6

EnsuresChallenge(r, found) ==
  \/ Cardinality(found) > 1 /\ Ends(r, "challenge", "raised")
  \/ /\ UNCHANGED <<db, overlapped>>
     /\ req[r].pc = "challenge" /\ req'[r].pc = "rule"
     /\ req'[r].email = req[r].email /\ req'[r].purchase = req[r].purchase
     /\ req'[r].challenge \in ChallengeRows
     /\ \/ found # {} /\ req'[r].challenge \in found /\ UNCHANGED own
        \/ /\ found = {} /\ req'[r].challenge = [name |-> NameOf(r), by |-> r]
           /\ Added(r, "challenges", {[name |-> NameOf(r), by |-> r]})

(* scalar_one_or_none raises on two challenges of the name; otherwise the  *)
(* one found, or a new one, is the request's.                              *)
LEMMA EnsureChallengeEffect ==
  ASSUME Typed, NEW r \in Requests, EnsureChallenge(r)
  PROVE  /\ Typed' /\ Alone(r)
         /\ EnsuresChallenge(r, {c \in View(r, "challenges") : c.name = NameOf(r)})
<1>1. PICK found : found = {c \in View(r, "challenges") : c.name = NameOf(r)}
  OBVIOUS
<1>2. PICK new : new = [name |-> NameOf(r), by |-> r]
  OBVIOUS
<1>3. /\ req[r].pc = "challenge" /\ UNCHANGED <<bootstrap, overlapped>>
      /\ \/ Cardinality(found) > 1 /\ End(r, "raised")
         \/ \E c \in IF found = {} THEN {new} ELSE found :
              /\ Cardinality(found) <= 1
              /\ req' = [req EXCEPT ![r].pc = "rule", ![r].challenge = c]
              /\ IF found = {} THEN Adds(r, "challenges", {new}) ELSE UNCHANGED own
              /\ UNCHANGED db
  BY <1>1, <1>2 DEF EnsureChallenge, Steps
<1>4. /\ "raised" \in Stages /\ "rule" \in Stages /\ "challenges" \in Tables
      /\ new \in ChallengeRows /\ {new} \in SUBSET Rows /\ found \subseteq ChallengeRows
  <2>1. "raised" \in Stages /\ "rule" \in Stages /\ "challenges" \in Tables
    BY DEF Stages, Ended, Tables
  <2>2. new \in ChallengeRows
    BY <1>2 DEF NameOf, Names, ChallengeRows
  <2>3. found \subseteq ChallengeRows
    BY <1>1 DEF View, Typed, RowsTyped
  <2> QED BY <2>1, <2>2, <2>3 DEF Rows
<1>5. CASE Cardinality(found) > 1 /\ End(r, "raised")
  BY <1>1, <1>3, <1>4, <1>5, EndEffect DEF Typed, Alone, Ends, EnsuresChallenge, RequestStates
<1>6. ASSUME NEW c \in IF found = {} THEN {new} ELSE found,
             req' = [req EXCEPT ![r].pc = "rule", ![r].challenge = c],
             IF found = {} THEN Adds(r, "challenges", {new}) ELSE UNCHANGED own,
             UNCHANGED db
      PROVE  /\ Typed' /\ Alone(r)
             /\ EnsuresChallenge(r, found)
  <2>1. c \in ChallengeRows
    BY <1>4, <1>6
  <2>2. /\ req' \in [Requests -> RequestStates]
        /\ req'[r].pc = "rule" /\ req'[r].challenge = c
        /\ req'[r].email = req[r].email /\ req'[r].purchase = req[r].purchase
        /\ \A s \in Requests \ {r} : req'[s] = req[s]
    BY <1>4, <1>6, <2>1 DEF Typed, RequestStates
  <2>3. CASE found # {}
    BY <1>3, <1>6, <2>1, <2>2, <2>3 DEF Typed, Alone, EnsuresChallenge
  <2>4. CASE found = {}
    <3>1. /\ own' \in [Requests -> [Tables -> SUBSET Rows]] /\ Added(r, "challenges", {new})
          /\ \A s \in Requests \ {r} : own'[s] = own[s]
      BY <1>4, <1>6, <2>4, AddsEffect
    <3>2. \A s \in Requests : RowsTyped(own'[s])
      BY <1>4, <3>1 DEF Typed, RowsTyped, Added, Tables
    <3>3. Typed' /\ Alone(r)
      BY <1>3, <1>6, <2>2, <3>1, <3>2 DEF Typed, Alone
    <3> QED BY <1>2, <1>3, <1>6, <2>1, <2>2, <2>4, <3>1, <3>3 DEF EnsuresChallenge
  <2> QED BY <2>3, <2>4
<1> QED BY <1>1, <1>3, <1>5, <1>6
EnsuresRule(r, found) ==
  \/ Cardinality(found) > 1 /\ Ends(r, "rule", "raised")
  \/ /\ UNCHANGED <<db, overlapped>>
     /\ req[r].pc = "rule" /\ req'[r].pc = IF r \in Approvals THEN "account" ELSE "user"
     /\ req'[r].email = req[r].email /\ req'[r].purchase = req[r].purchase
     /\ req'[r].challenge = req[r].challenge
     /\ req'[r].rule \in RuleRows
     /\ \/ found # {} /\ req'[r].rule \in found /\ UNCHANGED own
        \/ /\ found = {}
           /\ req'[r].rule = [challenge |-> req[r].challenge, size |-> SizeOf(r), by |-> r]
           /\ Added(r, "rules", {req'[r].rule})

(* The same for the rule of the request's challenge.                       *)
LEMMA EnsureRuleEffect ==
  ASSUME Typed, NEW r \in Requests, RoleOf(r), EnsureRule(r)
  PROVE  /\ Typed' /\ Alone(r)
         /\ EnsuresRule(r, {rule \in View(r, "rules") : Fits(r, rule)})
<1>1. PICK found : found = {rule \in View(r, "rules") : Fits(r, rule)}
  OBVIOUS
<1>2. PICK new : new = [challenge |-> req[r].challenge, size |-> SizeOf(r), by |-> r]
  OBVIOUS
<1>p. PICK pc : pc = IF r \in Approvals THEN "account" ELSE "user"
  OBVIOUS
<1>3. /\ req[r].pc = "rule" /\ UNCHANGED <<bootstrap, overlapped>>
      /\ \/ Cardinality(found) > 1 /\ End(r, "raised")
         \/ \E c \in IF found = {} THEN {new} ELSE found :
              /\ Cardinality(found) <= 1
              /\ req' = [req EXCEPT ![r].pc = pc, ![r].rule = c]
              /\ IF found = {} THEN Adds(r, "rules", {new}) ELSE UNCHANGED own
              /\ UNCHANGED db
  BY <1>1, <1>2, <1>p DEF EnsureRule, Steps
<1>4. /\ "raised" \in Stages /\ pc \in Stages /\ "rules" \in Tables
      /\ new \in RuleRows /\ {new} \in SUBSET Rows /\ found \subseteq RuleRows
  <2>1. "raised" \in Stages /\ pc \in Stages /\ "rules" \in Tables
    BY <1>p DEF Stages, Ended, Tables
  <2>2. SizeOf(r) \in Sizes /\ req[r].challenge \in ChallengeRows
    BY <1>3 DEF RoleOf, SizeOf, Sizes, PurchaseRows
  <2>3. found \subseteq RuleRows
    BY <1>1 DEF View, Typed, RowsTyped
  <2>4. new \in RuleRows
    BY <1>2, <2>2 DEF RuleRows
  <2> QED BY <2>1, <2>3, <2>4 DEF Rows
<1>5. CASE Cardinality(found) > 1 /\ End(r, "raised")
  BY <1>1, <1>3, <1>4, <1>5, EndEffect DEF Typed, Alone, Ends, EnsuresRule, RequestStates
<1>6. ASSUME NEW c \in IF found = {} THEN {new} ELSE found,
             req' = [req EXCEPT ![r].pc = pc, ![r].rule = c],
             IF found = {} THEN Adds(r, "rules", {new}) ELSE UNCHANGED own,
             UNCHANGED db
      PROVE  /\ Typed' /\ Alone(r)
             /\ EnsuresRule(r, found)
  <2>1. c \in RuleRows
    BY <1>4, <1>6
  <2>2. /\ req' \in [Requests -> RequestStates]
        /\ req'[r].pc = pc /\ req'[r].rule = c /\ req'[r].challenge = req[r].challenge
        /\ req'[r].email = req[r].email /\ req'[r].purchase = req[r].purchase
        /\ \A s \in Requests \ {r} : req'[s] = req[s]
    BY <1>4, <1>6, <2>1 DEF Typed, RequestStates
  <2>3. CASE found # {}
    BY <1>3, <1>p, <1>6, <2>1, <2>2, <2>3 DEF Typed, Alone, EnsuresRule
  <2>4. CASE found = {}
    <3>1. /\ own' \in [Requests -> [Tables -> SUBSET Rows]] /\ Added(r, "rules", {new})
          /\ \A s \in Requests \ {r} : own'[s] = own[s]
      BY <1>4, <1>6, <2>4, AddsEffect
    <3>2. \A s \in Requests : RowsTyped(own'[s])
      BY <1>4, <3>1 DEF Typed, RowsTyped, Added, Tables
    <3>3. Typed' /\ Alone(r)
      BY <1>3, <1>6, <2>2, <3>1, <3>2 DEF Typed, Alone
    <3> QED BY <1>2, <1>p, <1>3, <1>6, <2>1, <2>2, <2>4, <3>1, <3>3 DEF EnsuresRule
  <2> QED BY <2>3, <2>4
<1> QED BY <1>1, <1>3, <1>5, <1>6

---------------------------------------------------------------------------
(* A request begins.                                                       *)
BeginsAs(r, pc) ==
  /\ req[r].pc = "waiting" /\ req'[r].pc = pc
  /\ req'[r].challenge = req[r].challenge /\ req'[r].rule = req[r].rule
  /\ overlapped' = (overlapped \/ \E s \in Requests : UnderWay(s))
  /\ UNCHANGED db

(* Whatever a request begins with, it was waiting, and the others go on as *)
(* they were.                                                              *)
LEMMA BeginsEffect ==
  ASSUME Typed, NEW r \in Requests, NEW request \in RequestStates, Begins(r, request)
  PROVE  /\ req' \in [Requests -> RequestStates] /\ overlapped' \in BOOLEAN
         /\ req'[r] = request /\ req[r].pc = "waiting"
         /\ \A s \in Requests \ {r} : req'[s] = req[s]
         /\ overlapped' = (overlapped \/ \E s \in Requests : UnderWay(s))
BY DEF Begins, Typed

(* A request that begins with an email, and nothing of what another left.  *)
LEMMA NamedEffect ==
  ASSUME Typed, NEW r \in Requests, NEW pc \in Stages, NEW email \in AllEmails,
         Begins(r, [req[r] EXCEPT !.pc = pc, !.email = email]), UNCHANGED <<bootstrap, db>>
  PROVE  /\ req' \in [Requests -> RequestStates] /\ overlapped' \in BOOLEAN
         /\ BeginsAs(r, pc) /\ req'[r].email = email /\ req'[r].purchase = req[r].purchase
         /\ \A s \in Requests \ {r} : req'[s] = req[s]
<1>1. PICK request : request = [req[r] EXCEPT !.pc = pc, !.email = email]
  OBVIOUS
<1>2. /\ request \in RequestStates /\ request.pc = pc /\ request.email = email
      /\ request.purchase = req[r].purchase
      /\ request.challenge = req[r].challenge /\ request.rule = req[r].rule
  BY <1>1 DEF Typed, RequestStates
<1>3. Begins(r, request)
  BY <1>1
<1> QED BY <1>2, <1>3, BeginsEffect DEF BeginsAs

(* login, register, create_admin_user, purchase and approve begin.         *)
LEMMA LoginEffect ==
  ASSUME Typed, NEW r \in Requests, NEW email \in Emails, Login(r, email)
  PROVE  /\ Typed' /\ Alone(r) /\ BeginsAs(r, "admin") /\ UNCHANGED own
         /\ req'[r].email = email /\ req'[r].purchase = req[r].purchase
<1>1. "admin" \in Stages /\ email \in AllEmails
  BY DEF Stages, Seeding, AllEmails
<1> QED BY <1>1, NamedEffect DEF Login, Typed, Alone, BeginsAs

(* A registration and an administrator's new user begin alike.             *)
LEMMA LookUpBeginsEffect ==
  ASSUME Typed, NEW r \in Requests, NEW email \in Emails,
         Register(r, email) \/ CreateUser(r, email)
  PROVE  /\ Typed' /\ Alone(r) /\ BeginsAs(r, "lookup") /\ UNCHANGED own
         /\ req'[r].email = email /\ req'[r].purchase = req[r].purchase
<1>1. "lookup" \in Stages /\ email \in AllEmails
  BY DEF Stages, AllEmails
<1> QED BY <1>1, NamedEffect DEF Register, CreateUser, Typed, Alone, BeginsAs

PurchaseRow(r, user, package) ==
  [user |-> user.email, size |-> package.size, by |-> r,
   status |-> "PENDING_VERIFICATION", account |-> None]

(* A purchase is pending, of a user who exists and a package on sale.      *)
LEMMA PurchaseEffect ==
  ASSUME Typed, NEW r \in Requests, NEW user \in db["users"], NEW package \in db["packages"],
         Purchase(r, user, package)
  PROVE  /\ Typed' /\ Alone(r) /\ BeginsAs(r, "commit")
         /\ req'[r].purchase = req[r].purchase
         /\ PurchaseRow(r, user, package) \in PurchaseRows
         /\ Added(r, "purchases", {PurchaseRow(r, user, package)})
<1>1. PICK row : row = PurchaseRow(r, user, package)
  OBVIOUS
<1>e. PICK email : email = user.email
  OBVIOUS
<1>2. /\ "commit" \in Stages /\ "purchases" \in Tables
      /\ email \in AllEmails /\ package.size \in PackageSizes
  BY <1>e DEF Stages, Tables, Typed, RowsTyped, UserRows, PackageRows
<1>3. row \in PurchaseRows /\ {row} \in SUBSET Rows
  BY <1>1, <1>e, <1>2 DEF PurchaseRow, PurchaseRows, Rows
<1>4. /\ Begins(r, [req[r] EXCEPT !.pc = "commit", !.email = email])
      /\ Adds(r, "purchases", {row}) /\ UNCHANGED <<bootstrap, db>>
  BY <1>1, <1>e DEF Purchase, PurchaseRow
<1>5. /\ own' \in [Requests -> [Tables -> SUBSET Rows]] /\ Added(r, "purchases", {row})
      /\ \A s \in Requests \ {r} : own'[s] = own[s]
  BY <1>2, <1>3, <1>4, AddsEffect
<1>6. \A s \in Requests : RowsTyped(own'[s])
  BY <1>3, <1>5 DEF Typed, RowsTyped, Added, Tables
<1>7. Typed' /\ Alone(r) /\ BeginsAs(r, "commit") /\ req'[r].purchase = req[r].purchase
  BY <1>2, <1>4, <1>5, <1>6, NamedEffect DEF Typed, Alone, BeginsAs
<1> QED BY <1>1, <1>3, <1>5, <1>7

(* An approval begins with a purchase that is committed, by an             *)
(* administrator.                                                          *)
LEMMA ApproveEffect ==
  ASSUME Typed, NEW r \in Requests, NEW purchase \in db["purchases"], Approve(r, purchase)
  PROVE  /\ Typed' /\ Alone(r) /\ BeginsAs(r, "challenge") /\ UNCHANGED own
         /\ req'[r].purchase = purchase /\ purchase \in PurchaseRows
<1>1. PICK request : request = [req[r] EXCEPT !.pc = "challenge", !.purchase = purchase]
  OBVIOUS
<1>2. "challenge" \in Stages /\ purchase \in PurchaseRows
  BY DEF Stages, Typed, RowsTyped
<1>3. /\ request \in RequestStates /\ request.pc = "challenge"
      /\ request.purchase = purchase
      /\ request.challenge = req[r].challenge /\ request.rule = req[r].rule
  BY <1>1, <1>2 DEF Typed, RequestStates
<1>4. Begins(r, request) /\ UNCHANGED <<bootstrap, db, own>>
  BY <1>1 DEF Approve
<1> QED BY <1>2, <1>3, <1>4, BeginsEffect DEF BeginsAs, Typed, Alone
---------------------------------------------------------------------------
(* commit: what the transaction saw is what the database holds.            *)
LEMMA CommitEffect ==
  ASSUME Typed, NEW r \in Requests, Commit(r)
  PROVE  /\ own' \in [Requests -> [Tables -> SUBSET Rows]] /\ own'[r] = NoRows
         /\ \A s \in Requests \ {r} : own'[s] = own[s]
         /\ \A s \in Requests : RowsTyped(own'[s])
         /\ db' \in [Tables -> SUBSET Rows] /\ RowsTyped(db')
         /\ \A t \in Tables : db'[t] = View(r, t)
<1>1. own' = [own EXCEPT ![r] = NoRows] /\ db' = [t \in Tables |-> View(r, t)]
  BY DEF Commit
<1>2. db' \in [Tables -> SUBSET Rows] /\ \A t \in Tables : db'[t] = View(r, t)
  BY <1>1 DEF View, Typed
<1>3. RowsTyped(db')
  BY <1>2 DEF View, Typed, RowsTyped, Tables
<1>4. /\ own' \in [Requests -> [Tables -> SUBSET Rows]] /\ own'[r] = NoRows
      /\ \A s \in Requests \ {r} : own'[s] = own[s]
  BY <1>1, NoRowsTyped DEF Typed
<1>5. \A s \in Requests : RowsTyped(own'[s])
  BY <1>4, NoRowsTyped DEF Typed
<1> QED BY <1>2, <1>3, <1>4, <1>5

(* Every request but an approval ends its writing with a commit.           *)
LEMMA CommitRequestEffect ==
  ASSUME Typed, NEW r \in Requests, CommitRequest(r)
  PROVE  /\ Typed' /\ Alone(r) /\ UNCHANGED overlapped
         /\ req[r].pc = "commit" /\ req'[r].pc = IF r \in Logins THEN "signin" ELSE "answered"
         /\ req'[r].purchase = req[r].purchase
         /\ own'[r] = NoRows /\ \A t \in Tables : db'[t] = View(r, t)
<1>1. "signin" \in Stages /\ "answered" \in Stages
  BY DEF Stages, Seeding, Ended
<1>2. /\ req[r].pc = "commit" /\ UNCHANGED <<bootstrap, overlapped>> /\ Commit(r)
      /\ \/ r \in Logins /\ Go(r, "signin")
         \/ r \notin Logins /\ Over(r, "answered")
  BY DEF CommitRequest, Steps
<1>3. /\ req' \in [Requests -> RequestStates]
      /\ req'[r].pc = IF r \in Logins THEN "signin" ELSE "answered"
      /\ req'[r].purchase = req[r].purchase
      /\ \A s \in Requests \ {r} : req'[s] = req[s]
  BY <1>1, <1>2, GoEffect, OverEffect
<1> QED BY <1>2, <1>3, CommitEffect DEF Typed, Alone

(* Marking a purchase approved leaves a purchase.                          *)
LEMMA ApprovedTyped ==
  ASSUME NEW rows \in SUBSET PurchaseRows, NEW purchase \in PurchaseRows,
         NEW account \in AccountRows
  PROVE  Approved(rows, purchase, account) \subseteq PurchaseRows
BY DEF Approved, PurchaseRows

(* The account an approval makes for what it has found.                    *)
LEMMA BoughtRow ==
  ASSUME NEW r \in Requests, RoleOf(r), req[r].pc \in {"account", "approve"}
  PROVE  /\ r \in Approvals /\ req[r].purchase \in PurchaseRows
         /\ Bought(r) \in AccountRows /\ Bought(r).by = r
         /\ Bought(r).user = req[r].purchase.user /\ Bought(r).size = req[r].purchase.size
         /\ Bought(r).challenge = req[r].challenge /\ Bought(r).rule = req[r].rule
<1>1. /\ r \in Approvals /\ req[r].purchase \in PurchaseRows
      /\ req[r].challenge \in ChallengeRows /\ req[r].rule \in RuleRows
  BY DEF RoleOf
<1>2. req[r].purchase.user \in AllEmails /\ req[r].purchase.size \in Sizes
  BY <1>1 DEF PurchaseRows, Sizes
<1> QED BY <1>1, <1>2 DEF Bought, Account, AccountRows, SizeOf

(* An approval has its purchase's row to itself when it adds the account.  *)
LEMMA UpdatePurchaseEffect ==
  ASSUME Typed, NEW r \in Requests, RoleOf(r), UpdatePurchase(r)
  PROVE  /\ Typed' /\ Alone(r) /\ UNCHANGED <<db, overlapped>>
         /\ Proceeds(r, "account", "approve")
         /\ Added(r, "accounts", {Bought(r)}) /\ Bought(r)' = Bought(r)
<1>1. PICK rows : rows = {Bought(r)}
  OBVIOUS
<1>2. "approve" \in Stages /\ "accounts" \in Tables
  BY DEF Stages, Tables
<1>3. /\ req[r].pc = "account" /\ UNCHANGED <<bootstrap, overlapped, db>>
      /\ Adds(r, "accounts", rows) /\ Go(r, "approve")
  BY <1>1 DEF UpdatePurchase, Steps
<1>4. rows \in SUBSET Rows /\ rows \subseteq AccountRows
  BY <1>1, <1>3, BoughtRow DEF Rows
<1>5. /\ own' \in [Requests -> [Tables -> SUBSET Rows]] /\ Added(r, "accounts", rows)
      /\ \A s \in Requests \ {r} : own'[s] = own[s]
  BY <1>2, <1>3, <1>4, AddsEffect
<1>6. \A s \in Requests : RowsTyped(own'[s])
  BY <1>4, <1>5 DEF Typed, RowsTyped, Added, Tables
<1>7. Typed' /\ Alone(r) /\ Proceeds(r, "account", "approve")
  BY <1>2, <1>3, <1>5, <1>6, GoEffect DEF Typed, Alone, Proceeds, Same
<1>8. Bought(r)' = Bought(r)
  BY <1>7 DEF Bought, Account, SizeOf, Proceeds, Same
<1> QED BY <1>1, <1>3, <1>5, <1>7, <1>8

(* An approval commits the account it made and the purchase marked with    *)
(* it.                                                                     *)
LEMMA CommitApprovalEffect ==
  ASSUME Typed, NEW r \in Requests, RoleOf(r), CommitApproval(r)
  PROVE  /\ Typed' /\ Alone(r) /\ UNCHANGED overlapped
         /\ req[r].pc = "approve" /\ req'[r].pc = "answered"
         /\ req'[r].purchase = req[r].purchase
         /\ own'[r] = NoRows
         /\ db'["purchases"] = Approved(db["purchases"], req[r].purchase, Bought(r))
         /\ \A t \in Tables \ {"purchases"} : db'[t] = View(r, t)
<1>1. PICK account : account = Bought(r)
  OBVIOUS
<1>2. "answered" \in Stages /\ "purchases" \in Tables
  BY DEF Stages, Ended, Tables
<1>3. /\ req[r].pc = "approve" /\ UNCHANGED <<bootstrap, overlapped>> /\ Over(r, "answered")
      /\ own' = [own EXCEPT ![r] = NoRows]
      /\ db' = [t \in Tables |->
                 IF t = "purchases" THEN Approved(db[t], req[r].purchase, account) ELSE View(r, t)]
  BY <1>1 DEF CommitApproval, Steps
<1>4. req[r].purchase \in PurchaseRows /\ account \in AccountRows
  BY <1>1, <1>3, BoughtRow
<1>6. /\ db'["purchases"] = Approved(db["purchases"], req[r].purchase, account)
      /\ \A t \in Tables \ {"purchases"} : db'[t] = View(r, t)
      /\ DOMAIN db' = Tables /\ db' = [t \in Tables |-> db'[t]]
  BY <1>2, <1>3
<1>7. db'["purchases"] \subseteq PurchaseRows
  BY <1>4, <1>6, ApprovedTyped DEF Typed, RowsTyped
<1>8. RowsTyped(db')
  BY <1>6, <1>7 DEF View, Typed, RowsTyped, Tables
<1>9. \A t \in Tables : db'[t] \subseteq Rows
  <2>1. \A t \in Tables \ {"purchases"} : db'[t] \subseteq Rows
    BY <1>6 DEF View, Typed
  <2>2. db'["purchases"] \subseteq Rows
    BY <1>7 DEF Rows
  <2> QED BY <2>1, <2>2
<1>10. db' \in [Tables -> SUBSET Rows]
  BY <1>6, <1>9
<1>11. /\ own' \in [Requests -> [Tables -> SUBSET Rows]] /\ own'[r] = NoRows
       /\ \A s \in Requests \ {r} : own'[s] = own[s]
       /\ \A s \in Requests : RowsTyped(own'[s])
  BY <1>3, NoRowsTyped DEF Typed
<1>12. Typed' /\ Alone(r)
  BY <1>2, <1>3, <1>8, <1>10, <1>11, OverEffect DEF Typed, Alone
<1> QED BY <1>1, <1>2, <1>3, <1>6, <1>11, <1>12, OverEffect

(* A crash loses the requests that were under way, and their rows.         *)
LEMMA CrashEffect ==
  ASSUME Typed, Crash
  PROVE  /\ Typed' /\ UNCHANGED <<bootstrap, db, overlapped>>
         /\ \A r \in Requests : /\ own'[r] = NoRows
                                /\ req'[r].purchase = req[r].purchase
                                /\ IF UnderWay(r) THEN req'[r].pc = "lost" ELSE req'[r] = req[r]
<1>1. /\ req' = [r \in Requests |->
               IF UnderWay(r)
               THEN [req[r] EXCEPT !.pc = "lost", !.email = None, !.challenge = None, !.rule = None]
               ELSE req[r]]
      /\ own' = [r \in Requests |-> NoRows]
      /\ UNCHANGED <<bootstrap, db, overlapped>>
  BY DEF Crash
<1>2. ASSUME NEW r \in Requests
      PROVE  /\ req'[r] \in RequestStates /\ req'[r].purchase = req[r].purchase
             /\ IF UnderWay(r) THEN req'[r].pc = "lost" ELSE req'[r] = req[r]
  <2>1. "lost" \in Stages /\ req[r] \in RequestStates
    BY DEF Stages, Ended, Typed
  <2>2. CASE UnderWay(r)
    BY <1>1, <2>1, <2>2 DEF RequestStates
  <2>3. CASE ~UnderWay(r)
    BY <1>1, <2>1, <2>3
  <2> QED BY <2>2, <2>3
<1>3. req' \in [Requests -> RequestStates]
  BY <1>1, <1>2
<1>4. own' \in [Requests -> [Tables -> SUBSET Rows]] /\ \A r \in Requests : own'[r] = NoRows
  BY <1>1, NoRowsTyped
<1>5. \A r \in Requests : RowsTyped(own'[r])
  BY <1>4, NoRowsTyped
<1>6. Typed'
  BY <1>1, <1>3, <1>4, <1>5 DEF Typed
<1> QED BY <1>1, <1>2, <1>4, <1>6

(* What the tables hold at first, with the bootstrap and without.          *)
LEMMA InitRows ==
  ASSUME Init
  PROVE  /\ db = [t \in Tables |-> db[t]]
         /\ db["users"] = IF bootstrap THEN {} ELSE {[email |-> AdminEmail, by |-> Operator]}
         /\ db["packages"] = IF bootstrap THEN {} ELSE [size : PackageSizes, by : {Operator}]
         /\ db["instruments"] = IF bootstrap THEN {} ELSE {[by |-> Operator]}
         /\ db["challenges"] = {} /\ db["rules"] = {}
         /\ db["accounts"] = {} /\ db["purchases"] = {}
<1>1. CASE bootstrap
  BY <1>1 DEF Init, NoRows, Tables
<1>2. CASE ~bootstrap
  <2>1. db = [t \in Tables |-> CASE t = "users" -> {[email |-> AdminEmail, by |-> Operator]}
                                 [] t = "packages" -> [size : PackageSizes, by : {Operator}]
                                 [] t = "instruments" -> {[by |-> Operator]}
                                 [] OTHER -> {}]
    BY <1>2 DEF Init, NoRows, Tables
  <2> QED BY <1>2, <2>1 DEF Tables
<1> QED BY <1>1, <1>2

(* At first every row and every request is of its type, and no request has *)
(* begun.                                                                  *)
LEMMA InitTyped == Init => Typed /\ Roles
<1> SUFFICES ASSUME Init PROVE Typed /\ Roles
  OBVIOUS
<1>1. /\ "waiting" \in Stages
      /\ [email |-> AdminEmail, by |-> Operator] \in UserRows
      /\ [size : PackageSizes, by : {Operator}] \subseteq PackageRows
      /\ [by |-> Operator] \in InstrumentRows
  BY DEF Stages, UserRows, AllEmails, Makers, PackageRows, InstrumentRows
<1>2. req \in [Requests -> RequestStates] /\ \A r \in Requests : req[r].pc = "waiting"
  BY <1>1 DEF Init, RequestStates
<1>3. own \in [Requests -> [Tables -> SUBSET Rows]] /\ \A r \in Requests : RowsTyped(own[r])
  BY NoRowsTyped DEF Init
<1>4. db \in [Tables -> SUBSET Rows] /\ RowsTyped(db)
  <2>1. RowsTyped(db)
    BY <1>1, InitRows DEF RowsTyped
  <2>2. \A t \in Tables : db[t] \subseteq Rows
    BY <2>1 DEF RowsTyped, Tables, Rows
  <2> QED BY <2>1, <2>2, InitRows
<1>5. Typed
  BY <1>2, <1>3, <1>4 DEF Typed, Init
<1>6. Roles
  BY <1>2 DEF Roles, RoleOf, Seeding, UnderWay
<1> QED BY <1>5, <1>6

(* Every step of every request keeps the types, and each kind of request   *)
(* to its own stages.                                                      *)
LEMMA TypedStep == Typed /\ Roles /\ [Next]_vars => Typed' /\ Roles'
<1> SUFFICES ASSUME Typed, Roles, [Next]_vars PROVE Typed' /\ Roles'
  OBVIOUS
<1> USE DEF Roles
<1>1. ASSUME NEW r \in Requests, Alone(r), Typed', RoleOf(r)' PROVE Roles'
  BY <1>1 DEF Alone, RoleOf, UnderWay
<1>2. CASE Crash
  BY <1>2, CrashEffect DEF RoleOf, UnderWay, Ended, Seeding
<1>3. ASSUME NEW r \in Requests, Begin(r) PROVE Typed' /\ Roles'
  <2>1. ASSUME NEW email \in Emails, r \in Logins, Login(r, email) PROVE Typed' /\ Roles'
    BY <2>1, <1>1, LoginEffect, RequestKinds DEF RoleOf, BeginsAs, UnderWay, Ended, Seeding
  <2>2. ASSUME NEW email \in Emails, r \in Registrations \/ r \in Creations,
               Register(r, email) \/ CreateUser(r, email)
        PROVE  Typed' /\ Roles'
    BY <2>2, <1>1, LookUpBeginsEffect, RequestKinds DEF RoleOf, BeginsAs, UnderWay, Ended, Seeding
  <2>3. ASSUME r \in Purchases, NEW user \in db["users"], NEW package \in db["packages"],
               Purchase(r, user, package)
        PROVE  Typed' /\ Roles'
    BY <2>3, <1>1, PurchaseEffect, RequestKinds DEF RoleOf, BeginsAs, UnderWay, Ended, Seeding
  <2>4. ASSUME r \in Approvals, NEW purchase \in db["purchases"], Approve(r, purchase)
        PROVE  Typed' /\ Roles'
    BY <2>4, <1>1, ApproveEffect, RequestKinds DEF RoleOf, BeginsAs, UnderWay, Ended, Seeding
  <2> QED BY <1>3, <2>1, <2>2, <2>3, <2>4 DEF Begin
<1>4. ASSUME NEW r \in Requests, Continue(r) PROVE Typed' /\ Roles'
  <2>0. RoleOf(r)
    BY DEF Roles
  <2> USE DEF RoleOf, Proceeds, Ends, Same, UnderWay, Ended, Seeding
  <2>1. CASE SelectAdmin(r)
    BY <2>1, <1>1, SelectAdminEffect
  <2>2. CASE InsertAdmin(r)
    BY <2>2, <1>1, InsertAdminEffect
  <2>3. CASE SelectDemo(r)
    BY <2>3, <1>1, SelectDemoEffect
  <2>4. CASE InsertDemo(r)
    BY <2>4, <1>1, InsertDemoEffect
  <2>5. CASE SeedPackages(r)
    BY <2>5, <1>1, SeedPackagesEffect
  <2>6. CASE SeedInstruments(r)
    BY <2>6, <1>1, SeedInstrumentsEffect, RequestKinds
  <2>7. CASE SignIn(r)
    BY <2>7, <1>1, SignInEffect
  <2>8. CASE LookUpEmail(r)
    BY <2>8, <1>1, LookUpEmailEffect, RequestKinds
  <2>9. CASE EnsureChallenge(r)
    <3>1. /\ Typed' /\ Alone(r) /\ req[r].pc = "challenge"
          /\ req'[r].purchase = req[r].purchase
          /\ \/ req'[r].pc = "raised"
             \/ /\ req'[r].pc = "rule" /\ req'[r].challenge \in ChallengeRows
                /\ req'[r].email = req[r].email
      BY <2>9, EnsureChallengeEffect DEF EnsuresChallenge
    <3> QED BY <1>1, <2>0, <3>1, RequestKinds
  <2>10. CASE EnsureRule(r)
    <3>1. /\ Typed' /\ Alone(r) /\ req[r].pc = "rule"
          /\ req'[r].purchase = req[r].purchase
          /\ \/ req'[r].pc = "raised"
             \/ /\ req'[r].pc = IF r \in Approvals THEN "account" ELSE "user"
                /\ req'[r].challenge = req[r].challenge /\ req'[r].rule \in RuleRows
                /\ req'[r].email = req[r].email
      BY <2>0, <2>10, EnsureRuleEffect DEF EnsuresRule
    <3> QED BY <1>1, <2>0, <3>1, RequestKinds
  <2>11. CASE InsertUser(r)
    BY <2>11, <1>1, InsertUserEffect, RequestKinds
  <2>14. CASE InsertInstruments(r)
    BY <2>14, <1>1, InsertInstrumentsEffect, RequestKinds
  <2>15. CASE UpdatePurchase(r)
    BY <2>15, <1>1, UpdatePurchaseEffect, RequestKinds
  <2>12. CASE CommitApproval(r)
    <3>1. /\ Typed' /\ Alone(r) /\ req[r].pc = "approve" /\ req'[r].pc = "answered"
          /\ req'[r].purchase = req[r].purchase
      BY <2>0, <2>12, CommitApprovalEffect
    <3> QED BY <1>1, <2>0, <3>1
  <2>13. CASE CommitRequest(r)
    <3>1. /\ Typed' /\ Alone(r) /\ req[r].pc = "commit" /\ req'[r].purchase = req[r].purchase
          /\ req'[r].pc = IF r \in Logins THEN "signin" ELSE "answered"
      BY <2>13, CommitRequestEffect
    <3> QED BY <1>1, <2>0, <3>1, RequestKinds
  <2> QED BY <1>4, <2>1, <2>2, <2>3, <2>4, <2>5, <2>6, <2>7, <2>8, <2>9, <2>10,
              <2>11, <2>12, <2>13, <2>14, <2>15 DEF Continue
<1>5. CASE UNCHANGED vars
  BY <1>5 DEF vars, Typed, RoleOf, UnderWay
<1> QED BY <1>2, <1>3, <1>4, <1>5 DEF Next
---------------------------------------------------------------------------
(* A transaction's rows are its own until it ends; then they are gone or   *)
(* committed.  No two transactions have one user's row.                    *)
Past  == {"signin", "answered", "refused", "lost"}
Bare  == Ended \union {"waiting", "signin", "lookup", "admin"}
Early == {"admin", "insertAdmin", "lookup", "challenge", "rule", "user", "account", "approve"}

Owned ==
  /\ \A r \in Requests : \A t \in Tables : \A x \in own[r][t] : x.by = r
  /\ \A r \in Requests :
       /\ req[r].pc \in Bare => own[r] = NoRows
       /\ req[r].pc \in Early => own[r]["users"] = {}
       /\ req[r].pc = "insertDemo" => ~HasUser(own[r]["users"], DemoEmail)
Fresh == \A t \in Tables : \A x \in db[t] : x.by \in Requests => req[x.by].pc \in Past
UsersDiffer ==
  /\ \A u, v \in db["users"] : u.email = v.email => u = v
  /\ \A r \in Requests : \A u \in own[r]["users"], v \in db["users"] : u.email # v.email
  /\ \A r, s \in Requests : \A u \in own[r]["users"], v \in own[s]["users"] :
       u.email = v.email => u = v
Held == Owned /\ Fresh /\ UsersDiffer

(* What is held as its own is what the type invariant asks for.            *)
LEMMA HeldTypeOK == Typed /\ Held => TypeOK
<1> SUFFICES ASSUME Typed, Held PROVE TypeOK
  OBVIOUS
<1>1. \A r \in Requests : ~UnderWay(r) => own[r] = NoRows
  BY DEF Held, Owned, Bare, UnderWay
<1>2. LET users == db["users"] \union UNION {own[r]["users"] : r \in Requests}
      IN  \A u, v \in users : u.email = v.email => u = v
  BY DEF Held, UsersDiffer
<1>3. \A r \in Requests : req[r].pc \in
       Ended \union {"waiting", "admin", "insertAdmin", "demo", "insertDemo", "packages",
                     "instruments", "insertInstruments", "signin", "lookup", "challenge",
                     "rule", "user", "account", "approve", "commit"}
  BY DEF Typed, RequestStates, Stages, Seeding
<1> QED BY <1>1, <1>2, <1>3 DEF TypeOK

(* At first nothing is held, and all there is is the operator's.           *)
LEMMA InitHeld == Init => Held
<1> SUFFICES ASSUME Init PROVE Held
  OBVIOUS
<1>1. \A r \in Requests : own[r] = NoRows /\ req[r].pc = "waiting"
  BY DEF Init
<1>2. \A t \in Tables : \A x \in db[t] : x.by = Operator
  <2>p. \A x \in [size : PackageSizes, by : {Operator}] : x.by = Operator
    OBVIOUS
  <2>1. /\ \A x \in db["users"] : x.by = Operator
        /\ \A x \in db["packages"] : x.by = Operator
        /\ \A x \in db["instruments"] : x.by = Operator
    <3>1. CASE bootstrap
      BY <3>1, InitRows
    <3>2. CASE ~bootstrap
      <4>1. \A x \in db["packages"] : x.by = Operator
        BY <2>p, <3>2, InitRows
      <4> QED BY <3>2, <4>1, InitRows
    <3> QED BY <3>1, <3>2
  <2> QED BY <2>1, InitRows DEF Tables
<1>3. \A u, v \in db["users"] : u.email = v.email => u = v
  BY InitRows
<1>4. \A r \in Requests, t \in Tables : own[r][t] = {}
  BY <1>1, NoRowsTyped
<1>5. "users" \in Tables
  BY DEF Tables
<1> QED BY <1>1, <1>2, <1>3, <1>4, <1>5, RequestKinds DEF Held, Owned, Fresh, UsersDiffer, HasUser

(* The rows of a table by name.                                            *)
LEMMA TableNames ==
  /\ "users" \in Tables /\ "challenges" \in Tables /\ "rules" \in Tables
  /\ "packages" \in Tables /\ "instruments" \in Tables
  /\ "purchases" \in Tables /\ "accounts" \in Tables
BY DEF Tables

(* Who has a row among some has one among more.                            *)
LEMMA UsersGrow ==
  ASSUME NEW rows, NEW more, rows \subseteq more, NEW e, HasUser(rows, e)
  PROVE  HasUser(more, e)
BY DEF HasUser

(* A step that commits nothing and inserts no user.                        *)
LEMMA HeldKept ==
  ASSUME Held, NEW r \in Requests, Alone(r), UNCHANGED db,
         own'[r]["users"] \subseteq own[r]["users"],
         \A t \in Tables : \A x \in own'[r][t] : x.by = r,
         req[r].pc \in Past => req'[r].pc \in Past,
         req'[r].pc \in Bare => own'[r] = NoRows,
         req'[r].pc \in Early => own'[r]["users"] = {},
         req'[r].pc = "insertDemo" => ~HasUser(own'[r]["users"], DemoEmail)
  PROVE  Held'
<1>1. Owned'
  BY DEF Held, Owned, Alone
<1>2. Fresh'
  BY DEF Held, Fresh, Alone
<1>3. \A s \in Requests : own'[s]["users"] \subseteq own[s]["users"]
  BY DEF Alone
<1>4. UsersDiffer'
  BY <1>3 DEF Held, UsersDiffer
<1> QED BY <1>1, <1>2, <1>4 DEF Held

(* A request that ends holds nothing.                                      *)
LEMMA HeldEnds ==
  ASSUME Held, NEW r \in Requests, Alone(r), NEW from, NEW to \in Ended, Ends(r, from, to),
         from \in Past => to \in Past
  PROVE  Held'
<1>1. own'[r] = NoRows /\ UNCHANGED db /\ req[r].pc = from /\ req'[r].pc = to
  BY DEF Ends
<1>2. own'[r]["users"] = {} /\ \A t \in Tables : own'[r][t] = {}
  BY <1>1, NoRowsTyped, TableNames
<1>3. req'[r].pc \in Bare /\ req'[r].pc \notin Early /\ req'[r].pc # "insertDemo"
  BY <1>1 DEF Bare, Early, Ended
<1> QED BY <1>1, <1>2, <1>3, HeldKept

(* A step that inserts a user who is not one yet, its own view included.   *)
LEMMA HeldInserts ==
  ASSUME Held, NEW r \in Requests, Alone(r), NEW email, NEW accounts, NEW pc,
         Inserts(r, email, accounts, pc),
         ~HasUser(own[r]["users"], email), \A a \in accounts : a.by = r,
         req[r].pc \notin Past, pc \notin Bare, pc \notin Early, pc # "insertDemo"
  PROVE  Held'
<1>1. /\ own'[r]["users"] = own[r]["users"] \union {[email |-> email, by |-> r]}
      /\ own'[r]["accounts"] = own[r]["accounts"] \union accounts
      /\ \A t \in Tables \ {"users", "accounts"} : own'[r][t] = own[r][t]
      /\ req'[r].pc = pc /\ UNCHANGED db
      /\ ~HasUser(db["users"], email)
      /\ \A s \in Requests \ {r} : ~HasUser(own[s]["users"], email)
  BY DEF Inserts
<1>2. Owned'
  <2>1. \A t \in Tables : \A x \in own'[r][t] : x.by = r
    BY <1>1, TableNames DEF Held, Owned
  <2> QED BY <1>1, <2>1 DEF Held, Owned, Alone
<1>3. Fresh'
  BY <1>1 DEF Held, Fresh, Alone
<1>4. UsersDiffer'
  <2>1. \A u \in db["users"] : u.email # email
    BY <1>1 DEF HasUser
  <2>2. \A s \in Requests : \A u \in own[s]["users"] : u.email # email
    BY <1>1 DEF HasUser
  <2>3. \A s \in Requests : \A u \in own'[s]["users"] :
          \/ u \in own[s]["users"]
          \/ s = r /\ u = [email |-> email, by |-> r] /\ u.email = email
    BY <1>1 DEF Alone
  <2> QED BY <1>1, <2>1, <2>2, <2>3 DEF Held, UsersDiffer
<1> QED BY <1>2, <1>3, <1>4 DEF Held

(* An approval rewrites purchases, and makes no others.                    *)
LEMMA ApprovedRows ==
  ASSUME NEW rows \in SUBSET PurchaseRows, NEW purchase, NEW account,
         NEW x \in Approved(rows, purchase, account)
  PROVE  \E p \in rows : /\ x.by = p.by /\ x.user = p.user /\ x.size = p.size
                         /\ IF p.by = purchase.by
                            THEN x.status = "APPROVED" /\ x.account = account ELSE x = p
BY DEF Approved, PurchaseRows

(* A request commits: its rows are the database's.                         *)
LEMMA HeldCommits ==
  ASSUME Held, NEW r \in Requests, Alone(r), own'[r] = NoRows,
         req[r].pc \notin Past, req'[r].pc \in {"signin", "answered"},
         db'["users"] = View(r, "users"),
         \A t \in Tables : \A x \in db'[t] : x.by = r \/ \E y \in db[t] : x.by = y.by
  PROVE  Held'
<1>1. own'[r]["users"] = {} /\ \A t \in Tables : own'[r][t] = {}
  BY NoRowsTyped, TableNames
<1>2. Owned'
  BY <1>1 DEF Held, Owned, Alone, Early
<1>3. Fresh'
  BY DEF Held, Fresh, Alone, Past
<1>4. \A s \in Requests : own'[s]["users"] \subseteq own[s]["users"]
  BY <1>1 DEF Alone
<1>5. \A s \in Requests \ {r} : \A u \in own[s]["users"], v \in own[r]["users"] : u.email # v.email
  <2>1. \A s \in Requests \ {r} :
          \A u \in own[s]["users"], v \in own[r]["users"] : u.by = s /\ v.by = r
    BY TableNames DEF Held, Owned
  <2> QED BY <2>1 DEF Held, UsersDiffer
<1>6. UsersDiffer'
  BY <1>1, <1>4, <1>5 DEF Held, UsersDiffer, View, Alone
<1> QED BY <1>2, <1>3, <1>6 DEF Held

(* Every step keeps rows with the transaction that made them: an email is  *)
(* inserted only when no committed row and no other transaction has it.    *)
LEMMA HeldStep == Typed /\ Roles /\ Held /\ [Next]_vars => Held'
<1> SUFFICES ASSUME Typed, Roles, Held, [Next]_vars PROVE Held'
  OBVIOUS
<1>1. CASE Crash
  <2>1. UNCHANGED db /\ \A r \in Requests : own'[r] = NoRows
    BY <1>1, CrashEffect
  <2>2. \A r \in Requests : own'[r]["users"] = {} /\ \A t \in Tables : own'[r][t] = {}
    BY <2>1, NoRowsTyped, TableNames
  <2>3. \A r \in Requests : req[r].pc \in Past => req'[r].pc \in Past
    BY <1>1, CrashEffect DEF UnderWay, Past, Ended
  <2>4. Owned'
    BY <2>1, <2>2 DEF Owned, HasUser
  <2>5. Fresh'
    BY <2>1, <2>3 DEF Held, Fresh
  <2>6. UsersDiffer'
    BY <2>1, <2>2 DEF Held, UsersDiffer
  <2> QED BY <2>4, <2>5, <2>6 DEF Held
<1>2. ASSUME NEW r \in Requests, Begin(r) PROVE Held'
  <2>1. req[r].pc = "waiting" => own[r] = NoRows /\ own[r]["users"] = {}
                                  /\ \A t \in Tables : own[r][t] = {}
    BY NoRowsTyped, TableNames DEF Held, Owned, Bare
  <2> USE <2>1, HeldKept DEF BeginsAs, Past, Bare, Early, Ended
  <2>2. ASSUME NEW email \in Emails, Login(r, email) PROVE Held'
    BY <2>2, LoginEffect
  <2>3. ASSUME NEW email \in Emails, Register(r, email) \/ CreateUser(r, email) PROVE Held'
    BY <2>3, LookUpBeginsEffect
  <2>4. ASSUME NEW user \in db["users"], NEW package \in db["packages"],
               Purchase(r, user, package)
        PROVE  Held'
    <3>1. /\ Alone(r) /\ BeginsAs(r, "commit")
          /\ Added(r, "purchases", {PurchaseRow(r, user, package)})
      BY <2>4, PurchaseEffect
    <3>2. PurchaseRow(r, user, package).by = r
      BY DEF PurchaseRow
    <3>3. own'[r]["users"] = {} /\ \A t \in Tables : \A x \in own'[r][t] : x.by = r
      BY <3>1, <3>2, TableNames DEF Added
    <3> QED BY <3>1, <3>3
  <2>5. ASSUME NEW purchase \in db["purchases"], Approve(r, purchase) PROVE Held'
    BY <2>5, ApproveEffect
  <2> QED BY <1>2, <2>2, <2>3, <2>4, <2>5 DEF Begin
<1>3. ASSUME NEW r \in Requests, Continue(r) PROVE Held'
  <2>0. RoleOf(r) /\ \A t \in Tables : \A x \in own[r][t] : x.by = r
    BY DEF Roles, Held, Owned
  <2>e. "raised" \in Ended /\ "answered" \in Ended /\ "refused" \in Ended
    BY DEF Ended
  <2>f. /\ "insertAdmin" \notin Past /\ "insertDemo" \notin Past /\ "user" \notin Past
        /\ "challenge" \notin Past /\ "rule" \notin Past /\ "lookup" \notin Past
        /\ "insertInstruments" \notin Past /\ "answered" \in Past /\ "refused" \in Past
    BY DEF Past
  <2>1. CASE SelectAdmin(r)
    BY <2>0, <2>1, SelectAdminEffect, HeldKept DEF Held, Owned, Proceeds, Quiet,
         Past, Bare, Early, Ended
  <2>2. CASE InsertAdmin(r)
    <3>1. CASE Ends(r, "insertAdmin", "raised")
      BY <2>2, <2>e, <2>f, <3>1, InsertAdminEffect, HeldEnds
    <3>2. CASE Proceeds(r, "insertAdmin", "demo") /\ Inserts(r, AdminEmail, {}, "demo")
      <4>1. own[r]["users"] = {}
        BY <3>2 DEF Held, Owned, Early, Proceeds
      <4>2. ~HasUser(own[r]["users"], AdminEmail)
        BY <4>1 DEF HasUser
      <4>3. /\ req[r].pc \notin Past /\ "demo" \notin Bare /\ "demo" \notin Early
        BY <3>2 DEF Proceeds, Past, Bare, Early, Ended
      <4> QED BY <2>2, <3>2, <4>2, <4>3, InsertAdminEffect, HeldInserts
    <3> QED BY <2>2, <3>1, <3>2, InsertAdminEffect
  <2>3. CASE SelectDemo(r)
    <3>1. CASE Proceeds(r, "demo", "packages") /\ Quiet
      BY <2>0, <2>3, <3>1, SelectDemoEffect, HeldKept DEF Proceeds, Quiet, Past, Bare, Early, Ended
    <3>2. CASE /\ Proceeds(r, "demo", "insertDemo")
               /\ bootstrap /\ ~HasUser(View(r, "users"), DemoEmail)
               /\ own'[r]["challenges"] = own[r]["challenges"] \union {India(r)}
               /\ own'[r]["rules"] = own[r]["rules"] \union {IndiaRule(r)}
               /\ \A t \in Tables \ {"challenges", "rules"} : own'[r][t] = own[r][t]
      <4>1. own'[r]["users"] = own[r]["users"] /\ ~HasUser(own[r]["users"], DemoEmail)
        BY <3>2, TableNames DEF HasUser, View
      <4>2. India(r).by = r /\ IndiaRule(r).by = r
        BY DEF India, IndiaRule
      <4>3. \A t \in Tables : \A x \in own'[r][t] : x.by = r
        BY <2>0, <3>2, <4>2
      <4>4. req[r].pc = "demo" /\ req'[r].pc = "insertDemo"
        BY <3>2 DEF Proceeds
      <4>5. /\ req[r].pc \notin Past /\ req'[r].pc \notin Bare /\ req'[r].pc \notin Early
        BY <4>4 DEF Past, Bare, Early, Ended
      <4> QED BY <2>3, <4>1, <4>3, <4>5, SelectDemoEffect, HeldKept
    <3> QED BY <2>3, <3>1, <3>2, SelectDemoEffect
  <2>4. CASE InsertDemo(r)
    <3> DEFINE account == Account(r, DemoEmail, India(r), IndiaRule(r), DemoSize)
    <3>1. CASE Ends(r, "insertDemo", "raised")
      BY <2>4, <2>e, <2>f, <3>1, InsertDemoEffect, HeldEnds
    <3>2. CASE /\ Proceeds(r, "insertDemo", "packages")
               /\ Inserts(r, DemoEmail, {account}, "packages")
      <4>1. req[r].pc = "insertDemo"
        BY <3>2 DEF Proceeds
      <4>2. ~HasUser(own[r]["users"], DemoEmail)
        BY <4>1 DEF Held, Owned
      <4>3. req[r].pc \notin Past /\ "packages" \notin Bare /\ "packages" \notin Early
        BY <4>1 DEF Past, Bare, Early, Ended
      <4>4. \A a \in {account} : a.by = r
        BY DEF Account
      <4>5. PICK accounts : accounts = {account}
        OBVIOUS
      <4>6. Alone(r) /\ Inserts(r, DemoEmail, accounts, "packages")
        BY <2>4, <3>2, <4>5, InsertDemoEffect
      <4> HIDE DEF account
      <4> QED BY <4>2, <4>3, <4>4, <4>5, <4>6, HeldInserts
    <3> QED BY <2>4, <3>1, <3>2, InsertDemoEffect
  <2>5. CASE SeedPackages(r)
    <3>1. own'[r]["users"] = own[r]["users"] /\ \A t \in Tables : \A x \in own'[r][t] : x.by = r
      BY <2>0, <2>5, SeedPackagesEffect, TableNames DEF Added, Quiet
    <3> QED BY <2>5, <3>1, SeedPackagesEffect, HeldKept DEF Proceeds, Past, Bare, Early, Ended
  <2>6. CASE SeedInstruments(r)
    BY <2>0, <2>6, SeedInstrumentsEffect, HeldKept DEF Proceeds, Quiet, Past, Bare, Early, Ended
  <2>14. CASE InsertInstruments(r)
    <3>1. CASE Ends(r, "insertInstruments", "raised")
      BY <2>14, <2>e, <2>f, <3>1, InsertInstrumentsEffect, HeldEnds
    <3>2. CASE /\ Proceeds(r, "insertInstruments", "commit")
               /\ Added(r, "instruments", {[by |-> r]})
      <4>1. own'[r]["users"] = own[r]["users"] /\ \A t \in Tables : \A x \in own'[r][t] : x.by = r
        BY <2>0, <3>2, TableNames DEF Added
      <4> QED BY <2>14, <3>2, <4>1, InsertInstrumentsEffect, HeldKept
              DEF Proceeds, Past, Bare, Early, Ended
    <3> QED BY <2>14, <3>1, <3>2, InsertInstrumentsEffect
  <2>15. CASE UpdatePurchase(r)
    <3>1. /\ Alone(r) /\ UNCHANGED db /\ req[r].pc = "account" /\ req'[r].pc = "approve"
          /\ Added(r, "accounts", {Bought(r)})
      BY <2>0, <2>15, UpdatePurchaseEffect DEF Proceeds
    <3>2. Bought(r).by = r
      BY DEF Bought, Account
    <3>3. own[r]["users"] = {}
      BY <3>1 DEF Held, Owned, Early
    <3>4. own'[r]["users"] = {} /\ \A t \in Tables : \A x \in own'[r][t] : x.by = r
      BY <2>0, <3>1, <3>2, <3>3, TableNames DEF Added
    <3> QED BY <3>1, <3>4, HeldKept DEF Past, Bare, Early, Ended
  <2>7. CASE SignIn(r)
    BY <2>7, <2>e, <2>f, SignInEffect, HeldEnds
  <2>8. CASE LookUpEmail(r)
    <3>1. CASE Ends(r, "lookup", "refused")
      BY <2>8, <2>e, <2>f, <3>1, LookUpEmailEffect, HeldEnds
    <3>2. CASE Quiet /\ Proceeds(r, "lookup", IF r \in Registrations THEN "challenge" ELSE "user")
      <4>1. own[r]["users"] = {}
        BY <3>2 DEF Held, Owned, Early, Proceeds
      <4> QED BY <2>0, <2>8, <3>2, <4>1, LookUpEmailEffect, HeldKept
              DEF Proceeds, Quiet, Past, Bare, Early, Ended
    <3> QED BY <2>8, <3>1, <3>2, LookUpEmailEffect
  <2>9. CASE EnsureChallenge(r)
    <3>1. CASE Ends(r, "challenge", "raised")
      BY <2>9, <2>e, <2>f, <3>1, EnsureChallengeEffect, HeldEnds
    <3>2. CASE ~Ends(r, "challenge", "raised")
      <4>1. /\ UNCHANGED db /\ Alone(r) /\ req[r].pc = "challenge" /\ req'[r].pc = "rule"
            /\ \/ UNCHANGED own
               \/ \E x : x.by = r /\ Added(r, "challenges", {x})
        BY <2>0, <2>9, <3>2, EnsureChallengeEffect DEF EnsuresChallenge
      <4>3. /\ own'[r]["users"] = own[r]["users"]
            /\ \A t \in Tables : \A x \in own'[r][t] : x.by = r
        BY <2>0, <4>1, TableNames DEF Added
      <4>2. own[r]["users"] = {}
        BY <4>1 DEF Held, Owned, Early
      <4> QED BY <4>1, <4>2, <4>3, HeldKept DEF Past, Bare, Early, Ended
    <3> QED BY <3>1, <3>2
  <2>10. CASE EnsureRule(r)
    <3>1. CASE Ends(r, "rule", "raised")
      BY <2>0, <2>10, <2>e, <2>f, <3>1, EnsureRuleEffect, HeldEnds
    <3>2. CASE ~Ends(r, "rule", "raised")
      <4>1. /\ UNCHANGED db /\ Alone(r) /\ req[r].pc = "rule" /\ req'[r].pc \in {"account", "user"}
            /\ \/ UNCHANGED own
               \/ \E x : x.by = r /\ Added(r, "rules", {x})
        <5>1. PICK new : new = [challenge |-> req[r].challenge, size |-> SizeOf(r), by |-> r]
          OBVIOUS
        <5>2. new.by = r
          BY <5>1
        <5>3. /\ UNCHANGED db /\ Alone(r)
              /\ req[r].pc = "rule" /\ req'[r].pc \in {"account", "user"}
              /\ UNCHANGED own \/ (req'[r].rule = new /\ Added(r, "rules", {req'[r].rule}))
          BY <2>0, <2>10, <3>2, <5>1, EnsureRuleEffect DEF EnsuresRule
        <5> QED BY <5>2, <5>3
      <4>3. /\ own'[r]["users"] = own[r]["users"]
            /\ \A t \in Tables : \A x \in own'[r][t] : x.by = r
        BY <2>0, <4>1, TableNames DEF Added
      <4>2. own[r]["users"] = {}
        BY <4>1 DEF Held, Owned, Early
      <4> QED BY <4>1, <4>2, <4>3, HeldKept DEF Past, Bare, Early, Ended
    <3> QED BY <3>1, <3>2
  <2>11. CASE InsertUser(r)
    <3>1. CASE Ends(r, "user", "raised")
      BY <2>0, <2>11, <2>e, <2>f, <3>1, InsertUserEffect, HeldEnds
    <3>2. CASE ~Ends(r, "user", "raised")
      <4>1. PICK email, accounts :
              /\ Alone(r) /\ Proceeds(r, "user", "commit")
              /\ Inserts(r, email, accounts, "commit")
              /\ \A a \in accounts : a.by = r
        <5>1. PICK email : email = req[r].email
          OBVIOUS
        <5>2. PICK accounts : accounts =
                IF r \in Creations THEN {}
                ELSE {Account(r, req[r].email, req[r].challenge, req[r].rule, CoreSize)}
          OBVIOUS
        <5>3. /\ Alone(r) /\ Proceeds(r, "user", "commit")
              /\ Inserts(r, email, accounts, "commit")
          BY <2>0, <2>11, <3>2, <5>1, <5>2, InsertUserEffect
        <5>4. \A a \in accounts : a.by = r
          BY <5>2 DEF Account
        <5> QED BY <5>3, <5>4
      <4>2. req[r].pc = "user"
        BY <4>1 DEF Proceeds
      <4>3. own[r]["users"] = {}
        BY <4>2 DEF Held, Owned, Early
      <4>4. ~HasUser(own[r]["users"], email)
        BY <4>3 DEF HasUser
      <4>5. req[r].pc \notin Past /\ "commit" \notin Bare /\ "commit" \notin Early
        BY <4>2 DEF Past, Bare, Early, Ended
      <4> QED BY <4>1, <4>4, <4>5, HeldInserts
    <3> QED BY <3>1, <3>2
  <2>12. CASE CommitApproval(r)
    <3>1. /\ Alone(r) /\ own'[r] = NoRows /\ req[r].pc = "approve" /\ req'[r].pc = "answered"
          /\ db'["purchases"] = Approved(db["purchases"], req[r].purchase, Bought(r))
          /\ \A t \in Tables \ {"purchases"} : db'[t] = View(r, t)
      BY <2>0, <2>12, CommitApprovalEffect
    <3>3. \A x \in db'["purchases"] : \E y \in db["purchases"] : x.by = y.by
      BY <3>1, ApprovedRows DEF Typed, RowsTyped
    <3>4. \A t \in Tables : \A x \in db'[t] : x.by = r \/ \E y \in db[t] : x.by = y.by
      BY <2>0, <3>1, <3>3 DEF View
    <3>5. db'["users"] = View(r, "users") /\ req[r].pc \notin Past
      BY <3>1, TableNames DEF Past
    <3> QED BY <3>1, <3>4, <3>5, HeldCommits
  <2>13. CASE CommitRequest(r)
    <3>1. /\ Alone(r) /\ own'[r] = NoRows /\ req[r].pc = "commit"
          /\ req'[r].pc \in {"signin", "answered"}
          /\ \A t \in Tables : db'[t] = View(r, t)
      BY <2>13, CommitRequestEffect
    <3>2. \A t \in Tables : \A x \in db'[t] : x.by = r \/ \E y \in db[t] : x.by = y.by
      BY <2>0, <3>1 DEF View
    <3>3. db'["users"] = View(r, "users") /\ req[r].pc \notin Past
      BY <3>1, TableNames DEF Past
    <3> QED BY <3>1, <3>2, <3>3, HeldCommits
  <2> QED BY <1>3, <2>1, <2>2, <2>3, <2>4, <2>5, <2>6, <2>7, <2>8, <2>9, <2>10,
              <2>11, <2>12, <2>13, <2>14, <2>15 DEF Continue
<1>4. CASE UNCHANGED vars
  BY <1>4 DEF vars, Held, Owned, Fresh, UsersDiffer
<1> QED BY <1>1, <1>2, <1>3, <1>4 DEF Next

(* Whatever requests come, race and crash, no two user rows, committed or  *)
(* not, have one email, and a request that is over, answered or lost,      *)
(* holds no uncommitted rows.                                              *)
THEOREM TypesHold == Spec => []TypeOK
<1>1. Init => Typed /\ Roles /\ Held
  BY InitTyped, InitHeld
<1>2. Typed /\ Roles /\ Held /\ [Next]_vars => (Typed /\ Roles /\ Held)'
  BY TypedStep, HeldStep
<1>3. Typed /\ Roles /\ Held => TypeOK
  BY HeldTypeOK
<1> QED BY <1>1, <1>2, <1>3, PTL DEF Spec
---------------------------------------------------------------------------
(* What the last flush before a commit wrote: only one transaction has     *)
(* instruments, the last thing it inserts and where there were none; only  *)
(* an approval about to commit has an account, the one it made.            *)
OwnFlushed(r) ==
  /\ own[r]["instruments"] # {} =>
       /\ req[r].pc = "commit" /\ db["instruments"] = {}
       /\ \A s \in Requests \ {r} : own[s]["instruments"] = {}
  /\ r \in Approvals => own[r]["accounts"] = IF req[r].pc = "approve" THEN {Bought(r)} ELSE {}

Flushed ==
  /\ \A i, k \in db["instruments"] : i = k
  /\ \A r \in Requests : OwnFlushed(r)

(* At first nothing was written but what the operator has made.            *)
LEMMA InitFlushed == Init => Flushed
<1> SUFFICES ASSUME Init PROVE Flushed
  OBVIOUS
<1>1. \A r \in Requests : req[r].pc = "waiting" /\ \A t \in Tables : own[r][t] = {}
  BY NoRowsTyped DEF Init
<1>2. \A i, k \in db["instruments"] : i = k
  BY InitRows
<1> QED BY <1>1, <1>2, TableNames DEF Flushed, OwnFlushed

(* The steps that flush neither instruments nor an approval's account, and *)
(* commit nothing.                                                         *)
Plain(r) ==
  /\ Alone(r) /\ UNCHANGED db
  /\ req[r].pc \notin {"commit", "approve"} /\ req'[r].pc # "approve"
  /\ \/ own'[r] = NoRows
     \/ /\ own'[r]["instruments"] = own[r]["instruments"]
        /\ r \in Approvals => own'[r]["accounts"] = own[r]["accounts"]

LEMMA PlainSteps ==
  ASSUME Typed, Roles, NEW r \in Requests, Begin(r) \/ Continue(r)
  PROVE  \/ Plain(r)
         \/ InsertInstruments(r) \/ UpdatePurchase(r) \/ CommitApproval(r) \/ CommitRequest(r)
<1>0. RoleOf(r)
  BY DEF Roles
<1>e. "raised" # "approve" /\ "answered" # "approve" /\ "refused" # "approve"
  OBVIOUS
<1>1. ASSUME NEW from, NEW to, from \notin {"commit", "approve"}, to # "approve",
             Alone(r), Ends(r, from, to)
      PROVE  Plain(r)
  BY <1>1 DEF Plain, Ends
<1>2. ASSUME NEW from, NEW to, from \notin {"commit", "approve"}, to # "approve",
             Alone(r), Proceeds(r, from, to), UNCHANGED db,
             /\ own'[r]["instruments"] = own[r]["instruments"]
             /\ r \in Approvals => own'[r]["accounts"] = own[r]["accounts"]
      PROVE  Plain(r)
  BY <1>2 DEF Plain, Proceeds
<1>3. ASSUME Begin(r) PROVE Plain(r)
  <2>1. ASSUME NEW email \in Emails,
               Login(r, email) \/ Register(r, email) \/ CreateUser(r, email)
        PROVE  Plain(r)
    BY <2>1, LoginEffect, LookUpBeginsEffect DEF Plain, BeginsAs
  <2>2. ASSUME NEW user \in db["users"], NEW package \in db["packages"],
               Purchase(r, user, package)
        PROVE  Plain(r)
    BY <2>2, PurchaseEffect, TableNames DEF Plain, BeginsAs, Added
  <2>3. ASSUME NEW purchase \in db["purchases"], Approve(r, purchase) PROVE Plain(r)
    BY <2>3, ApproveEffect DEF Plain, BeginsAs
  <2> QED BY <1>3, <2>1, <2>2, <2>3 DEF Begin
<1>4. ASSUME SelectAdmin(r) PROVE Plain(r)
  BY <1>2, <1>4, SelectAdminEffect DEF Quiet
<1>i. ASSUME NEW from, NEW to, NEW email, NEW accounts, from \notin {"commit", "approve"},
             to # "approve", r \notin Approvals,
             Alone(r), Proceeds(r, from, to), Inserts(r, email, accounts, to)
      PROVE  Plain(r)
  BY <1>i, TableNames DEF Plain, Proceeds, Inserts
<1>5. ASSUME InsertAdmin(r) PROVE Plain(r)
  <2>1. CASE Proceeds(r, "insertAdmin", "demo") /\ Inserts(r, AdminEmail, {}, "demo")
    <3>1. r \notin Approvals
      BY <1>0, <2>1, RequestKinds DEF RoleOf, Proceeds, Seeding
    <3> QED BY <1>5, <1>i, <2>1, <3>1, InsertAdminEffect
  <2> QED BY <1>1, <1>5, <1>e, <2>1, InsertAdminEffect
<1>6. ASSUME SelectDemo(r) PROVE Plain(r)
  BY <1>2, <1>6, SelectDemoEffect, TableNames DEF Quiet
<1>7. ASSUME InsertDemo(r) PROVE Plain(r)
  <2>1. PICK accounts : accounts = {Account(r, DemoEmail, India(r), IndiaRule(r), DemoSize)}
    OBVIOUS
  <2>2. CASE Proceeds(r, "insertDemo", "packages") /\ Inserts(r, DemoEmail, accounts, "packages")
    <3>1. r \notin Approvals
      BY <1>0, <2>2, RequestKinds DEF RoleOf, Proceeds, Seeding
    <3> QED BY <1>7, <1>i, <2>2, <3>1, InsertDemoEffect
  <2> QED BY <1>1, <1>7, <1>e, <2>1, <2>2, InsertDemoEffect
<1>8. ASSUME SeedPackages(r) PROVE Plain(r)
  BY <1>2, <1>8, SeedPackagesEffect, TableNames DEF Quiet, Added
<1>9. ASSUME SeedInstruments(r) PROVE Plain(r)
  BY <1>2, <1>9, SeedInstrumentsEffect DEF Quiet
<1>10. ASSUME SignIn(r) PROVE Plain(r)
  BY <1>1, <1>10, <1>e, SignInEffect
<1>11. ASSUME LookUpEmail(r) PROVE Plain(r)
  BY <1>1, <1>2, <1>11, <1>e, LookUpEmailEffect DEF Quiet
<1>12. ASSUME EnsureChallenge(r) PROVE Plain(r)
  <2>1. CASE Ends(r, "challenge", "raised")
    BY <1>1, <1>12, <1>e, <2>1, EnsureChallengeEffect
  <2>2. CASE ~Ends(r, "challenge", "raised")
    <3>1. /\ UNCHANGED db /\ Alone(r) /\ req[r].pc = "challenge" /\ req'[r].pc = "rule"
          /\ UNCHANGED own \/ \E x : Added(r, "challenges", {x})
      BY <1>12, <2>2, EnsureChallengeEffect DEF EnsuresChallenge
    <3> QED BY <3>1, TableNames DEF Plain, Added
  <2> QED BY <2>1, <2>2
<1>13. ASSUME EnsureRule(r) PROVE Plain(r)
  <2>1. CASE Ends(r, "rule", "raised")
    BY <1>0, <1>1, <1>13, <1>e, <2>1, EnsureRuleEffect
  <2>2. CASE ~Ends(r, "rule", "raised")
    <3>1. /\ UNCHANGED db /\ Alone(r) /\ req[r].pc = "rule" /\ req'[r].pc \in {"account", "user"}
          /\ UNCHANGED own \/ \E x : Added(r, "rules", {x})
      BY <1>0, <1>13, <2>2, EnsureRuleEffect DEF EnsuresRule
    <3> QED BY <3>1, TableNames DEF Plain, Added
  <2> QED BY <2>1, <2>2
<1>14. ASSUME InsertUser(r) PROVE Plain(r)
  <2>1. CASE Ends(r, "user", "raised")
    BY <1>0, <1>1, <1>14, <1>e, <2>1, InsertUserEffect
  <2>2. CASE ~Ends(r, "user", "raised")
    <3>1. PICK accounts : accounts =
            IF r \in Creations THEN {}
            ELSE {Account(r, req[r].email, req[r].challenge, req[r].rule, CoreSize)}
      OBVIOUS
    <3>2. /\ Alone(r) /\ Proceeds(r, "user", "commit")
          /\ Inserts(r, req[r].email, accounts, "commit")
      BY <1>0, <1>14, <2>2, <3>1, InsertUserEffect
    <3>3. r \notin Approvals
      BY <1>0, <3>2, RequestKinds DEF RoleOf, Proceeds
    <3> QED BY <1>i, <3>2, <3>3
  <2> QED BY <2>1, <2>2
<1> QED BY <1>3, <1>4, <1>5, <1>6, <1>7, <1>8, <1>9, <1>10, <1>11, <1>12, <1>13, <1>14 DEF Continue

(* What an approval bought does not change on its way to the commit.       *)
LEMMA BoughtStays ==
  ASSUME NEW r, req'[r] = req[r]
  PROVE  Bought(r)' = Bought(r)
BY DEF Bought, Account, SizeOf

(* A step of r, seen by the others.                                        *)
LEMMA FlushedElsewhere ==
  ASSUME Flushed, NEW r \in Requests, Alone(r), NEW s \in Requests \ {r},
         own'[r]["instruments"] = {} \/ own[s]["instruments"] = {},
         db'["instruments"] = db["instruments"] \/ own[s]["instruments"] = {}
  PROVE  OwnFlushed(s)'
<1>1. OwnFlushed(s) /\ own'[s] = own[s] /\ req'[s] = req[s]
  BY DEF Flushed, Alone
<1>2. \A q \in Requests \ {r} : own'[q] = own[q]
  BY DEF Alone
<1> QED BY <1>1, <1>2, BoughtStays DEF OwnFlushed

(* Every step keeps it so: the flush of the instruments waits for another  *)
(* transaction's and raises at committed ones.                             *)
LEMMA FlushedStep == Typed /\ Roles /\ Held /\ Flushed /\ [Next]_vars => Flushed'
<1> SUFFICES ASSUME Typed, Roles, Held, Flushed, [Next]_vars PROVE Flushed'
  OBVIOUS
<1>1. CASE Crash
  <2>1. /\ UNCHANGED db
        /\ \A r \in Requests : own'[r] = NoRows /\ req'[r].pc \in Ended \union {"waiting"}
    BY <1>1, CrashEffect DEF UnderWay, Ended
  <2> QED BY <2>1, NoRowsTyped, TableNames DEF Flushed, OwnFlushed, Ended
<1>2. ASSUME NEW r \in Requests, Begin(r) \/ Continue(r) PROVE Flushed'
  <2>0. RoleOf(r) /\ OwnFlushed(r)
    BY DEF Roles, Flushed
  <2>1. CASE Plain(r)
    <3>1. own[r]["instruments"] = {}
      BY <2>0, <2>1 DEF OwnFlushed, Plain
    <3>2. own'[r]["instruments"] = {} /\ Alone(r) /\ UNCHANGED db
      BY <2>1, <3>1, NoRowsTyped, TableNames DEF Plain
    <3>3. OwnFlushed(r)'
      BY <2>0, <2>1, <3>2, NoRowsTyped, TableNames DEF OwnFlushed, Plain
    <3> QED BY <3>2, <3>3, FlushedElsewhere DEF Flushed
  <2>2. CASE InsertInstruments(r)
    <3>1. Alone(r) /\ UNCHANGED db
      BY <2>2, InsertInstrumentsEffect
    <3>2. CASE Ends(r, "insertInstruments", "raised")
      <4>1. own'[r]["instruments"] = {} /\ own'[r]["accounts"] = {} /\ req'[r].pc = "raised"
        BY <3>2, NoRowsTyped, TableNames DEF Ends
      <4>2. OwnFlushed(r)'
        BY <4>1 DEF OwnFlushed
      <4> QED BY <3>1, <4>1, <4>2, FlushedElsewhere DEF Flushed
    <3>3. CASE /\ Proceeds(r, "insertInstruments", "commit") /\ db["instruments"] = {}
               /\ \A s \in Requests \ {r} : own[s]["instruments"] = {}
               /\ Added(r, "instruments", {[by |-> r]})
      <4>1. /\ req[r].pc = "insertInstruments" /\ req'[r].pc = "commit"
            /\ own'[r]["accounts"] = own[r]["accounts"]
        BY <3>3, TableNames DEF Proceeds, Added
      <4>2. OwnFlushed(r)'
        BY <2>0, <3>1, <3>3, <4>1 DEF OwnFlushed, Alone
      <4> QED BY <3>1, <3>3, <4>2, FlushedElsewhere DEF Flushed
    <3> QED BY <2>2, <3>2, <3>3, InsertInstrumentsEffect
  <2>3. CASE UpdatePurchase(r)
    <3>1. /\ Alone(r) /\ UNCHANGED db /\ req[r].pc = "account" /\ req'[r].pc = "approve"
          /\ Added(r, "accounts", {Bought(r)}) /\ Bought(r)' = Bought(r)
      BY <2>0, <2>3, UpdatePurchaseEffect DEF Proceeds
    <3>2. /\ own[r]["instruments"] = {} /\ own'[r]["instruments"] = {}
          /\ own'[r]["accounts"] = own[r]["accounts"] \union {Bought(r)}
      BY <2>0, <3>1, TableNames DEF OwnFlushed, Added
    <3>3. OwnFlushed(r)'
      BY <2>0, <3>1, <3>2 DEF OwnFlushed
    <3> QED BY <3>1, <3>2, <3>3, FlushedElsewhere DEF Flushed
  <2>4. CASE CommitApproval(r) \/ CommitRequest(r)
    <3>1. /\ Alone(r) /\ own'[r] = NoRows /\ req'[r].pc \in {"signin", "answered"}
          /\ db'["instruments"] = db["instruments"] \union own[r]["instruments"]
      BY <2>0, <2>4, CommitApprovalEffect, CommitRequestEffect, TableNames DEF View
    <3>2. own'[r]["instruments"] = {} /\ own'[r]["accounts"] = {}
      BY <3>1, NoRowsTyped, TableNames
    <3>3. OwnFlushed(r)'
      BY <3>1, <3>2 DEF OwnFlushed
    <3>4. \A i, k \in own[r]["instruments"] : i = k
      BY TableNames DEF Held, Owned, Typed, RowsTyped, InstrumentRows
    <3>5. own[r]["instruments"] # {} =>
            db["instruments"] = {} /\ \A s \in Requests \ {r} : own[s]["instruments"] = {}
      BY <2>0 DEF OwnFlushed
    <3>6. \A i, k \in db'["instruments"] : i = k
      BY <3>1, <3>4, <3>5 DEF Flushed
    <3>7. \A s \in Requests \ {r} : OwnFlushed(s)'
      BY <3>1, <3>2, <3>5, FlushedElsewhere
    <3> QED BY <3>3, <3>6, <3>7 DEF Flushed
  <2> QED BY <1>2, <2>1, <2>2, <2>3, <2>4, PlainSteps
<1>3. CASE UNCHANGED vars
  <2>1. \A r \in Requests : Bought(r)' = Bought(r)
    BY <1>3, BoughtStays DEF vars
  <2> QED BY <1>3, <2>1 DEF vars, Flushed, OwnFlushed
<1> QED BY <1>1, <1>2, <1>3 DEF Next
---------------------------------------------------------------------------
(* Who holds the instruments or a purchase's row is about to commit.  Who  *)
(* holds a user's row and waits does so for the demo user's, which no      *)
(* request that waits for a user holds, or for the instruments.            *)
LEMMA HeldEveryWaitEnds == Typed /\ Held /\ Flushed => EveryWaitEnds
<1> SUFFICES ASSUME Typed, Held, Flushed PROVE EveryWaitEnds
  OBVIOUS
<1> DEFINE waiting == {r \in Requests : \E s \in Requests : WaitsFor(r, s)}
<1>1. ASSUME NEW r \in Requests, NEW s \in Requests, WaitsFor(r, s) PROVE UnderWay(s)
  <2>1. own[s] # NoRows \/ req[s].pc = "approve"
    BY <1>1, NoRowsTyped, TableNames DEF WaitsFor, HasUser, Approving
  <2> QED BY <2>1 DEF Held, Owned, Bare, UnderWay, Ended
<1>2. ASSUME NEW s \in waiting
      PROVE  /\ req[s].pc \notin {"commit", "approve"} /\ own[s]["instruments"] = {}
             /\ own[s]["users"] # {} => \/ req[s].pc = "insertInstruments"
                                       \/ /\ Wanted(s) = DemoEmail
                                          /\ ~HasUser(own[s]["users"], DemoEmail)
                                          /\ req[s].pc = "insertDemo"
  <2>1. req[s].pc \in {"insertAdmin", "insertDemo", "user", "insertInstruments", "account"}
    BY DEF WaitsFor, Wanted
  <2>2. own[s]["instruments"] = {}
    BY <2>1 DEF Flushed, OwnFlushed
  <2>3. req[s].pc \in {"insertAdmin", "user", "account"} => own[s]["users"] = {}
    BY DEF Held, Owned, Early
  <2>4. req[s].pc = "insertDemo" =>
          Wanted(s) = DemoEmail /\ ~HasUser(own[s]["users"], DemoEmail)
    BY DEF Held, Owned, Wanted
  <2> QED BY <2>1, <2>2, <2>3, <2>4
<1>3. ASSUME NEW r \in Requests, NEW s \in waiting, WaitsFor(r, s)
      PROVE  Wanted(r) # None /\ HasUser(own[s]["users"], Wanted(r)) /\ own[s]["users"] # {}
  BY <1>2, <1>3 DEF WaitsFor, Approving, HasUser
<1>4. ASSUME NEW ring \in (SUBSET waiting) \ {{}}, \A r \in ring : \E s \in ring : WaitsFor(r, s)
      PROVE  FALSE
  <2>1. PICK r \in ring : TRUE
    OBVIOUS
  <2>2. PICK s \in ring : WaitsFor(r, s)
    BY <1>4
  <2>3. PICK t \in ring : WaitsFor(s, t)
    BY <1>4
  <2>4. PICK u \in ring : WaitsFor(t, u)
    BY <1>4
  <2>5. r \in Requests /\ s \in waiting /\ t \in waiting /\ u \in waiting
    OBVIOUS
  <2>6. /\ own[s]["users"] # {} /\ own[t]["users"] # {}
        /\ HasUser(own[t]["users"], Wanted(s)) /\ Wanted(s) # None
        /\ HasUser(own[u]["users"], Wanted(t)) /\ Wanted(t) # None
    BY <1>3, <2>2, <2>3, <2>4, <2>5
  <2>7. Wanted(t) = DemoEmail /\ Wanted(s) = DemoEmail /\ ~HasUser(own[t]["users"], DemoEmail)
    BY <1>2, <2>5, <2>6 DEF Wanted
  <2> QED BY <2>6, <2>7
<1>5. \A ring \in (SUBSET waiting) \ {{}} : \E r \in ring : \A s \in ring : ~WaitsFor(r, s)
  BY <1>4
<1>6. \A r \in waiting, s \in Requests : WaitsFor(r, s) => UnderWay(s)
  BY <1>1
<1> QED BY <1>5, <1>6 DEF EveryWaitEnds

(* Whatever requests race, one that waits, at the unique email, at the     *)
(* unique symbol or at a purchase's row, waits for a request under way,    *)
(* and never in a circle: the database sees no deadlock among logins,      *)
(* registrations, new users, purchases and approvals.                      *)
THEOREM WaitsEnd == Spec => []EveryWaitEnds
<1>1. Init => Typed /\ Roles /\ Held /\ Flushed
  BY InitTyped, InitHeld, InitFlushed
<1>2. Typed /\ Roles /\ Held /\ Flushed /\ [Next]_vars => (Typed /\ Roles /\ Held /\ Flushed)'
  BY TypedStep, HeldStep, FlushedStep
<1>3. Typed /\ Roles /\ Held /\ Flushed => EveryWaitEnds
  BY HeldEveryWaitEnds
<1> QED BY <1>1, <1>2, <1>3, PTL DEF Spec

---------------------------------------------------------------------------
(* Registrations with their accounts, purchases with their users, and      *)
(* approvals with their purchases, before and after they are committed.    *)
OwnWhole(r) ==
  /\ r \in Registrations =>
       \A u \in own[r]["users"] : \E a \in own[r]["accounts"] : a.user = u.email
  /\ \A a \in own[r]["accounts"] : HasUser(View(r, "users"), a.user)
  /\ \A p \in own[r]["purchases"] : /\ HasUser(db["users"], p.user)
                                    /\ p.status = "PENDING_VERIFICATION"
                                    /\ \A q \in own[r]["purchases"] : p = q

PurchasesDiffer ==
  \A p \in db["purchases"] : /\ HasUser(db["users"], p.user)
                             /\ \A q \in db["purchases"] : p.by = q.by => p = q

(* What an approval was asked for is still there.                          *)
Backed(r) ==
  /\ HasUser(db["users"], req[r].purchase.user)
  /\ \E p \in db["purchases"] : /\ p.by = req[r].purchase.by
                                /\ p.user = req[r].purchase.user
                                /\ p.size = req[r].purchase.size

Whole ==
  /\ RegistrationsWhole /\ ApprovalsFunded /\ PurchasesDiffer
  /\ \A r \in Requests : OwnWhole(r)
  /\ \A r \in Approvals : req[r].pc # "waiting" => Backed(r)

(* At first there are no registrations, purchases or accounts.             *)
LEMMA InitWhole == Init => Whole
<1> SUFFICES ASSUME Init PROVE Whole
  OBVIOUS
<1>1. \A r \in Requests : \A t \in Tables : own[r][t] = {}
  BY NoRowsTyped DEF Init
<1>2. \A r \in Requests : req[r].pc = "waiting"
  BY DEF Init
<1>3. RegistrationsWhole
  BY InitRows, RequestKinds DEF RegistrationsWhole, Requests
<1>4. ApprovalsFunded /\ PurchasesDiffer
  BY InitRows DEF ApprovalsFunded, PurchasesDiffer
<1>5. \A r \in Requests : OwnWhole(r)
  BY <1>1, TableNames DEF OwnWhole
<1> QED BY <1>2, <1>3, <1>4, <1>5 DEF Whole, Requests

(* A step that commits nothing and inserts no user.                        *)
LEMMA WholeKept ==
  ASSUME Typed, Held, Whole, NEW r \in Requests, Alone(r), UNCHANGED db,
         req[r].pc # "waiting" => req'[r].purchase = req[r].purchase,
         r \in Approvals => Backed(r)',
         OwnWhole(r)'
  PROVE  Whole'
<1>1. \A s \in Approvals : s \in Requests
  BY DEF Requests
<1>2. RegistrationsWhole'
  BY DEF Whole, RegistrationsWhole, HasUser
<1>3. \A s \in Requests : req[s].pc # "waiting" => req'[s].purchase = req[s].purchase
  BY DEF Alone
<1>4. \A a \in db["accounts"] : a.by \in Approvals => req[a.by].pc # "waiting"
  BY <1>1, TableNames DEF Held, Fresh, Past
<1>5. ApprovalsFunded'
  BY <1>1, <1>3, <1>4 DEF Whole, ApprovalsFunded
<1>6. \A s \in Requests : OwnWhole(s)'
  <2>1. \A s \in Requests \ {r} : OwnWhole(s)'
    BY DEF Whole, OwnWhole, Alone, View, HasUser
  <2> QED BY <2>1
<1>7. \A s \in Approvals : req'[s].pc # "waiting" => Backed(s)'
  BY <1>1 DEF Whole, Backed, Alone, HasUser
<1>8. PurchasesDiffer'
  BY DEF Whole, PurchasesDiffer, HasUser
<1> QED BY <1>2, <1>5, <1>6, <1>7, <1>8 DEF Whole

(* A request whose rows and purchase stay, and all users with them, stays  *)
(* whole.                                                                  *)
LEMMA OwnWholeKept ==
  ASSUME Whole, NEW r \in Requests, UNCHANGED db,
         \/ own'[r] = NoRows
         \/ /\ own'[r]["users"] = own[r]["users"] /\ own'[r]["accounts"] = own[r]["accounts"]
            /\ own'[r]["purchases"] = own[r]["purchases"]
  PROVE  OwnWhole(r)'
<1>1. CASE own'[r] = NoRows
  BY <1>1, NoRowsTyped, TableNames DEF OwnWhole
<1>2. CASE /\ own'[r]["users"] = own[r]["users"] /\ own'[r]["accounts"] = own[r]["accounts"]
           /\ own'[r]["purchases"] = own[r]["purchases"]
  BY <1>2 DEF Whole, OwnWhole, View, HasUser
<1> QED BY <1>1, <1>2

(* The steps of a request that is under way.                               *)
LEMMA WholeGoes ==
  ASSUME Typed, Held, Whole, NEW r \in Requests, Alone(r), UNCHANGED db,
         req[r].pc # "waiting", req'[r].purchase = req[r].purchase,
         \/ own'[r] = NoRows
         \/ /\ own'[r]["users"] = own[r]["users"] /\ own'[r]["accounts"] = own[r]["accounts"]
            /\ own'[r]["purchases"] = own[r]["purchases"]
  PROVE  Whole'
<1>1. OwnWhole(r)'
  BY OwnWholeKept
<1>2. r \in Approvals => Backed(r)'
  BY DEF Whole, Backed, HasUser
<1> QED BY <1>1, <1>2, WholeKept

(* A user inserted with the account of the same registration.              *)
LEMMA WholeInserts ==
  ASSUME Typed, Held, Whole, NEW r \in Requests, Alone(r), NEW email, NEW accounts, NEW pc,
         Inserts(r, email, accounts, pc), req[r].pc # "waiting",
         \A a \in accounts : a.user = email,
         r \in Registrations => \E a \in accounts : a.user = email
  PROVE  Whole'
<1>1. /\ own'[r]["users"] = own[r]["users"] \union {[email |-> email, by |-> r]}
      /\ own'[r]["accounts"] = own[r]["accounts"] \union accounts
      /\ own'[r]["purchases"] = own[r]["purchases"]
      /\ UNCHANGED db /\ req'[r].purchase = req[r].purchase
  BY TableNames DEF Inserts
<1>2. PICK new : new = [email |-> email, by |-> r]
  OBVIOUS
<1>3. new.email = email /\ own'[r]["users"] = own[r]["users"] \union {new}
  BY <1>1, <1>2
<1>4. OwnWhole(r)'
  BY <1>1, <1>3 DEF Whole, OwnWhole, HasUser, View
<1>5. r \in Approvals => Backed(r)'
  BY <1>1 DEF Whole, Backed, HasUser
<1> QED BY <1>1, <1>4, <1>5, WholeKept

(* A commit takes the user and the account together.                       *)
LEMMA WholeCommits ==
  ASSUME Typed, Roles, Held, Whole, NEW r \in Requests, Alone(r),
         req[r].pc = "commit", own'[r] = NoRows, req'[r].purchase = req[r].purchase,
         \A t \in Tables : db'[t] = View(r, t)
  PROVE  Whole'
<1>1. /\ db'["users"] = db["users"] \union own[r]["users"]
      /\ db'["accounts"] = db["accounts"] \union own[r]["accounts"]
      /\ db'["purchases"] = db["purchases"] \union own[r]["purchases"]
  BY TableNames DEF View
<1>2. \A e : HasUser(db["users"], e) => HasUser(db'["users"], e)
  BY <1>1 DEF HasUser
<1>3. /\ r \notin Approvals /\ \A s \in Approvals : s \in Requests
      /\ \A s \in Requests : req'[s].purchase = req[s].purchase
  BY DEF Roles, RoleOf, Requests, Alone
<1>4. /\ \A u \in own[r]["users"] : u.by = r
      /\ \A a \in own[r]["accounts"] : a.by = r
      /\ \A p \in own[r]["purchases"] : p.by = r
  BY TableNames DEF Held, Owned
<1>5. \A p \in db["purchases"] : p.by # r
  BY TableNames DEF Held, Fresh, Past
<1>6. RegistrationsWhole'
  <2>1. \A u \in db'["users"] : u.by \in Registrations =>
          \E a \in db'["accounts"] : a.by = u.by /\ a.user = u.email
    BY <1>1, <1>4 DEF Whole, RegistrationsWhole, OwnWhole
  <2>2. \A a \in db'["accounts"] : HasUser(db'["users"], a.user)
    BY <1>1 DEF Whole, RegistrationsWhole, OwnWhole, View, HasUser
  <2> QED BY <2>1, <2>2 DEF RegistrationsWhole
<1>7. ASSUME NEW a \in db["accounts"], a.by \in Approvals PROVE req[a.by].purchase.by # r
  <2>1. req[a.by].pc # "waiting"
    BY <1>3, <1>7, TableNames DEF Held, Fresh, Past
  <2> QED BY <1>5, <1>7, <2>1 DEF Whole, Backed
<1>8. ApprovalsFunded'
  <2>1. ASSUME NEW p \in db'["purchases"], p.status = "APPROVED"
        PROVE  p.account \in db'["accounts"] /\ p.account.user = p.user /\ p.account.size = p.size
    <3>1. p \in db["purchases"]
      BY <1>1, <2>1 DEF Whole, OwnWhole
    <3> QED BY <1>1, <2>1, <3>1 DEF Whole, ApprovalsFunded
  <2>2. ASSUME NEW p \in db'["purchases"], NEW a \in db'["accounts"],
               a.by \in Approvals, req'[a.by].purchase.by = p.by
        PROVE  p.status = "APPROVED"
    <3>1. a \in db["accounts"] /\ req[a.by].purchase.by = p.by
      BY <1>1, <1>3, <1>4, <2>2
    <3>2. p \in db["purchases"]
      BY <1>1, <1>4, <1>7, <2>2, <3>1
    <3> QED BY <2>2, <3>1, <3>2 DEF Whole, ApprovalsFunded
  <2> QED BY <2>1, <2>2 DEF ApprovalsFunded
<1>9. PurchasesDiffer'
  BY <1>1, <1>2, <1>4, <1>5 DEF Whole, PurchasesDiffer, OwnWhole
<1>10. \A s \in Requests : OwnWhole(s)'
  <2>1. OwnWhole(r)'
    BY NoRowsTyped, TableNames DEF OwnWhole
  <2>2. ASSUME NEW s \in Requests \ {r} PROVE OwnWhole(s)'
    <3>1. OwnWhole(s) /\ own'[s] = own[s]
      BY DEF Whole, Alone
    <3>2. View(s, "users") \subseteq View(s, "users")'
      BY <1>1, <3>1 DEF View
    <3> QED BY <1>2, <3>1, <3>2, UsersGrow DEF OwnWhole
  <2> QED BY <2>1, <2>2
<1>11. ASSUME NEW s \in Approvals, req'[s].pc # "waiting" PROVE Backed(s)'
  <2>1. Backed(s) /\ req'[s].purchase = req[s].purchase
    BY <1>3, <1>11 DEF Whole, Alone
  <2> QED BY <1>1, <1>2, <2>1 DEF Backed
<1> QED BY <1>6, <1>8, <1>9, <1>10, <1>11 DEF Whole

(* Purchases are told apart by their rows before and after one is marked   *)
(* approved.                                                               *)
LEMMA ApprovedOnce ==
  ASSUME NEW rows \in SUBSET PurchaseRows, NEW purchase, NEW account,
         \A p, q \in rows : p.by = q.by => p = q
  PROVE  /\ \A x, y \in Approved(rows, purchase, account) : x.by = y.by => x = y
         /\ \A p \in rows : \E x \in Approved(rows, purchase, account) :
              x.by = p.by /\ x.user = p.user /\ x.size = p.size
<1> DEFINE Image(p) == IF p.by = purchase.by
                       THEN [p EXCEPT !.status = "APPROVED", !.account = account] ELSE p
<1>1. Approved(rows, purchase, account) = {Image(p) : p \in rows}
  BY DEF Approved
<1>2. \A p \in rows : /\ Image(p).by = p.by /\ Image(p).user = p.user
                      /\ Image(p).size = p.size
  BY DEF PurchaseRows
<1> HIDE DEF Image
<1> QED BY <1>1, <1>2

(* An approval's commit: the purchase it marks has the account it adds,    *)
(* and the purchases of other approvals keep theirs, the approval of an    *)
(* approved purchase included.                                             *)
LEMMA WholeApproves ==
  ASSUME Typed, Roles, Held, Flushed, Whole, NEW r \in Requests, CommitApproval(r)
  PROVE  Whole'
<1>0. RoleOf(r)
  BY DEF Roles
<1>1. PICK account : account = Bought(r)
  OBVIOUS
<1>2. /\ Alone(r) /\ own'[r] = NoRows /\ req[r].pc = "approve"
      /\ req'[r].purchase = req[r].purchase
      /\ db'["purchases"] = Approved(db["purchases"], req[r].purchase, account)
      /\ db'["accounts"] = db["accounts"] \union own[r]["accounts"]
      /\ db'["users"] = db["users"] \union own[r]["users"]
  BY <1>0, <1>1, CommitApprovalEffect, TableNames DEF View
<1>3. /\ r \in Approvals /\ Backed(r) /\ db["purchases"] \in SUBSET PurchaseRows
      /\ \A s \in Approvals : s \in Requests
      /\ \A s \in Requests : req'[s].purchase = req[s].purchase
  BY <1>0, <1>2 DEF RoleOf, Whole, Typed, RowsTyped, Requests, Alone
<1>4. account.by = r /\ account.user = req[r].purchase.user /\ account.size = req[r].purchase.size
  BY <1>0, <1>1, <1>2, BoughtRow
<1>a. db'["accounts"] = db["accounts"] \union {account}
  BY <1>1, <1>2, <1>3 DEF Flushed, OwnFlushed
<1>5. \A e : HasUser(db["users"], e) => HasUser(db'["users"], e)
  BY <1>2 DEF HasUser
<1>6. db'["users"] = db["users"]
  BY <1>2 DEF Held, Owned, Early
<1>7. RegistrationsWhole'
  <2>1. HasUser(db'["users"], account.user)
    BY <1>3, <1>4, <1>5 DEF Backed
  <2> QED BY <1>a, <1>5, <1>6, <2>1 DEF Whole, RegistrationsWhole
<1>8. \A p \in db["purchases"] : p.by = req[r].purchase.by =>
        p.user = req[r].purchase.user /\ p.size = req[r].purchase.size
  BY <1>3 DEF Backed, Whole, PurchasesDiffer
<1>9. ASSUME NEW x \in db'["purchases"]
      PROVE  \E p \in db["purchases"] :
               /\ x.by = p.by /\ x.user = p.user /\ x.size = p.size
               /\ IF p.by = req[r].purchase.by
                  THEN x.status = "APPROVED" /\ x.account = account ELSE x = p
  BY <1>2, <1>3, ApprovedRows
<1>10. ApprovalsFunded'
  <2>1. ASSUME NEW x \in db'["purchases"]
        PROVE  /\ x.status = "APPROVED" => /\ x.account \in db'["accounts"]
                                           /\ x.account.user = x.user /\ x.account.size = x.size
               /\ \A a \in db'["accounts"] : a.by \in Approvals /\ req'[a.by].purchase.by = x.by =>
                    x.status = "APPROVED"
    <3>1. PICK p \in db["purchases"] :
               /\ x.by = p.by /\ x.user = p.user /\ x.size = p.size
               /\ IF p.by = req[r].purchase.by
                  THEN x.status = "APPROVED" /\ x.account = account ELSE x = p
      BY <1>9
    <3>2. CASE p.by = req[r].purchase.by
      BY <1>a, <1>4, <1>8, <3>1, <3>2
    <3>3. CASE p.by # req[r].purchase.by
      <4>1. x = p
        BY <3>1, <3>3
      <4>2. x.status = "APPROVED" => /\ x.account \in db["accounts"]
                                     /\ x.account.user = x.user /\ x.account.size = x.size
        BY <4>1 DEF Whole, ApprovalsFunded
      <4>3. ASSUME NEW a \in db'["accounts"], a.by \in Approvals, req'[a.by].purchase.by = x.by
            PROVE  x.status = "APPROVED"
        <5>1. a \in db["accounts"]
          BY <1>a, <1>3, <1>4, <3>1, <3>3, <4>3
        <5> QED BY <1>3, <4>1, <4>3, <5>1 DEF Whole, ApprovalsFunded
      <4> QED BY <1>a, <4>2, <4>3
    <3> QED BY <3>2, <3>3
  <2> QED BY <2>1 DEF ApprovalsFunded
<1>11. \A p, q \in db["purchases"] : p.by = q.by => p = q
  BY DEF Whole, PurchasesDiffer
<1>12. PurchasesDiffer'
  <2>1. \A x, y \in db'["purchases"] : x.by = y.by => x = y
    BY <1>2, <1>3, <1>11, ApprovedOnce
  <2>2. \A x \in db'["purchases"] : HasUser(db'["users"], x.user)
    BY <1>5, <1>9 DEF Whole, PurchasesDiffer
  <2> QED BY <2>1, <2>2 DEF PurchasesDiffer
<1>13. \A s \in Requests : OwnWhole(s)'
  <2>1. OwnWhole(r)'
    BY <1>2, NoRowsTyped, TableNames DEF OwnWhole
  <2>2. ASSUME NEW s \in Requests \ {r} PROVE OwnWhole(s)'
    <3>1. OwnWhole(s) /\ own'[s] = own[s]
      BY <1>2 DEF Whole, Alone
    <3>2. View(s, "users") \subseteq View(s, "users")'
      BY <1>2, <3>1 DEF View
    <3> QED BY <1>5, <3>1, <3>2, UsersGrow DEF OwnWhole
  <2> QED BY <2>1, <2>2
<1>14. \A p \in db["purchases"] : \E x \in db'["purchases"] :
         x.by = p.by /\ x.user = p.user /\ x.size = p.size
  BY <1>2, <1>3, <1>11, ApprovedOnce
<1>15. \A s \in Approvals : req'[s].pc # "waiting" => Backed(s)'
  <2>1. \A s \in Approvals : req'[s].pc # "waiting" => req[s].pc # "waiting"
    BY <1>2, <1>3 DEF Alone
  <2> QED BY <1>3, <1>5, <1>14, <2>1 DEF Whole, Backed
<1> QED BY <1>7, <1>10, <1>12, <1>13, <1>15 DEF Whole

(* Every step keeps registrations, purchases and approvals whole.          *)
LEMMA WholeStep == Typed /\ Roles /\ Held /\ Flushed /\ Whole /\ [Next]_vars => Whole'
<1> SUFFICES ASSUME Typed, Roles, Held, Flushed, Whole, [Next]_vars PROVE Whole'
  OBVIOUS
<1>1. CASE Crash
  <2>1. /\ UNCHANGED db
        /\ \A r \in Requests : /\ own'[r] = NoRows /\ req'[r].purchase = req[r].purchase
                               /\ req'[r].pc # "waiting" => req[r].pc # "waiting"
    BY <1>1, CrashEffect DEF UnderWay, Ended
  <2>2. \A s \in Approvals : s \in Requests
    BY DEF Requests
  <2>3. \A r \in Requests : OwnWhole(r)'
    BY <2>1, NoRowsTyped, TableNames DEF OwnWhole
  <2>4. RegistrationsWhole' /\ PurchasesDiffer'
    BY <2>1 DEF Whole, RegistrationsWhole, PurchasesDiffer, HasUser
  <2>5. ApprovalsFunded'
    BY <2>1, <2>2 DEF Whole, ApprovalsFunded
  <2>6. \A s \in Approvals : req'[s].pc # "waiting" => Backed(s)'
    BY <2>1, <2>2 DEF Whole, Backed, HasUser
  <2> QED BY <2>3, <2>4, <2>5, <2>6 DEF Whole
<1>2. ASSUME NEW r \in Requests, Begin(r) PROVE Whole'
  <2>1. ASSUME r \notin Approvals, Alone(r), UNCHANGED <<own, db>>, req[r].pc = "waiting"
        PROVE  Whole'
    BY <2>1, OwnWholeKept, WholeKept
  <2>2. ASSUME NEW email \in Emails, r \in Logins, Login(r, email) PROVE Whole'
    BY <2>1, <2>2, LoginEffect, RequestKinds DEF BeginsAs
  <2>3. ASSUME NEW email \in Emails, r \in Registrations \/ r \in Creations,
               Register(r, email) \/ CreateUser(r, email)
        PROVE  Whole'
    BY <2>1, <2>3, LookUpBeginsEffect, RequestKinds DEF BeginsAs
  <2>4. ASSUME r \in Purchases, NEW user \in db["users"], NEW package \in db["packages"],
               Purchase(r, user, package)
        PROVE  Whole'
    <3>1. PICK row : row = PurchaseRow(r, user, package)
      OBVIOUS
    <3>2. /\ Alone(r) /\ BeginsAs(r, "commit") /\ r \notin Approvals
          /\ Added(r, "purchases", {row})
      BY <2>4, <3>1, PurchaseEffect, RequestKinds
    <3>3. row.user = user.email /\ row.status = "PENDING_VERIFICATION"
      BY <3>1 DEF PurchaseRow
    <3>4. \A t \in Tables : own[r][t] = {}
      BY <3>2, NoRowsTyped DEF BeginsAs, Held, Owned, Bare
    <3>5. /\ own'[r]["purchases"] = {row} /\ own'[r]["users"] = {} /\ own'[r]["accounts"] = {}
          /\ UNCHANGED db /\ req[r].pc = "waiting"
      BY <3>2, <3>4, TableNames DEF Added, BeginsAs
    <3>6. OwnWhole(r)'
      BY <3>3, <3>5 DEF OwnWhole, HasUser
    <3> QED BY <3>2, <3>5, <3>6, WholeKept
  <2>5. ASSUME r \in Approvals, NEW purchase \in db["purchases"], Approve(r, purchase)
        PROVE  Whole'
    <3>1. /\ Alone(r) /\ UNCHANGED <<own, db>> /\ req[r].pc = "waiting"
          /\ req'[r].purchase = purchase
      BY <2>5, ApproveEffect DEF BeginsAs
    <3>2. Backed(r)'
      BY <3>1 DEF Backed, Whole, PurchasesDiffer, HasUser
    <3> QED BY <3>1, <3>2, OwnWholeKept, WholeKept
  <2> QED BY <1>2, <2>2, <2>3, <2>4, <2>5 DEF Begin
<1>3. ASSUME NEW r \in Requests, Continue(r) PROVE Whole'
  <2>0. RoleOf(r)
    BY DEF Roles
  <2>e. ASSUME NEW from, NEW to, from # "waiting", Alone(r), Ends(r, from, to) PROVE Whole'
    BY <2>e, WholeGoes DEF Ends
  <2>p. ASSUME NEW from, NEW to, from # "waiting", Alone(r), Proceeds(r, from, to), UNCHANGED db,
               /\ own'[r]["users"] = own[r]["users"] /\ own'[r]["accounts"] = own[r]["accounts"]
               /\ own'[r]["purchases"] = own[r]["purchases"]
        PROVE  Whole'
    BY <2>p, WholeGoes DEF Proceeds, Same
  <2>1. CASE SelectAdmin(r)
    BY <2>1, <2>p, SelectAdminEffect DEF Quiet
  <2>2. CASE InsertAdmin(r)
    <3>1. CASE Proceeds(r, "insertAdmin", "demo") /\ Inserts(r, AdminEmail, {}, "demo")
      <4>1. r \notin Registrations /\ req[r].pc # "waiting"
        BY <2>0, <3>1, RequestKinds DEF RoleOf, Proceeds, Seeding
      <4> QED BY <2>2, <3>1, <4>1, InsertAdminEffect, WholeInserts
    <3> QED BY <2>2, <2>e, <3>1, InsertAdminEffect
  <2>3. CASE SelectDemo(r)
    BY <2>3, <2>p, SelectDemoEffect, TableNames DEF Quiet
  <2>4. CASE InsertDemo(r)
    <3>1. CASE /\ Proceeds(r, "insertDemo", "packages")
               /\ Inserts(r, DemoEmail, {Account(r, DemoEmail, India(r), IndiaRule(r), DemoSize)},
                          "packages")
      <4>1. r \notin Registrations /\ req[r].pc # "waiting"
        BY <2>0, <3>1, RequestKinds DEF RoleOf, Proceeds, Seeding
      <4>2. PICK accounts : accounts = {Account(r, DemoEmail, India(r), IndiaRule(r), DemoSize)}
        OBVIOUS
      <4>3. \A a \in accounts : a.user = DemoEmail
        BY <4>2 DEF Account
      <4>4. Alone(r) /\ Inserts(r, DemoEmail, accounts, "packages")
        BY <2>4, <3>1, <4>2, InsertDemoEffect
      <4> QED BY <4>1, <4>3, <4>4, WholeInserts
    <3> QED BY <2>4, <2>e, <3>1, InsertDemoEffect
  <2>5. CASE SeedPackages(r)
    BY <2>5, <2>p, SeedPackagesEffect, TableNames DEF Quiet, Added
  <2>6. CASE SeedInstruments(r)
    BY <2>6, <2>p, SeedInstrumentsEffect DEF Quiet
  <2>14. CASE InsertInstruments(r)
    BY <2>14, <2>e, <2>p, InsertInstrumentsEffect, TableNames DEF Added
  <2>15. CASE UpdatePurchase(r)
    <3>1. PICK account : account = Bought(r)
      OBVIOUS
    <3>2. /\ Alone(r) /\ UNCHANGED db /\ req[r].pc = "account"
          /\ req'[r].purchase = req[r].purchase /\ Added(r, "accounts", {account})
      BY <2>0, <2>15, <3>1, UpdatePurchaseEffect DEF Proceeds, Same
    <3>3. r \in Approvals /\ r \notin Registrations /\ account.user = req[r].purchase.user
      BY <2>0, <3>1, <3>2, BoughtRow, RequestKinds
    <3>4. Backed(r) /\ Backed(r)'
      BY <3>2, <3>3 DEF Whole, Backed, HasUser
    <3>5. HasUser(View(r, "users")', account.user)
      BY <3>2, <3>3, <3>4 DEF Backed, View, HasUser
    <3>6. OwnWhole(r)'
      BY <3>2, <3>3, <3>5, TableNames DEF Whole, OwnWhole, Added, View
    <3> QED BY <3>2, <3>4, <3>6, WholeKept
  <2>7. CASE SignIn(r)
    BY <2>7, <2>e, SignInEffect
  <2>8. CASE LookUpEmail(r)
    BY <2>8, <2>e, <2>p, LookUpEmailEffect DEF Quiet
  <2>9. CASE EnsureChallenge(r)
    <3>1. CASE Ends(r, "challenge", "raised")
      BY <2>9, <2>e, <3>1, EnsureChallengeEffect
    <3>2. CASE ~Ends(r, "challenge", "raised")
      <4>1. /\ UNCHANGED db /\ Alone(r) /\ req[r].pc = "challenge"
            /\ req'[r].purchase = req[r].purchase
            /\ UNCHANGED own \/ \E x : Added(r, "challenges", {x})
        BY <2>9, <3>2, EnsureChallengeEffect DEF EnsuresChallenge
      <4> QED BY <4>1, WholeGoes, TableNames DEF Added
    <3> QED BY <3>1, <3>2
  <2>10. CASE EnsureRule(r)
    <3>1. CASE Ends(r, "rule", "raised")
      BY <2>0, <2>10, <2>e, <3>1, EnsureRuleEffect
    <3>2. CASE ~Ends(r, "rule", "raised")
      <4>1. /\ UNCHANGED db /\ Alone(r) /\ req[r].pc = "rule"
            /\ req'[r].purchase = req[r].purchase
            /\ UNCHANGED own \/ \E x : Added(r, "rules", {x})
        BY <2>0, <2>10, <3>2, EnsureRuleEffect DEF EnsuresRule
      <4> QED BY <4>1, WholeGoes, TableNames DEF Added
    <3> QED BY <3>1, <3>2
  <2>11. CASE InsertUser(r)
    <3>1. CASE Ends(r, "user", "raised")
      BY <2>0, <2>11, <2>e, <3>1, InsertUserEffect
    <3>2. CASE ~Ends(r, "user", "raised")
      <4>1. PICK email : email = req[r].email
        OBVIOUS
      <4>2. PICK accounts : accounts =
              IF r \in Creations THEN {}
              ELSE {Account(r, req[r].email, req[r].challenge, req[r].rule, CoreSize)}
        OBVIOUS
      <4>3. /\ Alone(r) /\ Proceeds(r, "user", "commit")
            /\ Inserts(r, email, accounts, "commit")
        BY <2>0, <2>11, <3>2, <4>1, <4>2, InsertUserEffect
      <4>4. /\ \A a \in accounts : a.user = email
            /\ r \notin Creations => \E a \in accounts : a.user = email
        <5>1. PICK account :
                account = Account(r, req[r].email, req[r].challenge, req[r].rule, CoreSize)
          OBVIOUS
        <5>2. account.user = email
          BY <4>1, <5>1 DEF Account
        <5> QED BY <4>2, <5>1, <5>2
      <4>5. req[r].pc # "waiting" /\ (r \in Registrations => r \notin Creations)
        BY <4>3, RequestKinds DEF Proceeds
      <4> QED BY <4>3, <4>4, <4>5, WholeInserts
    <3> QED BY <3>1, <3>2
  <2>12. CASE CommitApproval(r)
    BY <2>12, WholeApproves
  <2>13. CASE CommitRequest(r)
    BY <2>13, CommitRequestEffect, WholeCommits
  <2> QED BY <1>3, <2>1, <2>2, <2>3, <2>4, <2>5, <2>6, <2>7, <2>8, <2>9, <2>10,
              <2>11, <2>12, <2>13, <2>14, <2>15 DEF Continue
<1>4. CASE UNCHANGED vars
  BY <1>4 DEF vars, Whole, OwnWhole, Backed, RegistrationsWhole, ApprovalsFunded,
              PurchasesDiffer, HasUser, View
<1> QED BY <1>1, <1>2, <1>3, <1>4 DEF Next

(* Whatever fails, races or crashes between the steps of register, a       *)
(* registered user is never committed without the account of the same      *)
(* registration, and no account without its user.                          *)
THEOREM RegistrationsAreWhole == Spec => []RegistrationsWhole
<1>1. Init => Typed /\ Roles /\ Held /\ Flushed /\ Whole
  BY InitTyped, InitHeld, InitFlushed, InitWhole
<1>2. Typed /\ Roles /\ Held /\ Flushed /\ Whole /\ [Next]_vars => (Typed /\ Roles /\ Held /\ Flushed /\ Whole)'
  BY TypedStep, HeldStep, FlushedStep, WholeStep
<1>3. Typed /\ Roles /\ Held /\ Flushed /\ Whole => RegistrationsWhole
  BY DEF Whole
<1> QED BY <1>1, <1>2, <1>3, PTL DEF Spec

(* Whatever approvals race, of one purchase or several, an approved        *)
(* purchase has an account of its buyer and size, and no account was made  *)
(* for a purchase that is still pending.                                   *)
THEOREM ApprovalsAreFunded == Spec => []ApprovalsFunded
<1>1. Init => Typed /\ Roles /\ Held /\ Flushed /\ Whole
  BY InitTyped, InitHeld, InitFlushed, InitWhole
<1>2. Typed /\ Roles /\ Held /\ Flushed /\ Whole /\ [Next]_vars => (Typed /\ Roles /\ Held /\ Flushed /\ Whole)'
  BY TypedStep, HeldStep, FlushedStep, WholeStep
<1>3. Typed /\ Roles /\ Held /\ Flushed /\ Whole => ApprovalsFunded
  BY DEF Whole
<1> QED BY <1>1, <1>2, <1>3, PTL DEF Spec

---------------------------------------------------------------------------
(* Challenges, the rules made for them, and the accounts made under those, *)
(* before and after they are committed.                                    *)
Core == "Core Trading Sandbox"

RulesFit(rules, challenges) ==
  \A rule \in rules : /\ rule.challenge \in challenges
                      /\ rule.challenge.name = Core => rule.size = CoreSize

AccountFits(a, rules, challenges) ==
  /\ a.rule \in rules /\ a.challenge \in challenges
  /\ a.rule.challenge = a.challenge
  /\ a.by \notin Logins => a.rule.size = a.size

OwnFits(r) ==
  /\ RulesFit(own[r]["rules"], View(r, "challenges"))
  /\ \A a \in own[r]["accounts"] : AccountFits(a, View(r, "rules"), View(r, "challenges"))

(* What a request has found or made so far.                                *)
Found(r) ==
  /\ req[r].pc = "rule" => /\ req[r].challenge \in View(r, "challenges")
                           /\ req[r].challenge.name = NameOf(r)
  /\ req[r].pc \in {"account", "approve"} \/ (req[r].pc = "user" /\ r \in Registrations) =>
       /\ req[r].challenge \in View(r, "challenges") /\ req[r].rule \in View(r, "rules")
       /\ req[r].rule.challenge = req[r].challenge /\ req[r].rule.size = SizeOf(r)
  /\ req[r].pc = "insertDemo" => /\ India(r) \in own[r]["challenges"]
                                 /\ IndiaRule(r) \in own[r]["rules"]

Fitting ==
  /\ AccountsFit /\ RulesFit(db["rules"], db["challenges"])
  /\ \A r \in Requests : OwnFits(r) /\ Found(r)

(* At first there are no rules and no accounts.                            *)
LEMMA InitFitting == Init => Fitting
<1> SUFFICES ASSUME Init PROVE Fitting
  OBVIOUS
<1>1. \A r \in Requests : req[r].pc = "waiting" /\ \A t \in Tables : own[r][t] = {}
  BY NoRowsTyped DEF Init
<1>2. AccountsFit /\ RulesFit(db["rules"], db["challenges"])
  BY InitRows DEF AccountsFit, RulesFit
<1>3. \A r \in Requests : OwnFits(r) /\ Found(r)
  BY <1>1, TableNames DEF OwnFits, RulesFit, Found
<1> QED BY <1>2, <1>3 DEF Fitting

(* What fits some rows fits more of them.                                  *)
LEMMA MoreFits ==
  ASSUME NEW r \in Requests, OwnFits(r), own'[r] = own[r],
         db["rules"] \subseteq db'["rules"], db["challenges"] \subseteq db'["challenges"]
  PROVE  OwnFits(r)'
BY DEF OwnFits, RulesFit, AccountFits, View

(* A step of r that commits nothing.                                       *)
LEMMA FittingKept ==
  ASSUME Fitting, NEW r \in Requests, Alone(r), UNCHANGED db, OwnFits(r)', Found(r)'
  PROVE  Fitting'
<1>1. AccountsFit' /\ RulesFit(db["rules"], db["challenges"])'
  BY DEF Fitting, AccountsFit, RulesFit
<1>2. ASSUME NEW s \in Requests \ {r} PROVE OwnFits(s)' /\ Found(s)'
  <2>1. own'[s] = own[s] /\ req'[s] = req[s] /\ OwnFits(s) /\ Found(s)
    BY DEF Alone, Fitting
  <2> QED BY <2>1, MoreFits DEF Found, View, SizeOf
<1> QED BY <1>1, <1>2 DEF Fitting

(* A step of r that adds neither rules nor challenges nor accounts.        *)
LEMMA OwnFitsKept ==
  ASSUME Fitting, NEW r \in Requests, UNCHANGED db,
         \/ own'[r] = NoRows
         \/ /\ own'[r]["challenges"] = own[r]["challenges"]
            /\ own'[r]["rules"] = own[r]["rules"]
            /\ own'[r]["accounts"] = own[r]["accounts"]
  PROVE  OwnFits(r)'
<1>1. CASE own'[r] = NoRows
  BY <1>1, NoRowsTyped, TableNames DEF OwnFits, RulesFit
<1>2. CASE /\ own'[r]["challenges"] = own[r]["challenges"]
           /\ own'[r]["rules"] = own[r]["rules"]
           /\ own'[r]["accounts"] = own[r]["accounts"]
  BY <1>2 DEF Fitting, OwnFits, RulesFit, AccountFits, View
<1> QED BY <1>1, <1>2

(* An account made under a rule the transaction has found or made.         *)
LEMMA FittingInserts ==
  ASSUME Fitting, NEW r \in Requests, Alone(r), NEW email, NEW accounts, NEW pc,
         Inserts(r, email, accounts, pc), pc \notin {"rule", "account", "approve", "user", "insertDemo"},
         \A a \in accounts : AccountFits(a, View(r, "rules"), View(r, "challenges"))
  PROVE  Fitting'
<1>1. /\ own'[r]["accounts"] = own[r]["accounts"] \union accounts
      /\ own'[r]["challenges"] = own[r]["challenges"]
      /\ own'[r]["rules"] = own[r]["rules"]
      /\ UNCHANGED db /\ req'[r].pc = pc
  BY TableNames DEF Inserts
<1>2. OwnFits(r)'
  BY <1>1 DEF Fitting, OwnFits, RulesFit, AccountFits, View
<1>3. Found(r)'
  BY <1>1 DEF Found
<1> QED BY <1>1, <1>2, <1>3, FittingKept

(* A commit takes rules, challenges and accounts together.                 *)
LEMMA FittingCommits ==
  ASSUME Fitting, NEW r \in Requests, Alone(r), own'[r] = NoRows,
         req'[r].pc \notin {"rule", "account", "approve", "user", "insertDemo"},
         db'["rules"] = View(r, "rules"), db'["challenges"] = View(r, "challenges"),
         db'["accounts"] = View(r, "accounts")
  PROVE  Fitting'
<1>1. AccountsFit'
  BY DEF Fitting, AccountsFit, OwnFits, AccountFits, View
<1>2. RulesFit(db["rules"], db["challenges"])'
  BY DEF Fitting, OwnFits, RulesFit, View
<1>3. OwnFits(r)' /\ Found(r)'
  BY NoRowsTyped, TableNames DEF OwnFits, RulesFit, Found
<1>4. ASSUME NEW s \in Requests \ {r} PROVE OwnFits(s)' /\ Found(s)'
  <2>1. own'[s] = own[s] /\ req'[s] = req[s] /\ OwnFits(s) /\ Found(s)
    BY DEF Alone, Fitting
  <2>2. db["rules"] \subseteq db'["rules"] /\ db["challenges"] \subseteq db'["challenges"]
    BY DEF View
  <2> QED BY <2>1, <2>2, MoreFits DEF Found, View, SizeOf
<1> QED BY <1>1, <1>2, <1>3, <1>4 DEF Fitting

(* Every step keeps accounts under rules of their challenge: what a        *)
(* request has found or made stays in its view until it commits.           *)
LEMMA FittingStep == Typed /\ Roles /\ Held /\ Fitting /\ [Next]_vars => Fitting'
<1> SUFFICES ASSUME Typed, Roles, Held, Fitting, [Next]_vars PROVE Fitting'
  OBVIOUS
<1>1. CASE Crash
  <2>1. /\ UNCHANGED db
        /\ \A r \in Requests : own'[r] = NoRows /\ req'[r].pc \in Ended \union {"waiting"}
    BY <1>1, CrashEffect DEF UnderWay, Ended
  <2>2. \A r \in Requests : OwnFits(r)' /\ Found(r)'
    BY <2>1, OwnFitsKept DEF Found, Ended
  <2>3. AccountsFit' /\ RulesFit(db["rules"], db["challenges"])'
    BY <2>1 DEF Fitting, AccountsFit, RulesFit
  <2> QED BY <2>2, <2>3 DEF Fitting
<1> DEFINE Elsewhere == {"rule", "account", "approve", "user", "insertDemo"}
<1>k. ASSUME NEW r \in Requests, Alone(r), UNCHANGED db, req'[r].pc \notin Elsewhere,
             \/ own'[r] = NoRows
             \/ /\ own'[r]["challenges"] = own[r]["challenges"]
                /\ own'[r]["rules"] = own[r]["rules"]
                /\ own'[r]["accounts"] = own[r]["accounts"]
      PROVE  Fitting'
  BY <1>k, OwnFitsKept, FittingKept DEF Found
<1>2. ASSUME NEW r \in Requests, Begin(r) PROVE Fitting'
  <2>1. ASSUME NEW email \in Emails, Login(r, email) PROVE Fitting'
    BY <1>k, <2>1, LoginEffect DEF BeginsAs
  <2>2. ASSUME NEW email \in Emails, Register(r, email) \/ CreateUser(r, email) PROVE Fitting'
    BY <1>k, <2>2, LookUpBeginsEffect DEF BeginsAs
  <2>3. ASSUME NEW user \in db["users"], NEW package \in db["packages"],
               Purchase(r, user, package)
        PROVE  Fitting'
    BY <1>k, <2>3, PurchaseEffect, TableNames DEF BeginsAs, Added
  <2>4. ASSUME NEW purchase \in db["purchases"], Approve(r, purchase) PROVE Fitting'
    BY <1>k, <2>4, ApproveEffect DEF BeginsAs
  <2> QED BY <1>2, <2>1, <2>2, <2>3, <2>4 DEF Begin
<1>3. ASSUME NEW r \in Requests, Continue(r) PROVE Fitting'
  <2>0. RoleOf(r) /\ OwnFits(r) /\ Found(r) /\ RulesFit(db["rules"], db["challenges"])
    BY DEF Roles, Fitting
  <2>e. ASSUME NEW from, NEW to \in Ended, Alone(r), Ends(r, from, to) PROVE Fitting'
    BY <1>k, <2>e DEF Ends, Ended
  <2>p. ASSUME NEW from, NEW to, to \notin Elsewhere, Alone(r), Proceeds(r, from, to), UNCHANGED db,
               /\ own'[r]["challenges"] = own[r]["challenges"] /\ own'[r]["rules"] = own[r]["rules"]
               /\ own'[r]["accounts"] = own[r]["accounts"]
        PROVE  Fitting'
    BY <1>k, <2>p DEF Proceeds
  <2>f. "raised" \in Ended /\ "answered" \in Ended /\ "refused" \in Ended
    BY DEF Ended
  <2>1. CASE SelectAdmin(r)
    BY <2>1, <2>p, SelectAdminEffect DEF Quiet
  <2>2. CASE InsertAdmin(r)
    BY <2>2, <2>e, <2>f, InsertAdminEffect, FittingInserts
  <2>3. CASE SelectDemo(r)
    <3>1. CASE Proceeds(r, "demo", "packages") /\ Quiet
      BY <2>3, <2>p, <3>1, SelectDemoEffect DEF Quiet
    <3>2. CASE /\ Proceeds(r, "demo", "insertDemo")
               /\ own'[r]["challenges"] = own[r]["challenges"] \union {India(r)}
               /\ own'[r]["rules"] = own[r]["rules"] \union {IndiaRule(r)}
               /\ \A t \in Tables \ {"challenges", "rules"} : own'[r][t] = own[r][t]
      <4>1. /\ own'[r]["accounts"] = own[r]["accounts"] /\ UNCHANGED db /\ Alone(r)
            /\ req'[r].pc = "insertDemo"
        BY <2>3, <3>2, SelectDemoEffect, TableNames DEF Proceeds
      <4>2. IndiaRule(r).challenge = India(r) /\ India(r).name # Core
        BY DEF India, IndiaRule, Core
      <4>3. OwnFits(r)'
        BY <2>0, <3>2, <4>1, <4>2 DEF OwnFits, RulesFit, AccountFits, View
      <4>4. Found(r)'
        BY <3>2, <4>1 DEF Found
      <4> QED BY <4>1, <4>3, <4>4, FittingKept
    <3> QED BY <2>3, <3>1, <3>2, SelectDemoEffect
  <2>4. CASE InsertDemo(r)
    <3>1. CASE /\ Proceeds(r, "insertDemo", "packages")
               /\ Inserts(r, DemoEmail, {Account(r, DemoEmail, India(r), IndiaRule(r), DemoSize)},
                          "packages")
      <4>1. PICK accounts : accounts = {Account(r, DemoEmail, India(r), IndiaRule(r), DemoSize)}
        OBVIOUS
      <4>2. /\ r \in Logins /\ India(r) \in own[r]["challenges"]
            /\ IndiaRule(r) \in own[r]["rules"] /\ IndiaRule(r).challenge = India(r)
        BY <2>0, <3>1 DEF RoleOf, Found, Proceeds, Seeding, IndiaRule
      <4>3. \A a \in accounts : /\ a.rule = IndiaRule(r) /\ a.challenge = India(r) /\ a.by = r
        BY <4>1 DEF Account
      <4>4. \A a \in accounts : AccountFits(a, View(r, "rules"), View(r, "challenges"))
        BY <4>2, <4>3 DEF AccountFits, View
      <4>5. Alone(r) /\ Inserts(r, DemoEmail, accounts, "packages")
        BY <2>4, <3>1, <4>1, InsertDemoEffect
      <4> QED BY <4>4, <4>5, FittingInserts
    <3> QED BY <2>4, <2>e, <2>f, <3>1, InsertDemoEffect
  <2>5. CASE SeedPackages(r)
    BY <2>5, <2>p, SeedPackagesEffect, TableNames DEF Quiet, Added
  <2>6. CASE SeedInstruments(r)
    BY <2>6, <2>p, SeedInstrumentsEffect DEF Quiet
  <2>14. CASE InsertInstruments(r)
    BY <2>14, <2>e, <2>f, <2>p, InsertInstrumentsEffect, TableNames DEF Added
  <2>15. CASE UpdatePurchase(r)
    <3>1. PICK account : account = Bought(r)
      OBVIOUS
    <3>2. /\ Alone(r) /\ UNCHANGED db /\ req[r].pc = "account" /\ req'[r].pc = "approve"
          /\ req'[r].challenge = req[r].challenge /\ req'[r].rule = req[r].rule
          /\ req'[r].purchase = req[r].purchase /\ Added(r, "accounts", {account})
      BY <2>0, <2>15, <3>1, UpdatePurchaseEffect DEF Proceeds, Same
    <3>3. AccountFits(account, View(r, "rules"), View(r, "challenges"))
      BY <2>0, <3>1, <3>2 DEF Found, AccountFits, Bought, Account
    <3>4. /\ View(r, "rules")' = View(r, "rules") /\ View(r, "challenges")' = View(r, "challenges")
          /\ own'[r]["rules"] = own[r]["rules"]
          /\ own'[r]["accounts"] = own[r]["accounts"] \union {account}
      BY <3>2, TableNames DEF Added, View
    <3>5. OwnFits(r)'
      BY <2>0, <3>3, <3>4 DEF OwnFits
    <3>6. Found(r)'
      BY <2>0, <3>2, <3>4 DEF Found, SizeOf
    <3> QED BY <3>2, <3>5, <3>6, FittingKept
  <2>7. CASE SignIn(r)
    BY <2>7, <2>e, <2>f, SignInEffect
  <2>8. CASE LookUpEmail(r)
    <3>1. CASE Quiet /\ Proceeds(r, "lookup", IF r \in Registrations THEN "challenge" ELSE "user")
      <4>1. Found(r)'
        BY <3>1 DEF Found, Proceeds
      <4> QED BY <2>8, <3>1, <4>1, LookUpEmailEffect, OwnFitsKept, FittingKept DEF Quiet
    <3> QED BY <2>8, <2>e, <2>f, <3>1, LookUpEmailEffect
  <2>9. CASE EnsureChallenge(r)
    <3>1. CASE Ends(r, "challenge", "raised")
      BY <2>9, <2>e, <2>f, <3>1, EnsureChallengeEffect
    <3>2. CASE ~Ends(r, "challenge", "raised")
      <4>1. PICK new : new = [name |-> NameOf(r), by |-> r]
        OBVIOUS
      <4>2. PICK found : found = {c \in View(r, "challenges") : c.name = NameOf(r)}
        OBVIOUS
      <4>3. /\ UNCHANGED db /\ Alone(r) /\ req'[r].pc = "rule"
            /\ \/ req'[r].challenge \in found /\ UNCHANGED own
               \/ req'[r].challenge = new /\ Added(r, "challenges", {new})
        BY <2>9, <3>2, <4>1, <4>2, EnsureChallengeEffect DEF EnsuresChallenge
      <4>4. /\ View(r, "challenges") \subseteq View(r, "challenges")'
            /\ req'[r].challenge \in View(r, "challenges")'
            /\ req'[r].challenge.name = NameOf(r)
            /\ own'[r]["rules"] = own[r]["rules"] /\ own'[r]["accounts"] = own[r]["accounts"]
        BY <4>1, <4>2, <4>3, TableNames DEF Added, View
      <4>5. OwnFits(r)'
        BY <2>0, <4>3, <4>4 DEF OwnFits, RulesFit, AccountFits, View
      <4>6. Found(r)'
        BY <4>3, <4>4 DEF Found, NameOf
      <4> QED BY <4>3, <4>5, <4>6, FittingKept
    <3> QED BY <3>1, <3>2
  <2>10. CASE EnsureRule(r)
    <3>1. CASE Ends(r, "rule", "raised")
      BY <2>0, <2>10, <2>e, <2>f, <3>1, EnsureRuleEffect
    <3>2. CASE ~Ends(r, "rule", "raised")
      <4>1. PICK new : new = [challenge |-> req[r].challenge, size |-> SizeOf(r), by |-> r]
        OBVIOUS
      <4>2. PICK found : found = {rule \in View(r, "rules") : Fits(r, rule)}
        OBVIOUS
      <4>3. /\ UNCHANGED db /\ Alone(r) /\ req[r].pc = "rule"
            /\ req'[r].pc = IF r \in Approvals THEN "account" ELSE "user"
            /\ req'[r].challenge = req[r].challenge /\ req'[r].purchase = req[r].purchase
            /\ \/ req'[r].rule \in found /\ UNCHANGED own
               \/ req'[r].rule = new /\ Added(r, "rules", {new})
        BY <2>0, <2>10, <3>2, <4>1, <4>2, EnsureRuleEffect DEF EnsuresRule
      <4>4. /\ req[r].challenge \in View(r, "challenges") /\ req[r].challenge.name = NameOf(r)
            /\ r \notin Approvals => NameOf(r) = Core /\ SizeOf(r) = CoreSize
            /\ r \in Approvals => NameOf(r) # Core
        BY <2>0, <4>3 DEF Found, NameOf, SizeOf, Core
      <4>5. \A rule \in found : /\ rule \in View(r, "rules")
                                /\ rule.challenge = req[r].challenge /\ rule.size = SizeOf(r)
        <5>1. \A rule \in View(r, "rules") : rule.challenge.name = Core => rule.size = CoreSize
          BY <2>0 DEF OwnFits, RulesFit, View
        <5> QED BY <4>2, <4>4, <5>1 DEF Fits
      <4>6. /\ new.challenge = req[r].challenge /\ new.size = SizeOf(r)
            /\ new.challenge.name = Core => new.size = CoreSize
        BY <4>1, <4>4
      <4>7. /\ View(r, "rules") \subseteq View(r, "rules")'
            /\ View(r, "challenges")' = View(r, "challenges")
            /\ own'[r]["accounts"] = own[r]["accounts"]
            /\ req'[r].rule \in View(r, "rules")'
            /\ req'[r].rule.challenge = req'[r].challenge /\ req'[r].rule.size = SizeOf(r)'
        BY <4>3, <4>5, <4>6, TableNames DEF Added, View, SizeOf
      <4>8. OwnFits(r)'
        <5>1. RulesFit(own'[r]["rules"], View(r, "challenges")')
          BY <2>0, <4>3, <4>4, <4>6, <4>7 DEF OwnFits, RulesFit, Added
        <5>2. \A a \in own'[r]["accounts"] :
                AccountFits(a, View(r, "rules")', View(r, "challenges")')
          BY <2>0, <4>7 DEF OwnFits, AccountFits
        <5> QED BY <5>1, <5>2 DEF OwnFits
      <4>9. Found(r)'
        BY <4>3, <4>4, <4>7 DEF Found
      <4> QED BY <4>3, <4>8, <4>9, FittingKept
    <3> QED BY <3>1, <3>2
  <2>11. CASE InsertUser(r)
    <3>1. CASE Ends(r, "user", "raised")
      BY <2>0, <2>11, <2>e, <2>f, <3>1, InsertUserEffect
    <3>2. CASE ~Ends(r, "user", "raised")
      <4>1. PICK email : email = req[r].email
        OBVIOUS
      <4>2. PICK account :
              account = Account(r, req[r].email, req[r].challenge, req[r].rule, CoreSize)
        OBVIOUS
      <4>3. PICK accounts : accounts = IF r \in Creations THEN {} ELSE {account}
        OBVIOUS
      <4>4. /\ Alone(r) /\ Proceeds(r, "user", "commit")
            /\ Inserts(r, email, accounts, "commit")
        BY <2>0, <2>11, <3>2, <4>1, <4>2, <4>3, InsertUserEffect
      <4>5. CASE r \notin Creations
        <5>1. req[r].pc = "user" /\ r \in Registrations /\ r \notin Approvals
          BY <2>0, <4>4, <4>5, RequestKinds DEF RoleOf, Proceeds
        <5>2. AccountFits(account, View(r, "rules"), View(r, "challenges"))
          BY <2>0, <4>2, <5>1 DEF Found, AccountFits, Account, SizeOf
        <5> QED BY <4>3, <4>4, <4>5, <5>2, FittingInserts
      <4>6. CASE r \in Creations
        BY <4>3, <4>4, <4>6, FittingInserts
      <4> QED BY <4>5, <4>6
    <3> QED BY <3>1, <3>2
  <2>12. CASE CommitApproval(r)
    BY <2>0, <2>12, CommitApprovalEffect, FittingCommits, TableNames
  <2>13. CASE CommitRequest(r)
    BY <2>13, CommitRequestEffect, FittingCommits, TableNames
  <2> QED BY <1>3, <2>1, <2>2, <2>3, <2>4, <2>5, <2>6, <2>7, <2>8, <2>9, <2>10,
              <2>11, <2>12, <2>13, <2>14, <2>15 DEF Continue
<1>4. CASE UNCHANGED vars
  BY <1>4 DEF vars, Fitting, AccountsFit, OwnFits, RulesFit, AccountFits, Found, View, SizeOf
<1> QED BY <1>1, <1>2, <1>3, <1>4 DEF Next

(* Every account trades under a committed rule of its own challenge, and a *)
(* bought or registered one under the rule of its size, however the        *)
(* requests that find and make challenges and rules interleave.            *)
THEOREM AccountsAlwaysFit == Spec => []AccountsFit
<1>1. Init => Typed /\ Roles /\ Held /\ Fitting
  BY InitTyped, InitHeld, InitFitting
<1>2. Typed /\ Roles /\ Held /\ Fitting /\ [Next]_vars => (Typed /\ Roles /\ Held /\ Fitting)'
  BY TypedStep, HeldStep, FittingStep
<1>3. Typed /\ Roles /\ Held /\ Fitting => AccountsFit
  BY DEF Fitting
<1> QED BY <1>1, <1>2, <1>3, PTL DEF Spec
---------------------------------------------------------------------------
(* The seed.  X is a seeded email, and as long as nobody but a login has   *)
(* taken it, whoever has added packages has inserted that user in the same *)
(* transaction, so that no other transaction commits it first.             *)
OwnSeed(X, r) ==
  /\ r \in Logins => \A c \in own[r]["challenges"] :
       c = India(r) /\ (req[r].pc = "insertDemo" \/ HasUser(own[r]["users"], DemoEmail))
  /\ own[r]["packages"] # {} => bootstrap /\ (Taken(X) \/ HasUser(own[r]["users"], X))
  /\ bootstrap /\ r \in Logins =>
       /\ req[r].pc \in {"demo", "insertDemo", "packages", "instruments",
                         "insertInstruments", "commit"} =>
            HasUser(View(r, "users"), AdminEmail)
       /\ req[r].pc \in {"packages", "instruments", "insertInstruments", "commit"} =>
            HasUser(View(r, "users"), DemoEmail)
       /\ req[r].pc \in {"instruments", "insertInstruments", "commit"} =>
            View(r, "packages") # {}

PackagesOnce(X) ==
  /\ \A p, q \in db["packages"] : p.by = q.by
  /\ bootstrap => (HasUser(db["users"], X) <=> db["packages"] # {})

DbSeed(X) ==
  /\ \A c, d \in {c \in db["challenges"] : c.by \in Logins} : c = d
  /\ \A c \in db["challenges"] : c.by \in Logins => HasUser(db["users"], DemoEmail)
  /\ Taken(X) \/ PackagesOnce(X)

OneSeed(X) == DbSeed(X) /\ \A r \in Requests : OwnSeed(X, r)

(* At first nothing is seeded but what an operator has made.               *)
LEMMA InitOneSeed == ASSUME NEW X PROVE Init => OneSeed(X)
<1> SUFFICES ASSUME Init PROVE OneSeed(X)
  OBVIOUS
<1>1. \A r \in Requests : req[r].pc = "waiting" /\ \A t \in Tables : own[r][t] = {}
  BY NoRowsTyped DEF Init
<1>2. \A r \in Requests : OwnSeed(X, r)
  BY <1>1, TableNames DEF OwnSeed
<1>p. \A p \in [size : PackageSizes, by : {Operator}] : p.by = Operator
  OBVIOUS
<1>3. PackagesOnce(X)
  <2>1. CASE bootstrap
    BY <2>1, InitRows DEF PackagesOnce, HasUser
  <2>2. CASE ~bootstrap
    BY <1>p, <2>2, InitRows DEF PackagesOnce
  <2> QED BY <2>1, <2>2
<1>4. DbSeed(X)
  BY <1>3, InitRows DEF DbSeed
<1> QED BY <1>2, <1>4 DEF OneSeed

(* The seed as another request sees it, after rows were committed or not.  *)
LEMMA OwnSeedElsewhere ==
  ASSUME NEW X, NEW s, OwnSeed(X, s), own'[s] = own[s], req'[s] = req[s], UNCHANGED bootstrap,
         db["users"] \subseteq db'["users"], db["packages"] \subseteq db'["packages"]
  PROVE  OwnSeed(X, s)'
<1>1. /\ View(s, "users") \subseteq View(s, "users")'
      /\ View(s, "packages") \subseteq View(s, "packages")'
  BY DEF View
<1>2. India(s)' = India(s) /\ (Taken(X) => Taken(X)')
  BY DEF India, Taken
<1> QED BY <1>1, <1>2, UsersGrow DEF OwnSeed, HasUser

(* A step of r that commits nothing.                                       *)
LEMMA SeedKept ==
  ASSUME NEW X, OneSeed(X), NEW r \in Requests, Alone(r), UNCHANGED db, OwnSeed(X, r)'
  PROVE  OneSeed(X)'
<1>1. DbSeed(X)'
  BY DEF OneSeed, DbSeed, PackagesOnce, Taken, HasUser, Alone
<1>2. \A s \in Requests \ {r} : OwnSeed(X, s)'
  BY OwnSeedElsewhere DEF OneSeed, Alone
<1> QED BY <1>1, <1>2 DEF OneSeed

(* The transaction that commits the seed is the only one: it brings the    *)
(* user X that no other can commit.                                        *)
LEMMA SeedCommits ==
  ASSUME Typed, Roles, Held, NEW X, OneSeed(X), NEW r \in Requests, Alone(r), own'[r] = NoRows,
         req[r].pc \in {"commit", "approve"}, req'[r].pc \in {"signin", "answered"},
         \A t \in {"users", "challenges", "packages"} : db'[t] = View(r, t)
  PROVE  OneSeed(X)'
<1>1. /\ db'["users"] = db["users"] \union own[r]["users"]
      /\ db'["challenges"] = db["challenges"] \union own[r]["challenges"]
      /\ db'["packages"] = db["packages"] \union own[r]["packages"]
      /\ bootstrap' = bootstrap
  BY DEF View, Alone
<1>2. OwnSeed(X, r) /\ DbSeed(X) /\ (r \in Logins => req[r].pc = "commit")
  BY RequestKinds DEF OneSeed, Roles, RoleOf
<1>3. /\ \A x \in own[r]["challenges"] : x.by = r
      /\ \A x \in own[r]["packages"] : x.by = r
      /\ \A x \in own[r]["users"] : x.by = r
  BY TableNames DEF Held, Owned
<1>4. \A e : HasUser(own[r]["users"], e) => ~HasUser(db["users"], e)
  BY DEF Held, UsersDiffer, HasUser
<1>5. \A e : HasUser(db'["users"], e) <=> HasUser(db["users"], e) \/ HasUser(own[r]["users"], e)
  BY <1>1 DEF HasUser
<1>6. ASSUME NEW c \in db'["challenges"], NEW d \in db'["challenges"],
             c.by \in Logins, d.by \in Logins
      PROVE  c = d
  <2>1. \A x \in own[r]["challenges"] : r \in Logins =>
          x = India(r) /\ \A y \in db["challenges"] : y.by \notin Logins
    BY <1>2, <1>4 DEF OwnSeed, DbSeed
  <2>2. CASE c \in db["challenges"] /\ d \in db["challenges"]
    BY <1>2, <1>6, <2>2 DEF DbSeed
  <2>3. CASE c \in own[r]["challenges"] \/ d \in own[r]["challenges"]
    BY <1>1, <1>3, <1>6, <2>1, <2>3
  <2> QED BY <1>1, <2>2, <2>3
<1>7. \A c \in db'["challenges"] : c.by \in Logins => HasUser(db'["users"], DemoEmail)
  BY <1>1, <1>2, <1>3, <1>5 DEF DbSeed, OwnSeed
<1>8. ASSUME ~Taken(X)' PROVE PackagesOnce(X)'
  <2>1. ~Taken(X) /\ (HasUser(own[r]["users"], X) => r \in Logins)
    BY <1>1, <1>3, <1>8 DEF Taken, HasUser
  <2>2. PackagesOnce(X) /\ (own[r]["packages"] # {} => bootstrap /\ HasUser(own[r]["users"], X))
    BY <1>2, <2>1 DEF DbSeed, OwnSeed
  <2>3. own[r]["packages"] # {} => db["packages"] = {}
    BY <1>4, <2>2 DEF PackagesOnce
  <2>4. \A p, q \in db'["packages"] : p.by = q.by
    BY <1>1, <1>3, <2>2, <2>3 DEF PackagesOnce
  <2>5. bootstrap /\ HasUser(own[r]["users"], X) => db'["packages"] # {}
    BY <1>1, <1>2, <2>1 DEF OwnSeed, View
  <2>6. bootstrap => (HasUser(db'["users"], X) <=> db'["packages"] # {})
    BY <1>1, <1>5, <2>2, <2>5 DEF PackagesOnce
  <2> QED BY <1>1, <2>4, <2>6 DEF PackagesOnce
<1>9. DbSeed(X)'
  BY <1>6, <1>7, <1>8 DEF DbSeed
<1>10. OwnSeed(X, r)'
  BY NoRowsTyped, TableNames DEF OwnSeed
<1>11. \A s \in Requests \ {r} : OwnSeed(X, s)'
  BY <1>1, OwnSeedElsewhere DEF OneSeed, Alone
<1> QED BY <1>9, <1>10, <1>11 DEF OneSeed

(* Every step keeps the seed one.                                          *)
LEMMA OneSeedStep ==
  ASSUME NEW X \in {AdminEmail, DemoEmail}
  PROVE  Typed /\ Roles /\ Held /\ OneSeed(X) /\ [Next]_vars => OneSeed(X)'
<1> SUFFICES ASSUME Typed, Roles, Held, OneSeed(X), [Next]_vars PROVE OneSeed(X)'
  OBVIOUS
<1>b. ASSUME NEW r \in Requests, own'[r] = NoRows, req'[r].pc \in Ended \union {"waiting"}
      PROVE  OwnSeed(X, r)'
  BY <1>b, NoRowsTyped, TableNames DEF OwnSeed, Ended
<1>o. ASSUME NEW r \in Requests, r \notin Logins, Alone(r), UNCHANGED db,
             own'[r]["packages"] = own[r]["packages"], own[r]["users"] \subseteq own'[r]["users"]
      PROVE  OneSeed(X)'
  <2>1. OwnSeed(X, r)'
    BY <1>o, UsersGrow DEF OneSeed, OwnSeed, Alone, Taken
  <2> QED BY <1>o, <2>1, SeedKept
<1>1. CASE Crash
  <2>1. /\ UNCHANGED <<db, bootstrap>>
        /\ \A r \in Requests : own'[r] = NoRows /\ req'[r].pc \in Ended \union {"waiting"}
    BY <1>1, CrashEffect DEF UnderWay, Ended
  <2>2. \A r \in Requests : OwnSeed(X, r)'
    BY <1>b, <2>1
  <2>3. DbSeed(X)'
    BY <2>1 DEF OneSeed, DbSeed, PackagesOnce, Taken, HasUser
  <2> QED BY <2>2, <2>3 DEF OneSeed
<1>2. ASSUME NEW r \in Requests, Begin(r) PROVE OneSeed(X)'
  <2>1. ASSUME NEW email \in Emails, r \in Logins, Login(r, email) PROVE OneSeed(X)'
    <3>1. /\ Alone(r) /\ UNCHANGED <<own, db>> /\ req[r].pc = "waiting" /\ req'[r].pc = "admin"
      BY <2>1, LoginEffect DEF BeginsAs
    <3>2. own'[r] = NoRows
      BY <3>1 DEF Held, Owned, Bare
    <3>3. OwnSeed(X, r)'
      BY <3>1, <3>2, NoRowsTyped, TableNames DEF OwnSeed
    <3> QED BY <3>1, <3>3, SeedKept
  <2>2. ASSUME NEW email \in Emails, r \in Registrations \/ r \in Creations,
               Register(r, email) \/ CreateUser(r, email)
        PROVE  OneSeed(X)'
    BY <1>o, <2>2, LookUpBeginsEffect, RequestKinds DEF BeginsAs
  <2>3. ASSUME r \in Purchases, NEW user \in db["users"], NEW package \in db["packages"],
               Purchase(r, user, package)
        PROVE  OneSeed(X)'
    BY <1>o, <2>3, PurchaseEffect, TableNames, RequestKinds DEF BeginsAs, Added
  <2>4. ASSUME r \in Approvals, NEW purchase \in db["purchases"], Approve(r, purchase)
        PROVE  OneSeed(X)'
    BY <1>o, <2>4, ApproveEffect, RequestKinds DEF BeginsAs
  <2> QED BY <1>2, <2>1, <2>2, <2>3, <2>4 DEF Begin
<1>3. ASSUME NEW r \in Requests, Continue(r) PROVE OneSeed(X)'
  <2>0. RoleOf(r) /\ OwnSeed(X, r) /\ DbSeed(X)
    BY DEF Roles, OneSeed
  <2>e. ASSUME NEW from, NEW to \in Ended, Alone(r), Ends(r, from, to) PROVE OneSeed(X)'
    BY <1>b, <2>e, SeedKept DEF Ends
  <2>f. "raised" \in Ended /\ "answered" \in Ended /\ "refused" \in Ended
    BY DEF Ended
  <2>x. X = AdminEmail \/ X = DemoEmail
    OBVIOUS
  <2>i. ASSUME NEW email, NEW accounts, NEW pc, Inserts(r, email, accounts, pc)
        PROVE  /\ UNCHANGED db /\ req'[r].pc = pc
               /\ \A t \in Tables \ {"users", "accounts"} : own'[r][t] = own[r][t]
               /\ \A e : HasUser(own'[r]["users"], e) <=> HasUser(own[r]["users"], e) \/ e = email
               /\ \A e : HasUser(View(r, "users")', e) <=> HasUser(View(r, "users"), e) \/ e = email
    <3>1. PICK new : new = [email |-> email, by |-> r]
      OBVIOUS
    <3>2. /\ new.email = email /\ UNCHANGED db /\ req'[r].pc = pc
          /\ own'[r]["users"] = own[r]["users"] \union {new}
          /\ \A t \in Tables \ {"users", "accounts"} : own'[r][t] = own[r][t]
      BY <2>i, <3>1 DEF Inserts
    <3>3. \A e : HasUser(own'[r]["users"], e) <=> HasUser(own[r]["users"], e) \/ e = email
      BY <3>2 DEF HasUser
    <3>4. \A e : HasUser(View(r, "users")', e) <=> HasUser(View(r, "users"), e) \/ e = email
      BY <3>2 DEF HasUser, View
    <3> QED BY <3>2, <3>3, <3>4
  <2>1. CASE SelectAdmin(r)
    <3>1. /\ Alone(r) /\ Quiet /\ r \in Logins
          /\ req'[r].pc = "insertAdmin" \/
             (req'[r].pc = "demo" /\ (bootstrap => HasUser(View(r, "users"), AdminEmail)))
          /\ req[r].pc = "admin"
      BY <2>0, <2>1, SelectAdminEffect DEF Proceeds, RoleOf, Seeding
    <3>2. OwnSeed(X, r)'
      BY <2>0, <3>1 DEF OwnSeed, Taken, Quiet, Alone, View, India
    <3> QED BY <3>1, <3>2, SeedKept DEF Quiet
  <2>2. CASE InsertAdmin(r)
    <3>1. CASE Proceeds(r, "insertAdmin", "demo") /\ Inserts(r, AdminEmail, {}, "demo")
      <4>1. Alone(r) /\ r \in Logins /\ req[r].pc = "insertAdmin" /\ req'[r].pc = "demo"
        BY <2>0, <2>2, <3>1, InsertAdminEffect DEF Proceeds, RoleOf, Seeding
      <4>2. OwnSeed(X, r)'
        BY <2>0, <2>i, <3>1, <4>1, TableNames DEF OwnSeed, Taken, Alone, View, India
      <4> QED BY <2>i, <3>1, <4>1, <4>2, SeedKept
    <3> QED BY <2>2, <2>e, <2>f, <3>1, InsertAdminEffect
  <2>3. CASE SelectDemo(r)
    <3>0. Alone(r) /\ UNCHANGED db /\ r \in Logins /\ req[r].pc = "demo"
      BY <2>0, <2>3, SelectDemoEffect DEF Proceeds, RoleOf, Seeding
    <3>1. CASE /\ Proceeds(r, "demo", "packages") /\ Quiet
               /\ ~(bootstrap /\ ~HasUser(View(r, "users"), DemoEmail))
      <4>1. OwnSeed(X, r)'
        BY <2>0, <3>0, <3>1 DEF OwnSeed, Taken, Quiet, Alone, View, India, Proceeds
      <4> QED BY <3>0, <4>1, SeedKept
    <3>2. CASE /\ Proceeds(r, "demo", "insertDemo")
               /\ own'[r]["challenges"] = own[r]["challenges"] \union {India(r)}
               /\ \A t \in Tables \ {"challenges", "rules"} : own'[r][t] = own[r][t]
      <4>1. OwnSeed(X, r)'
        BY <2>0, <3>0, <3>2, TableNames DEF OwnSeed, Taken, Alone, View, India, Proceeds
      <4> QED BY <3>0, <4>1, SeedKept
    <3> QED BY <2>3, <3>1, <3>2, SelectDemoEffect
  <2>4. CASE InsertDemo(r)
    <3>1. PICK accounts : accounts = {Account(r, DemoEmail, India(r), IndiaRule(r), DemoSize)}
      OBVIOUS
    <3>2. CASE Proceeds(r, "insertDemo", "packages") /\ Inserts(r, DemoEmail, accounts, "packages")
      <4>1. Alone(r) /\ r \in Logins /\ req[r].pc = "insertDemo" /\ req'[r].pc = "packages"
        BY <2>0, <2>4, <3>2, InsertDemoEffect DEF Proceeds, RoleOf, Seeding
      <4>2. OwnSeed(X, r)'
        BY <2>0, <2>i, <3>2, <4>1, TableNames DEF OwnSeed, Taken, Alone, View, India
      <4> QED BY <2>i, <3>2, <4>1, <4>2, SeedKept
    <3> QED BY <2>4, <2>e, <2>f, <3>1, <3>2, InsertDemoEffect
  <2>5. CASE SeedPackages(r)
    <3>1. /\ Alone(r) /\ UNCHANGED db /\ r \in Logins
          /\ req[r].pc = "packages" /\ req'[r].pc = "instruments"
      BY <2>0, <2>5, SeedPackagesEffect DEF Proceeds, RoleOf, Seeding
    <3>2. CASE Quiet /\ ~(bootstrap /\ View(r, "packages") = {})
      <4>1. OwnSeed(X, r)'
        BY <2>0, <3>1, <3>2 DEF OwnSeed, Taken, Quiet, Alone, View, India
      <4> QED BY <3>1, <4>1, SeedKept
    <3>3. CASE /\ bootstrap /\ View(r, "packages") = {}
               /\ Added(r, "packages", [size : PackageSizes, by : {r}])
      <4>1. PICK rows : rows = [size : PackageSizes, by : {r}]
        OBVIOUS
      <4>2. rows # {}
        <5>1. PICK size \in PackageSizes : TRUE
          BY SomethingOnSale
        <5>2. [size |-> size, by |-> r] \in rows
          BY <4>1
        <5> QED BY <5>2
      <4>3. /\ own'[r]["packages"] = own[r]["packages"] \union rows
            /\ \A t \in Tables \ {"packages"} : own'[r][t] = own[r][t]
        BY <3>3, <4>1 DEF Added
      <4>4. Taken(X) \/ HasUser(own[r]["users"], X)
        <5>1. HasUser(View(r, "users"), X) /\ (~Taken(X) => ~HasUser(db["users"], X))
          BY <2>0, <2>x, <3>1, <3>3 DEF OwnSeed, DbSeed, PackagesOnce, View
        <5> QED BY <5>1 DEF HasUser, View
      <4>5. OwnSeed(X, r)'
        BY <2>0, <3>1, <3>3, <4>2, <4>3, <4>4, TableNames DEF OwnSeed, Taken, Alone, View, India
      <4> QED BY <3>1, <4>5, SeedKept
    <3> QED BY <2>5, <3>2, <3>3, SeedPackagesEffect
  <2>6. CASE SeedInstruments(r)
    <3>1. /\ Alone(r) /\ Quiet /\ r \in Logins /\ req[r].pc = "instruments"
          /\ req'[r].pc \in {"insertInstruments", "commit"}
      BY <2>0, <2>6, SeedInstrumentsEffect DEF Proceeds, RoleOf, Seeding
    <3>2. OwnSeed(X, r)'
      BY <2>0, <3>1 DEF OwnSeed, Taken, Quiet, Alone, View, India
    <3> QED BY <3>1, <3>2, SeedKept DEF Quiet
  <2>14. CASE InsertInstruments(r)
    <3>1. CASE /\ Proceeds(r, "insertInstruments", "commit")
               /\ Added(r, "instruments", {[by |-> r]})
      <4>1. /\ Alone(r) /\ UNCHANGED db /\ r \in Logins /\ req[r].pc = "insertInstruments"
            /\ req'[r].pc = "commit"
            /\ \A t \in {"users", "packages", "challenges"} : own'[r][t] = own[r][t]
        BY <2>0, <2>14, <3>1, InsertInstrumentsEffect, TableNames
           DEF Proceeds, Added, RoleOf, Seeding
      <4>2. OwnSeed(X, r)'
        BY <2>0, <4>1 DEF OwnSeed, Taken, Alone, View, India
      <4> QED BY <4>1, <4>2, SeedKept
    <3> QED BY <2>14, <2>e, <2>f, <3>1, InsertInstrumentsEffect
  <2>15. CASE UpdatePurchase(r)
    <3>1. /\ Alone(r) /\ UNCHANGED db /\ req[r].pc = "account" /\ Added(r, "accounts", {Bought(r)})
      BY <2>0, <2>15, UpdatePurchaseEffect DEF Proceeds
    <3>2. r \notin Logins
      BY <2>0, <3>1, RequestKinds DEF RoleOf
    <3> QED BY <1>o, <3>1, <3>2, TableNames DEF Added
  <2>7. CASE SignIn(r)
    BY <2>7, <2>e, <2>f, SignInEffect
  <2>8. CASE LookUpEmail(r)
    <3>1. CASE Quiet /\ Proceeds(r, "lookup", IF r \in Registrations THEN "challenge" ELSE "user")
      <4>1. r \notin Logins
        BY <2>0, <3>1, RequestKinds DEF RoleOf, Proceeds
      <4> QED BY <1>o, <2>8, <3>1, <4>1, LookUpEmailEffect DEF Quiet
    <3> QED BY <2>8, <2>e, <2>f, <3>1, LookUpEmailEffect
  <2>9. CASE EnsureChallenge(r)
    <3>1. CASE Ends(r, "challenge", "raised")
      BY <2>9, <2>e, <2>f, <3>1, EnsureChallengeEffect
    <3>2. CASE ~Ends(r, "challenge", "raised")
      <4>1. /\ UNCHANGED db /\ Alone(r) /\ req[r].pc = "challenge"
            /\ UNCHANGED own \/ \E x : Added(r, "challenges", {x})
        BY <2>9, <3>2, EnsureChallengeEffect DEF EnsuresChallenge
      <4>2. r \notin Logins
        BY <2>0, <4>1, RequestKinds DEF RoleOf
      <4> QED BY <1>o, <4>1, <4>2, TableNames DEF Added
    <3> QED BY <3>1, <3>2
  <2>10. CASE EnsureRule(r)
    <3>1. CASE Ends(r, "rule", "raised")
      BY <2>0, <2>10, <2>e, <2>f, <3>1, EnsureRuleEffect
    <3>2. CASE ~Ends(r, "rule", "raised")
      <4>1. /\ UNCHANGED db /\ Alone(r) /\ req[r].pc = "rule"
            /\ UNCHANGED own \/ \E x : Added(r, "rules", {x})
        BY <2>0, <2>10, <3>2, EnsureRuleEffect DEF EnsuresRule
      <4>2. r \notin Logins
        BY <2>0, <4>1, RequestKinds DEF RoleOf
      <4> QED BY <1>o, <4>1, <4>2, TableNames DEF Added
    <3> QED BY <3>1, <3>2
  <2>11. CASE InsertUser(r)
    <3>1. CASE Ends(r, "user", "raised")
      BY <2>0, <2>11, <2>e, <2>f, <3>1, InsertUserEffect
    <3>2. CASE ~Ends(r, "user", "raised")
      <4>1. PICK email : email = req[r].email
        OBVIOUS
      <4>2. PICK accounts : accounts =
              IF r \in Creations THEN {}
              ELSE {Account(r, req[r].email, req[r].challenge, req[r].rule, CoreSize)}
        OBVIOUS
      <4>3. /\ Alone(r) /\ Proceeds(r, "user", "commit")
            /\ Inserts(r, email, accounts, "commit")
        BY <2>0, <2>11, <3>2, <4>1, <4>2, InsertUserEffect
      <4>4. req[r].pc = "user" /\ r \notin Logins
        BY <2>0, <4>3, RequestKinds DEF RoleOf, Proceeds
      <4> QED BY <1>o, <4>3, <4>4, TableNames DEF Inserts
    <3> QED BY <3>1, <3>2
  <2>12. CASE CommitApproval(r)
    <3>1. /\ Alone(r) /\ own'[r] = NoRows /\ req[r].pc = "approve" /\ req'[r].pc = "answered"
          /\ \A t \in {"users", "challenges", "packages"} : db'[t] = View(r, t)
      BY <2>0, <2>12, CommitApprovalEffect, TableNames
    <3> QED BY <3>1, SeedCommits
  <2>13. CASE CommitRequest(r)
    <3>1. /\ Alone(r) /\ own'[r] = NoRows /\ req[r].pc = "commit"
          /\ req'[r].pc \in {"signin", "answered"}
          /\ \A t \in {"users", "challenges", "packages"} : db'[t] = View(r, t)
      BY <2>13, CommitRequestEffect, TableNames
    <3> QED BY <3>1, SeedCommits
  <2> QED BY <1>3, <2>1, <2>2, <2>3, <2>4, <2>5, <2>6, <2>7, <2>8, <2>9, <2>10,
              <2>11, <2>12, <2>13, <2>14, <2>15 DEF Continue
<1>4. CASE UNCHANGED vars
  BY <1>4 DEF vars, OneSeed, DbSeed, PackagesOnce, Taken, OwnSeed, HasUser, View, India
<1> QED BY <1>1, <1>2, <1>3, <1>4 DEF Next

(* First logins that race leave one set of instruments and one challenge   *)
(* for the demo account, and one set of packages unless others have taken  *)
(* both seeded emails first, which is when a login's insert of a user no   *)
(* longer makes the seeding of another wait.                               *)
THEOREM SeedIsOne == Spec => []SeededOnce
<1> DEFINE IInv == Typed /\ Roles /\ Held /\ Flushed /\ OneSeed(AdminEmail) /\ OneSeed(DemoEmail)
<1>1. Init => IInv
  BY InitTyped, InitHeld, InitFlushed, InitOneSeed
<1>2. IInv /\ [Next]_vars => IInv'
  BY TypedStep, HeldStep, FlushedStep, OneSeedStep
<1>3. IInv => SeededOnce
  BY DEF Flushed, OneSeed, DbSeed, PackagesOnce, SeededOnce
<1> QED BY <1>1, <1>2, <1>3, PTL DEF Spec
---------------------------------------------------------------------------
(* The demo user is the first thing a bootstrapped seed makes: until there *)
(* is one, nothing is on sale, nothing was bought, and only the login that *)
(* is about to insert it has the Indian challenge.                         *)
OwnDemoFirst(r) ==
  ~HasUser(View(r, "users"), DemoEmail) =>
    /\ own[r]["packages"] = {} /\ own[r]["purchases"] = {}
    /\ req[r].pc # "insertDemo" => \A c \in own[r]["challenges"] : c.name = Core
    /\ req[r].pc \notin {"packages", "instruments"}
    /\ r \in Approvals => ~UnderWay(r)

DbDemoFirst ==
  ~HasUser(db["users"], DemoEmail) =>
    /\ db["packages"] = {} /\ db["purchases"] = {}
    /\ \A c \in db["challenges"] : c.name = Core

DemoFirst == bootstrap => DbDemoFirst /\ \A r \in Requests : OwnDemoFirst(r)

(* At first a bootstrapped database is empty.                              *)
LEMMA InitDemoFirst == Init => DemoFirst
<1> SUFFICES ASSUME Init, bootstrap PROVE DbDemoFirst /\ \A r \in Requests : OwnDemoFirst(r)
  BY DEF DemoFirst
<1>1. \A r \in Requests : req[r].pc = "waiting" /\ \A t \in Tables : own[r][t] = {}
  BY NoRowsTyped DEF Init
<1>2. \A r \in Requests : OwnDemoFirst(r)
  BY <1>1, TableNames DEF OwnDemoFirst, UnderWay
<1>3. DbDemoFirst
  BY InitRows DEF DbDemoFirst
<1> QED BY <1>2, <1>3

(* A step of r that commits nothing.                                       *)
LEMMA DemoFirstKept ==
  ASSUME DemoFirst, NEW r \in Requests, Alone(r), UNCHANGED db,
         bootstrap => OwnDemoFirst(r)'
  PROVE  DemoFirst'
<1>1. \A s \in Requests \ {r} : bootstrap => OwnDemoFirst(s)'
  BY DEF DemoFirst, OwnDemoFirst, Alone, View, UnderWay
<1>2. bootstrap' = bootstrap /\ DbDemoFirst' = DbDemoFirst
  BY DEF Alone, DbDemoFirst
<1> QED BY <1>1, <1>2 DEF DemoFirst

(* A commit that brings packages or purchases, or finds them, brings or    *)
(* finds the demo user.                                                    *)
LEMMA DemoFirstCommits ==
  ASSUME DemoFirst, NEW r \in Requests, Alone(r), own'[r] = NoRows,
         req[r].pc \in {"commit", "approve"}, req'[r].pc \in {"signin", "answered"},
         r \in Approvals => UnderWay(r) /\ req'[r].pc = "answered",
         \A t \in {"users", "challenges", "packages"} : db'[t] = View(r, t),
         r \notin Approvals => db'["purchases"] = View(r, "purchases")
  PROVE  DemoFirst'
<1> SUFFICES ASSUME bootstrap PROVE DbDemoFirst' /\ \A s \in Requests : OwnDemoFirst(s)'
  BY DEF DemoFirst, Alone
<1>1. OwnDemoFirst(r) /\ DbDemoFirst
  BY DEF DemoFirst
<1>2. /\ db'["users"] = db["users"] \union own[r]["users"]
      /\ db'["challenges"] = db["challenges"] \union own[r]["challenges"]
      /\ db'["packages"] = db["packages"] \union own[r]["packages"]
      /\ r \notin Approvals => db'["purchases"] = db["purchases"] \union own[r]["purchases"]
  BY DEF View
<1>3. DbDemoFirst'
  <2> SUFFICES ASSUME ~HasUser(db'["users"], DemoEmail)
               PROVE  /\ db'["packages"] = {} /\ db'["purchases"] = {}
                      /\ \A c \in db'["challenges"] : c.name = Core
    BY DEF DbDemoFirst
  <2>1. ~HasUser(View(r, "users"), DemoEmail) /\ ~HasUser(db["users"], DemoEmail)
    BY <1>2 DEF HasUser, View
  <2> QED BY <1>1, <1>2, <2>1 DEF OwnDemoFirst, DbDemoFirst
<1>4. OwnDemoFirst(r)'
  BY NoRowsTyped, TableNames DEF OwnDemoFirst, UnderWay, Ended
<1>5. ASSUME NEW s \in Requests \ {r} PROVE OwnDemoFirst(s)'
  <2>1. View(s, "users") \subseteq View(s, "users")' /\ own'[s] = own[s] /\ req'[s] = req[s]
    BY <1>2 DEF View, Alone
  <2>2. OwnDemoFirst(s) /\ UnderWay(s)' = UnderWay(s)
    BY <2>1 DEF DemoFirst, UnderWay
  <2> QED BY <2>1, <2>2, UsersGrow DEF OwnDemoFirst
<1> QED BY <1>3, <1>4, <1>5

(* Every step keeps the demo user first: packages are added after it in    *)
(* the same transaction, a purchase needs a package, an approval a         *)
(* purchase.                                                               *)
LEMMA DemoFirstStep == Typed /\ Roles /\ Held /\ DemoFirst /\ [Next]_vars => DemoFirst'
<1> SUFFICES ASSUME Typed, Roles, Held, DemoFirst, [Next]_vars PROVE DemoFirst'
  OBVIOUS
<1>b. ASSUME NEW r \in Requests, own'[r] = NoRows, req'[r].pc \in Ended
      PROVE  OwnDemoFirst(r)'
  BY <1>b, NoRowsTyped, TableNames DEF OwnDemoFirst, UnderWay, Ended
<1>1. CASE Crash
  <2>1. UNCHANGED <<bootstrap, db>> /\ \A r \in Requests : own'[r] = NoRows
    BY <1>1, CrashEffect
  <2>2. \A r \in Requests : req'[r].pc \in Ended \union {"waiting"}
    BY <1>1, CrashEffect DEF UnderWay, Ended
  <2>3. \A r \in Requests : OwnDemoFirst(r)'
    BY <2>1, <2>2, NoRowsTyped, TableNames DEF OwnDemoFirst, UnderWay, Ended
  <2>4. DbDemoFirst' = DbDemoFirst
    BY <2>1 DEF DbDemoFirst
  <2> QED BY <2>1, <2>3, <2>4 DEF DemoFirst
<1>2. ASSUME NEW r \in Requests, Begin(r) PROVE DemoFirst'
  <2>1. ASSUME NEW email \in Emails,
               \/ r \in Logins /\ Login(r, email)
               \/ r \in Registrations /\ Register(r, email)
               \/ r \in Creations /\ CreateUser(r, email)
        PROVE  DemoFirst'
    <3>1. /\ Alone(r) /\ UNCHANGED <<own, db>> /\ r \notin Approvals
          /\ req[r].pc = "waiting" /\ req'[r].pc \in {"admin", "lookup"}
      BY <2>1, LoginEffect, LookUpBeginsEffect, RequestKinds DEF BeginsAs
    <3>2. own'[r] = NoRows
      BY <3>1 DEF Held, Owned, Bare
    <3>3. OwnDemoFirst(r)'
      BY <3>1, <3>2, NoRowsTyped, TableNames DEF OwnDemoFirst
    <3> QED BY <3>1, <3>3, DemoFirstKept
  <2>2. ASSUME r \in Purchases, NEW user \in db["users"], NEW package \in db["packages"],
               Purchase(r, user, package)
        PROVE  DemoFirst'
    <3>1. Alone(r) /\ UNCHANGED db /\ r \notin Approvals /\ "users" \in Tables
      BY <2>2, PurchaseEffect, TableNames, RequestKinds DEF BeginsAs
    <3>2. bootstrap => HasUser(db["users"], DemoEmail)
      BY <2>2 DEF DemoFirst, DbDemoFirst
    <3>3. bootstrap => HasUser(View(r, "users")', DemoEmail)
      BY <3>1, <3>2 DEF HasUser, View
    <3> QED BY <3>1, <3>3, DemoFirstKept DEF OwnDemoFirst
  <2>3. ASSUME r \in Approvals, NEW purchase \in db["purchases"], Approve(r, purchase)
        PROVE  DemoFirst'
    <3>1. Alone(r) /\ UNCHANGED <<own, db>>
      BY <2>3, ApproveEffect DEF BeginsAs
    <3>2. bootstrap => HasUser(db["users"], DemoEmail)
      BY <2>3 DEF DemoFirst, DbDemoFirst
    <3>3. bootstrap => HasUser(View(r, "users")', DemoEmail)
      BY <3>1, <3>2 DEF HasUser, View
    <3> QED BY <3>1, <3>3, DemoFirstKept DEF OwnDemoFirst
  <2> QED BY <1>2, <2>1, <2>2, <2>3 DEF Begin
<1>3. ASSUME NEW r \in Requests, Continue(r) PROVE DemoFirst'
  <2>0. RoleOf(r) /\ (bootstrap => OwnDemoFirst(r))
    BY DEF Roles, DemoFirst
  <2>e. ASSUME NEW from, NEW to \in Ended, Alone(r), Ends(r, from, to) PROVE DemoFirst'
    BY <1>b, <2>e, DemoFirstKept DEF Ends
  <2>f. "raised" \in Ended /\ "answered" \in Ended /\ "refused" \in Ended
    BY DEF Ended
  <2>s. ASSUME req[r].pc \in Seeding PROVE r \notin Approvals
    BY <2>0, <2>s, RequestKinds DEF RoleOf
  <2>1. CASE SelectAdmin(r)
    <3>1. /\ Alone(r) /\ Quiet /\ req[r].pc = "admin" /\ req'[r].pc \in {"insertAdmin", "demo"}
      BY <2>1, SelectAdminEffect DEF Proceeds
    <3>2. r \notin Approvals
      BY <2>s, <3>1 DEF Seeding
    <3>3. bootstrap => OwnDemoFirst(r)'
      BY <2>0, <3>1, <3>2 DEF OwnDemoFirst, Quiet, View
    <3> QED BY <3>1, <3>3, DemoFirstKept DEF Quiet
  <2>2. CASE InsertAdmin(r)
    <3>1. CASE Proceeds(r, "insertAdmin", "demo") /\ Inserts(r, AdminEmail, {}, "demo")
      <4>1. /\ Alone(r) /\ UNCHANGED db /\ req[r].pc = "insertAdmin" /\ req'[r].pc = "demo"
            /\ own[r]["users"] \subseteq own'[r]["users"]
            /\ \A t \in Tables \ {"users", "accounts"} : own'[r][t] = own[r][t]
        BY <2>2, <3>1, InsertAdminEffect DEF Proceeds, Inserts
      <4>2. r \notin Approvals
        BY <2>s, <4>1 DEF Seeding
      <4>3. bootstrap => OwnDemoFirst(r)'
        BY <2>0, <4>1, <4>2, TableNames DEF OwnDemoFirst, View, HasUser
      <4> QED BY <4>1, <4>3, DemoFirstKept
    <3> QED BY <2>2, <2>e, <2>f, <3>1, InsertAdminEffect
  <2>3. CASE SelectDemo(r)
    <3>0. Alone(r) /\ UNCHANGED db /\ req[r].pc = "demo" /\ r \notin Approvals
      BY <2>3, <2>s, SelectDemoEffect DEF Proceeds, Seeding
    <3>1. CASE /\ Proceeds(r, "demo", "packages") /\ Quiet
               /\ ~(bootstrap /\ ~HasUser(View(r, "users"), DemoEmail))
      <4>1. bootstrap => HasUser(View(r, "users")', DemoEmail)
        BY <3>0, <3>1 DEF Quiet, View
      <4> QED BY <3>0, <4>1, DemoFirstKept DEF OwnDemoFirst
    <3>2. CASE /\ Proceeds(r, "demo", "insertDemo")
               /\ own'[r]["challenges"] = own[r]["challenges"] \union {India(r)}
               /\ \A t \in Tables \ {"challenges", "rules"} : own'[r][t] = own[r][t]
      <4>1. bootstrap => OwnDemoFirst(r)'
        BY <2>0, <3>0, <3>2, TableNames DEF OwnDemoFirst, View, Proceeds
      <4> QED BY <3>0, <4>1, DemoFirstKept
    <3> QED BY <2>3, <3>1, <3>2, SelectDemoEffect
  <2>4. CASE InsertDemo(r)
    <3>1. PICK accounts : accounts = {Account(r, DemoEmail, India(r), IndiaRule(r), DemoSize)}
      OBVIOUS
    <3>2. CASE Proceeds(r, "insertDemo", "packages") /\ Inserts(r, DemoEmail, accounts, "packages")
      <4>0. PICK new : new = [email |-> DemoEmail, by |-> r]
        OBVIOUS
      <4>1. Alone(r) /\ UNCHANGED db /\ new \in own'[r]["users"] /\ new.email = DemoEmail
        BY <2>4, <3>2, <4>0, InsertDemoEffect DEF Inserts
      <4>2. HasUser(View(r, "users")', DemoEmail)
        BY <4>1 DEF HasUser, View
      <4> QED BY <4>1, <4>2, DemoFirstKept DEF OwnDemoFirst
    <3> QED BY <2>4, <2>e, <2>f, <3>1, <3>2, InsertDemoEffect
  <2>5. CASE SeedPackages(r)
    <3>1. /\ Alone(r) /\ UNCHANGED db /\ req[r].pc = "packages"
          /\ Quiet \/ Added(r, "packages", [size : PackageSizes, by : {r}])
      BY <2>5, SeedPackagesEffect DEF Proceeds
    <3>2. bootstrap => HasUser(View(r, "users")', DemoEmail)
      BY <2>0, <3>1, TableNames DEF OwnDemoFirst, Quiet, Added, View
    <3> QED BY <3>1, <3>2, DemoFirstKept DEF OwnDemoFirst
  <2>6. CASE SeedInstruments(r)
    <3>1. /\ Alone(r) /\ Quiet /\ req[r].pc = "instruments"
      BY <2>6, SeedInstrumentsEffect DEF Proceeds
    <3>2. bootstrap => HasUser(View(r, "users")', DemoEmail)
      BY <2>0, <3>1 DEF OwnDemoFirst, Quiet, View
    <3> QED BY <3>1, <3>2, DemoFirstKept DEF OwnDemoFirst, Quiet
  <2>14. CASE InsertInstruments(r)
    <3>1. CASE /\ Proceeds(r, "insertInstruments", "commit")
               /\ Added(r, "instruments", {[by |-> r]})
      <4>1. /\ Alone(r) /\ UNCHANGED db /\ req[r].pc = "insertInstruments" /\ req'[r].pc = "commit"
            /\ \A t \in {"users", "packages", "purchases", "challenges"} : own'[r][t] = own[r][t]
        BY <2>14, <3>1, InsertInstrumentsEffect, TableNames DEF Proceeds, Added
      <4>2. r \notin Approvals
        BY <2>s, <4>1 DEF Seeding
      <4>3. bootstrap => OwnDemoFirst(r)'
        BY <2>0, <4>1, <4>2 DEF OwnDemoFirst, View
      <4> QED BY <4>1, <4>3, DemoFirstKept
    <3> QED BY <2>14, <2>e, <2>f, <3>1, InsertInstrumentsEffect
  <2>15. CASE UpdatePurchase(r)
    <3>1. /\ Alone(r) /\ UNCHANGED db /\ req[r].pc = "account" /\ Added(r, "accounts", {Bought(r)})
      BY <2>0, <2>15, UpdatePurchaseEffect DEF Proceeds
    <3>2. r \in Approvals /\ UnderWay(r)
      BY <2>0, <3>1 DEF RoleOf, UnderWay, Ended
    <3>3. bootstrap => HasUser(View(r, "users")', DemoEmail)
      BY <2>0, <3>1, <3>2, TableNames DEF OwnDemoFirst, Added, View
    <3> QED BY <3>1, <3>3, DemoFirstKept DEF OwnDemoFirst
  <2>7. CASE SignIn(r)
    BY <2>7, <2>e, <2>f, SignInEffect
  <2>8. CASE LookUpEmail(r)
    <3>1. CASE Quiet /\ Proceeds(r, "lookup", IF r \in Registrations THEN "challenge" ELSE "user")
      <4>1. /\ Alone(r) /\ req[r].pc = "lookup" /\ req'[r].pc \in {"challenge", "user"}
        BY <2>8, <3>1, LookUpEmailEffect DEF Proceeds
      <4>2. r \notin Approvals
        BY <2>0, <4>1, RequestKinds DEF RoleOf
      <4>3. bootstrap => OwnDemoFirst(r)'
        BY <2>0, <3>1, <4>1, <4>2 DEF OwnDemoFirst, Quiet, View
      <4> QED BY <3>1, <4>1, <4>3, DemoFirstKept DEF Quiet
    <3> QED BY <2>8, <2>e, <2>f, <3>1, LookUpEmailEffect
  <2>9. CASE EnsureChallenge(r)
    <3>1. CASE Ends(r, "challenge", "raised")
      BY <2>9, <2>e, <2>f, <3>1, EnsureChallengeEffect
    <3>2. CASE ~Ends(r, "challenge", "raised")
      <4>1. PICK new : new = [name |-> NameOf(r), by |-> r]
        OBVIOUS
      <4>2. /\ UNCHANGED db /\ Alone(r) /\ req[r].pc = "challenge" /\ req'[r].pc = "rule"
            /\ UNCHANGED own \/ Added(r, "challenges", {new})
        BY <2>9, <3>2, <4>1, EnsureChallengeEffect DEF EnsuresChallenge
      <4>3. /\ View(r, "users")' = View(r, "users")
            /\ own'[r]["packages"] = own[r]["packages"]
            /\ own'[r]["purchases"] = own[r]["purchases"]
            /\ own'[r]["challenges"] \subseteq own[r]["challenges"] \union {new}
        BY <4>2, TableNames DEF Added, View
      <4>4. UnderWay(r) /\ (r \notin Approvals => new.name = Core)
        BY <4>1, <4>2 DEF UnderWay, Ended, NameOf, Core
      <4>5. bootstrap => OwnDemoFirst(r)'
        BY <2>0, <4>2, <4>3, <4>4 DEF OwnDemoFirst
      <4> QED BY <4>2, <4>5, DemoFirstKept
    <3> QED BY <3>1, <3>2
  <2>10. CASE EnsureRule(r)
    <3>1. CASE Ends(r, "rule", "raised")
      BY <2>0, <2>10, <2>e, <2>f, <3>1, EnsureRuleEffect
    <3>2. CASE ~Ends(r, "rule", "raised")
      <4>1. /\ UNCHANGED db /\ Alone(r) /\ req[r].pc = "rule" /\ req'[r].pc \in {"account", "user"}
            /\ UNCHANGED own \/ \E x : Added(r, "rules", {x})
        BY <2>0, <2>10, <3>2, EnsureRuleEffect DEF EnsuresRule
      <4>2. /\ View(r, "users")' = View(r, "users") /\ own'[r]["challenges"] = own[r]["challenges"]
            /\ own'[r]["packages"] = own[r]["packages"]
            /\ own'[r]["purchases"] = own[r]["purchases"]
        BY <4>1, TableNames DEF Added, View
      <4>3. UnderWay(r)
        BY <4>1 DEF UnderWay, Ended
      <4>4. bootstrap => OwnDemoFirst(r)'
        BY <2>0, <4>1, <4>2, <4>3 DEF OwnDemoFirst
      <4> QED BY <4>1, <4>4, DemoFirstKept
    <3> QED BY <3>1, <3>2
  <2>11. CASE InsertUser(r)
    <3>1. CASE Ends(r, "user", "raised")
      BY <2>0, <2>11, <2>e, <2>f, <3>1, InsertUserEffect
    <3>2. CASE ~Ends(r, "user", "raised")
      <4>1. PICK accounts : accounts =
              IF r \in Creations THEN {}
              ELSE {Account(r, req[r].email, req[r].challenge, req[r].rule, CoreSize)}
        OBVIOUS
      <4>2. /\ Alone(r) /\ Proceeds(r, "user", "commit")
            /\ Inserts(r, req[r].email, accounts, "commit")
        BY <2>0, <2>11, <3>2, <4>1, InsertUserEffect
      <4>3. /\ UNCHANGED db /\ req[r].pc = "user" /\ req'[r].pc = "commit"
            /\ own[r]["users"] \subseteq own'[r]["users"]
            /\ \A t \in Tables \ {"users", "accounts"} : own'[r][t] = own[r][t]
        BY <4>2 DEF Inserts, Proceeds
      <4>4. r \notin Approvals
        BY <2>0, <4>3, RequestKinds DEF RoleOf
      <4>5. bootstrap => OwnDemoFirst(r)'
        BY <2>0, <4>3, <4>4, TableNames DEF OwnDemoFirst, View, HasUser
      <4> QED BY <4>2, <4>3, <4>5, DemoFirstKept
    <3> QED BY <3>1, <3>2
  <2>12. CASE CommitApproval(r)
    <3>1. /\ Alone(r) /\ own'[r] = NoRows /\ req[r].pc = "approve" /\ req'[r].pc = "answered"
          /\ \A t \in {"users", "challenges", "packages"} : db'[t] = View(r, t)
      BY <2>0, <2>12, CommitApprovalEffect, TableNames
    <3>2. r \in Approvals /\ UnderWay(r)
      BY <2>0, <3>1 DEF RoleOf, UnderWay, Ended
    <3> QED BY <3>1, <3>2, DemoFirstCommits
  <2>13. CASE CommitRequest(r)
    <3>1. /\ Alone(r) /\ own'[r] = NoRows /\ req[r].pc = "commit"
          /\ req'[r].pc \in {"signin", "answered"} /\ db'["purchases"] = View(r, "purchases")
          /\ \A t \in {"users", "challenges", "packages"} : db'[t] = View(r, t)
      BY <2>13, CommitRequestEffect, TableNames
    <3>2. r \notin Approvals
      BY <2>0, <3>1 DEF RoleOf
    <3> QED BY <3>1, <3>2, DemoFirstCommits
  <2> QED BY <1>3, <2>1, <2>2, <2>3, <2>4, <2>5, <2>6, <2>7, <2>8, <2>9, <2>10,
              <2>11, <2>12, <2>13, <2>14, <2>15 DEF Continue
<1>4. CASE UNCHANGED vars
  BY <1>4 DEF vars, DemoFirst, DbDemoFirst, OwnDemoFirst, View, UnderWay
<1> QED BY <1>1, <1>2, <1>3, <1>4 DEF Next
---------------------------------------------------------------------------
(* As long as requests come one at a time, each finds what it selected as  *)
(* it left it, and no challenge and no rule is there twice.                *)
Distinct(challenges, rules) ==
  /\ \A c, d \in challenges : c.name = d.name => c = d
  /\ \A x, y \in rules : x.challenge = y.challenge /\ x.size = y.size => x = y

OwnSequential(r) ==
  /\ req[r].pc # "raised"
  /\ req[r].pc = "insertAdmin" => ~HasUser(db["users"], AdminEmail)
  /\ req[r].pc = "insertDemo" => ~HasUser(db["users"], DemoEmail)
  /\ req[r].pc = "insertInstruments" => db["instruments"] = {}
  /\ req[r].pc \in {"challenge", "rule", "user"} /\ r \notin Approvals =>
       ~HasUser(db["users"], req[r].email)
  /\ req[r].pc \in {"admin", "insertAdmin", "demo"} =>
       own[r]["challenges"] = {} /\ own[r]["rules"] = {}
  /\ Distinct(View(r, "challenges"), View(r, "rules"))

Sequential ==
  /\ \A r, s \in Requests : UnderWay(r) /\ UnderWay(s) => r = s
  /\ \A r \in Requests : OwnSequential(r)

OneAtATime == ~overlapped => Sequential

(* At first no request is under way.                                       *)
LEMMA InitOneAtATime == Init => OneAtATime
<1> SUFFICES ASSUME Init PROVE Sequential
  BY DEF OneAtATime
<1>1. \A r \in Requests : req[r].pc = "waiting" /\ \A t \in Tables : own[r][t] = {}
  BY NoRowsTyped DEF Init
<1>2. db["challenges"] = {} /\ db["rules"] = {}
  BY InitRows
<1> QED BY <1>1, <1>2, TableNames DEF Sequential, OwnSequential, UnderWay, Distinct, View

(* A set of one element or none.                                           *)
LEMMA AtMostOne ==
  ASSUME NEW S, \A x, y \in S : x = y
  PROVE  ~(Cardinality(S) > 1)
<1>1. CASE S = {}
  BY <1>1, FS_EmptySet
<1>2. CASE S # {}
  <2>1. PICK x \in S : TRUE
    BY <1>2
  <2>2. S = {x}
    BY <2>1
  <2>3. Cardinality(S) = 1
    BY <2>2, FS_Singleton
  <2> QED BY <2>3
<1> QED BY <1>1, <1>2

(* A step of the one request under way, or about to be.                    *)
LEMMA SequentialGoes ==
  ASSUME Sequential, Held, NEW r \in Requests, Alone(r),
         \A s \in Requests \ {r} : ~UnderWay(s),
         OwnSequential(r)',
         \A t \in {"challenges", "rules"} : db'[t] \subseteq View(r, t)'
  PROVE  Sequential'
<1>1. \A s \in Requests \ {r} : own'[s] = NoRows /\ ~UnderWay(s)' /\ req'[s] = req[s]
  BY DEF Held, Owned, Bare, UnderWay, Alone
<1>2. ASSUME NEW s \in Requests \ {r} PROVE OwnSequential(s)'
  <2>1. Distinct(View(s, "challenges"), View(s, "rules"))'
    <3>1. own'[s]["challenges"] = {} /\ own'[s]["rules"] = {}
      BY <1>1, NoRowsTyped, TableNames
    <3>2. View(s, "challenges")' = db'["challenges"] /\ View(s, "rules")' = db'["rules"]
      BY <3>1 DEF View
    <3> QED BY <3>2 DEF OwnSequential, Distinct
  <2>2. req[s].pc # "raised"
    BY DEF Sequential, OwnSequential
  <2> QED BY <1>1, <2>1, <2>2 DEF OwnSequential, UnderWay, Ended
<1>3. \A s, q \in Requests : UnderWay(s)' /\ UnderWay(q)' => s = q
  BY <1>1
<1> QED BY <1>2, <1>3 DEF Sequential

(* What is committed every transaction sees.                               *)
LEMMA Committed ==
  ASSUME NEW r, NEW t PROVE db[t] \subseteq View(r, t)
BY DEF View

(* Every step keeps it so. The one request under way inserts an email it   *)
(* has just not found, and challenges and rules it has just not found; the *)
(* Indian challenge of the seed comes before any approval could have made  *)
(* one.                                                                    *)
LEMMA OneAtATimeStep ==
  Typed /\ Roles /\ Held /\ Fitting /\ DemoFirst /\ OneAtATime /\ [Next]_vars => OneAtATime'
<1> SUFFICES ASSUME Typed, Roles, Held, Fitting, DemoFirst, OneAtATime, [Next]_vars, ~overlapped'
             PROVE  Sequential'
  BY DEF OneAtATime
<1>1. CASE Crash
  <2>1. /\ UNCHANGED db /\ ~overlapped
        /\ \A r \in Requests :
             own'[r] = NoRows /\ (req'[r].pc = "lost" \/ (~UnderWay(r) /\ req'[r] = req[r]))
    BY <1>1, CrashEffect
  <2>2. ASSUME NEW r \in Requests PROVE OwnSequential(r)' /\ ~UnderWay(r)'
    <3>1. OwnSequential(r)
      BY <2>1 DEF OneAtATime, Sequential
    <3>2. View(r, "challenges")' \subseteq View(r, "challenges")
          /\ View(r, "rules")' \subseteq View(r, "rules")
      BY <2>1, NoRowsTyped, TableNames DEF View
    <3> QED BY <2>1, <3>1, <3>2 DEF OwnSequential, Distinct, UnderWay, Ended
  <2> QED BY <2>2 DEF Sequential
<1>2. ASSUME NEW r \in Requests, Begin(r) PROVE Sequential'
  <2>a. ASSUME NEW pc \in {"admin", "lookup", "commit", "challenge"}, BeginsAs(r, pc), Alone(r),
               pc = "challenge" => r \in Approvals,
               UNCHANGED own \/ \E rows : Added(r, "purchases", rows)
        PROVE  Sequential'
    <3>1. /\ ~overlapped /\ \A s \in Requests : ~UnderWay(s)
          /\ req[r].pc = "waiting" /\ req'[r].pc = pc /\ UNCHANGED db
      BY <2>a DEF BeginsAs
    <3>2. Sequential /\ OwnSequential(r) /\ own[r] = NoRows
      BY <3>1 DEF OneAtATime, Sequential, Held, Owned, Bare
    <3>3. own'[r]["challenges"] = {} /\ own'[r]["rules"] = {}
      BY <2>a, <3>2, NoRowsTyped, TableNames DEF Added
    <3>4. /\ View(r, "challenges")' = db["challenges"] /\ View(r, "rules")' = db["rules"]
          /\ db["challenges"] \subseteq View(r, "challenges")
          /\ db["rules"] \subseteq View(r, "rules")
      BY <3>1, <3>3, Committed DEF View
    <3>5. OwnSequential(r)'
      BY <2>a, <3>1, <3>2, <3>3, <3>4 DEF OwnSequential, Distinct
    <3> QED BY <2>a, <3>1, <3>2, <3>4, <3>5, SequentialGoes
  <2>1. ASSUME NEW email \in Emails,
               Login(r, email) \/ Register(r, email) \/ CreateUser(r, email)
        PROVE  Sequential'
    BY <2>1, <2>a, LoginEffect, LookUpBeginsEffect
  <2>2. ASSUME NEW user \in db["users"], NEW package \in db["packages"], Purchase(r, user, package)
        PROVE  Sequential'
    BY <2>2, <2>a, PurchaseEffect
  <2>3. ASSUME r \in Approvals, NEW purchase \in db["purchases"], Approve(r, purchase)
        PROVE  Sequential'
    BY <2>3, <2>a, ApproveEffect
  <2> QED BY <1>2, <2>1, <2>2, <2>3 DEF Begin
<1>3. ASSUME NEW r \in Requests, Continue(r) PROVE Sequential'
  <2>p. \E pc \in Stages \ (Ended \union {"waiting"}) : Steps(r, pc)
    BY <1>3 DEF Continue, SelectAdmin, InsertAdmin, SelectDemo, InsertDemo, SeedPackages,
                SeedInstruments, InsertInstruments, SignIn, LookUpEmail, EnsureChallenge,
                EnsureRule, InsertUser, UpdatePurchase, CommitApproval, CommitRequest,
                Stages, Seeding, Ended
  <2>q. /\ ~overlapped /\ UnderWay(r) /\ Sequential /\ OwnSequential(r)
        /\ \A s \in Requests \ {r} : ~UnderWay(s)
    BY <2>p DEF Steps, UnderWay, OneAtATime, Sequential
  <2>0. RoleOf(r) /\ OwnFits(r) /\ Found(r) /\ (bootstrap => OwnDemoFirst(r) /\ DbDemoFirst)
    BY DEF Roles, Fitting, DemoFirst
  (* What it moves on to, and the rows it has to leave distinct.           *)
  <2>g. ASSUME Alone(r), UNCHANGED db, OwnSequential(r)' PROVE Sequential'
    <3>1. \A t \in {"challenges", "rules"} : db'[t] \subseteq View(r, t)'
      BY <2>g DEF View
    <3> QED BY <2>g, <2>q, <3>1, SequentialGoes
  <2>s. ASSUME Alone(r), UNCHANGED db,
               /\ own'[r]["challenges"] = own[r]["challenges"]
               /\ own'[r]["rules"] = own[r]["rules"],
               \/ req'[r].pc \in {"demo", "packages", "instruments", "commit", "approve"}
               \/ req'[r].pc = "insertInstruments" /\ db["instruments"] = {},
               req'[r].pc = "demo" => own[r]["challenges"] = {} /\ own[r]["rules"] = {}
        PROVE  Sequential'
    <3>1. View(r, "challenges")' = View(r, "challenges") /\ View(r, "rules")' = View(r, "rules")
      BY <2>s DEF View
    <3>2. OwnSequential(r)'
      BY <2>s, <2>q, <3>1 DEF OwnSequential, Distinct
    <3> QED BY <2>s, <2>g, <3>2
  <2>e. ASSUME NEW from, NEW to \in {"answered", "refused"}, Alone(r), Ends(r, from, to)
        PROVE  Sequential'
    <3>1. /\ UNCHANGED db /\ own'[r]["challenges"] = {} /\ own'[r]["rules"] = {}
          /\ req'[r].pc \in {"answered", "refused"}
      BY <2>e, NoRowsTyped, TableNames DEF Ends
    <3>2. /\ View(r, "challenges")' \subseteq View(r, "challenges")
          /\ View(r, "rules")' \subseteq View(r, "rules")
      BY <3>1 DEF View
    <3>3. OwnSequential(r)'
      BY <2>q, <3>1, <3>2 DEF OwnSequential, Distinct
    <3> QED BY <2>e, <2>g, <3>1, <3>3
  <2>c. ASSUME Alone(r), own'[r] = NoRows, req'[r].pc \in {"signin", "answered"},
               db'["challenges"] = View(r, "challenges"), db'["rules"] = View(r, "rules")
        PROVE  Sequential'
    <3>1. own'[r]["challenges"] = {} /\ own'[r]["rules"] = {}
      BY <2>c, NoRowsTyped, TableNames
    <3>2. /\ View(r, "challenges")' = View(r, "challenges") /\ View(r, "rules")' = View(r, "rules")
          /\ db'["challenges"] \subseteq View(r, "challenges")'
          /\ db'["rules"] \subseteq View(r, "rules")'
      BY <2>c, <3>1 DEF View
    <3>3. OwnSequential(r)'
      BY <2>c, <2>q, <3>2 DEF OwnSequential, Distinct
    <3> QED BY <2>c, <2>q, <3>2, <3>3, SequentialGoes
  <2>1. CASE SelectAdmin(r)
    <3>1. /\ Alone(r) /\ Quiet /\ req[r].pc = "admin" /\ req'[r].pc \in {"insertAdmin", "demo"}
          /\ req'[r].pc = "insertAdmin" => ~HasUser(View(r, "users"), AdminEmail)
      BY <2>1, SelectAdminEffect DEF Proceeds
    <3>2. req'[r].pc = "insertAdmin" => ~HasUser(db["users"], AdminEmail)
      BY <3>1, Committed, UsersGrow
    <3>3. OwnSequential(r)'
      BY <2>q, <3>1, <3>2 DEF OwnSequential, Distinct, View, Quiet
    <3> QED BY <2>g, <3>1, <3>3 DEF Quiet
  <2>2. CASE InsertAdmin(r)
    <3>1. Alone(r) /\ Proceeds(r, "insertAdmin", "demo") /\ Inserts(r, AdminEmail, {}, "demo")
      BY <2>2, <2>q, InsertAdminEffect DEF OwnSequential, Ends
    <3>2. /\ UNCHANGED db /\ req[r].pc = "insertAdmin" /\ req'[r].pc = "demo"
          /\ own'[r]["challenges"] = own[r]["challenges"] /\ own'[r]["rules"] = own[r]["rules"]
      BY <3>1, TableNames DEF Inserts, Proceeds
    <3> QED BY <2>q, <2>s, <3>1, <3>2 DEF OwnSequential
  <2>3. CASE SelectDemo(r)
    <3>0. Alone(r) /\ UNCHANGED db /\ req[r].pc = "demo"
      BY <2>3, SelectDemoEffect DEF Proceeds
    <3>1. CASE Proceeds(r, "demo", "packages") /\ Quiet
      BY <2>s, <3>0, <3>1 DEF Proceeds, Quiet
    <3>2. CASE /\ Proceeds(r, "demo", "insertDemo")
               /\ bootstrap /\ ~HasUser(View(r, "users"), DemoEmail)
               /\ own'[r]["challenges"] = own[r]["challenges"] \union {India(r)}
               /\ own'[r]["rules"] = own[r]["rules"] \union {IndiaRule(r)}
      <4>1. ~HasUser(db["users"], DemoEmail) /\ req'[r].pc = "insertDemo"
        BY <3>2, Committed, UsersGrow DEF Proceeds
      <4>2. PICK india : india = India(r)
        OBVIOUS
      <4>3. PICK rule : rule = IndiaRule(r)
        OBVIOUS
      <4>4. india.name # Core /\ rule.challenge = india
        BY <4>2, <4>3 DEF India, IndiaRule, Core
      <4>5. /\ View(r, "challenges") = db["challenges"] /\ View(r, "rules") = db["rules"]
            /\ View(r, "challenges")' = db["challenges"] \union {india}
            /\ View(r, "rules")' = db["rules"] \union {rule}
        BY <2>q, <3>0, <3>2, <4>2, <4>3 DEF OwnSequential, View
      <4>6. \A c \in db["challenges"] : c.name = Core
        BY <2>0, <3>2, <4>1 DEF DbDemoFirst
      <4>7. \A x \in db["rules"] : x.challenge # india
        BY <4>4, <4>6 DEF Fitting, RulesFit
      <4>8. Distinct(View(r, "challenges"), View(r, "rules"))'
        <5>1. Distinct(db["challenges"], db["rules"])
          BY <2>q, <4>5 DEF OwnSequential
        <5>2. india.name \notin {c.name : c \in db["challenges"]}
          BY <4>4, <4>6
        <5> QED BY <4>4, <4>5, <4>7, <5>1, <5>2 DEF Distinct
      <4>9. OwnSequential(r)'
        BY <3>0, <4>1, <4>8 DEF OwnSequential
      <4> QED BY <2>g, <3>0, <4>9
    <3> QED BY <2>3, <3>1, <3>2, SelectDemoEffect
  <2>4. CASE InsertDemo(r)
    <3>1. PICK accounts : accounts = {Account(r, DemoEmail, India(r), IndiaRule(r), DemoSize)}
      OBVIOUS
    <3>2. /\ Alone(r) /\ Proceeds(r, "insertDemo", "packages")
          /\ Inserts(r, DemoEmail, accounts, "packages")
      BY <2>4, <2>q, <3>1, InsertDemoEffect DEF OwnSequential, Ends
    <3>3. /\ UNCHANGED db /\ req'[r].pc = "packages"
          /\ own'[r]["challenges"] = own[r]["challenges"] /\ own'[r]["rules"] = own[r]["rules"]
      BY <3>2, TableNames DEF Inserts
    <3> QED BY <2>s, <3>2, <3>3
  <2>5. CASE SeedPackages(r)
    <3>1. /\ Alone(r) /\ UNCHANGED db /\ req'[r].pc = "instruments"
          /\ Quiet \/ Added(r, "packages", [size : PackageSizes, by : {r}])
      BY <2>5, SeedPackagesEffect DEF Proceeds
    <3> QED BY <2>s, <3>1, TableNames DEF Quiet, Added
  <2>6. CASE SeedInstruments(r)
    <3>1. /\ Alone(r) /\ Quiet
          /\ \/ req'[r].pc = "insertInstruments" /\ View(r, "instruments") = {}
             \/ req'[r].pc = "commit"
      BY <2>6, SeedInstrumentsEffect DEF Proceeds
    <3>2. View(r, "instruments") = {} => db["instruments"] = {}
      BY DEF View
    <3> QED BY <2>s, <3>1, <3>2 DEF Quiet
  <2>14. CASE InsertInstruments(r)
    <3>1. req[r].pc = "insertInstruments"
      BY <2>14 DEF InsertInstruments, Steps
    <3>2. db["instruments"] = {}
      BY <2>q, <3>1 DEF OwnSequential
    <3>3. /\ Alone(r) /\ UNCHANGED db /\ req'[r].pc = "commit"
          /\ Added(r, "instruments", {[by |-> r]})
      BY <2>14, <3>2, InsertInstrumentsEffect DEF Proceeds
    <3> QED BY <2>s, <3>3, TableNames DEF Added
  <2>15. CASE UpdatePurchase(r)
    <3>1. /\ Alone(r) /\ UNCHANGED db /\ req'[r].pc = "approve"
          /\ Added(r, "accounts", {Bought(r)})
      BY <2>0, <2>15, UpdatePurchaseEffect DEF Proceeds
    <3> QED BY <2>s, <3>1, TableNames DEF Added
  <2>7. CASE SignIn(r)
    BY <2>7, <2>e, SignInEffect
  <2>8. CASE LookUpEmail(r)
    <3>1. CASE /\ ~HasUser(View(r, "users"), req[r].email) /\ Quiet
               /\ Proceeds(r, "lookup", IF r \in Registrations THEN "challenge" ELSE "user")
      <4>1. /\ Alone(r) /\ UNCHANGED db /\ req'[r].pc \in {"challenge", "user"}
            /\ req'[r].email = req[r].email
        BY <2>8, <3>1, LookUpEmailEffect DEF Proceeds, Same, Quiet
      <4>2. ~HasUser(db["users"], req[r].email)
        BY <3>1, Committed, UsersGrow
      <4>3. OwnSequential(r)'
        BY <2>q, <3>1, <4>1, <4>2 DEF OwnSequential, Distinct, View, Quiet
      <4> QED BY <2>g, <4>1, <4>3
    <3> QED BY <2>8, <2>e, <3>1, LookUpEmailEffect
  <2>9. CASE EnsureChallenge(r)
    <3>1. PICK found : found = {c \in View(r, "challenges") : c.name = NameOf(r)}
      OBVIOUS
    <3>2. PICK new : new = [name |-> NameOf(r), by |-> r]
      OBVIOUS
    <3>3. ~(Cardinality(found) > 1)
      BY <2>q, <3>1, AtMostOne DEF OwnSequential, Distinct
    <3>4. /\ UNCHANGED db /\ Alone(r) /\ req[r].pc = "challenge" /\ req'[r].pc = "rule"
          /\ req'[r].email = req[r].email
          /\ UNCHANGED own \/ (found = {} /\ Added(r, "challenges", {new}))
      BY <2>9, <3>1, <3>2, <3>3, EnsureChallengeEffect DEF EnsuresChallenge
    <3>5. Distinct(View(r, "challenges"), View(r, "rules"))'
      <4>1. CASE UNCHANGED own
        BY <2>q, <3>4, <4>1 DEF OwnSequential, Distinct, View
      <4>2. CASE found = {} /\ Added(r, "challenges", {new})
        <5>1. /\ View(r, "challenges")' = View(r, "challenges") \union {new}
              /\ View(r, "rules")' = View(r, "rules")
          BY <3>4, <4>2, TableNames DEF Added, View
        <5>2. new.name = NameOf(r) /\ \A c \in View(r, "challenges") : c.name # NameOf(r)
          BY <3>1, <3>2, <4>2
        <5> QED BY <2>q, <5>1, <5>2 DEF OwnSequential, Distinct
      <4> QED BY <3>4, <4>1, <4>2
    <3>6. OwnSequential(r)'
      BY <2>q, <3>4, <3>5 DEF OwnSequential
    <3> QED BY <2>g, <3>4, <3>6
  <2>10. CASE EnsureRule(r)
    <3>1. PICK found : found = {rule \in View(r, "rules") : Fits(r, rule)}
      OBVIOUS
    <3>2. PICK new : new = [challenge |-> req[r].challenge, size |-> SizeOf(r), by |-> r]
      OBVIOUS
    <3>3. req[r].pc = "rule"
      BY <2>10 DEF EnsureRule, Steps
    <3>4. \A rule \in found : rule.challenge = req[r].challenge /\ rule.size = SizeOf(r)
      <4>1. CASE r \in Approvals
        BY <3>1, <4>1 DEF Fits
      <4>2. CASE r \notin Approvals
        <5>1. req[r].challenge.name = Core /\ SizeOf(r) = CoreSize
          BY <2>0, <3>3, <4>2 DEF Found, NameOf, SizeOf, Core
        <5>2. \A rule \in View(r, "rules") : rule.challenge.name = Core => rule.size = CoreSize
          BY <2>0 DEF OwnFits, Fitting, RulesFit, View
        <5> QED BY <3>1, <5>1, <5>2 DEF Fits
      <4> QED BY <4>1, <4>2
    <3>5. ~(Cardinality(found) > 1)
      <4>1. found \subseteq View(r, "rules")
        BY <3>1
      <4> QED BY <2>q, <3>4, <4>1, AtMostOne DEF OwnSequential, Distinct
    <3>6. /\ UNCHANGED db /\ Alone(r) /\ req'[r].pc = IF r \in Approvals THEN "account" ELSE "user"
          /\ req'[r].email = req[r].email
          /\ UNCHANGED own \/ (found = {} /\ Added(r, "rules", {new}))
      BY <2>0, <2>10, <3>1, <3>2, <3>5, EnsureRuleEffect DEF EnsuresRule
    <3>7. Distinct(View(r, "challenges"), View(r, "rules"))'
      <4>1. CASE UNCHANGED own
        BY <2>q, <3>6, <4>1 DEF OwnSequential, Distinct, View
      <4>2. CASE found = {} /\ Added(r, "rules", {new})
        <5>1. /\ View(r, "rules")' = View(r, "rules") \union {new}
              /\ View(r, "challenges")' = View(r, "challenges")
          BY <3>6, <4>2, TableNames DEF Added, View
        <5>2. /\ new.challenge = req[r].challenge /\ new.size = SizeOf(r)
              /\ \A x \in View(r, "rules") :
                   ~(x.challenge = req[r].challenge /\ x.size = SizeOf(r))
          BY <3>1, <3>2, <4>2 DEF Fits
        <5> QED BY <2>q, <5>1, <5>2 DEF OwnSequential, Distinct
      <4> QED BY <3>6, <4>1, <4>2
    <3>8. OwnSequential(r)'
      BY <2>q, <3>3, <3>6, <3>7 DEF OwnSequential
    <3> QED BY <2>g, <3>6, <3>8
  <2>11. CASE InsertUser(r)
    <3>1. PICK accounts : accounts =
            IF r \in Creations THEN {}
            ELSE {Account(r, req[r].email, req[r].challenge, req[r].rule, CoreSize)}
      OBVIOUS
    <3>2. req[r].pc = "user" /\ r \notin Approvals
      BY <2>0, <2>11, RequestKinds DEF InsertUser, Steps, RoleOf
    <3>3. ~HasUser(db["users"], req[r].email)
      BY <2>q, <3>2 DEF OwnSequential
    <3>4. Alone(r) /\ Inserts(r, req[r].email, accounts, "commit")
      BY <2>0, <2>11, <3>1, <3>3, InsertUserEffect
    <3>5. /\ UNCHANGED db /\ req'[r].pc = "commit"
          /\ own'[r]["challenges"] = own[r]["challenges"] /\ own'[r]["rules"] = own[r]["rules"]
      BY <3>4, TableNames DEF Inserts
    <3> QED BY <2>s, <3>4, <3>5
  <2>12. CASE CommitApproval(r)
    <3>1. /\ Alone(r) /\ own'[r] = NoRows /\ req'[r].pc = "answered"
          /\ db'["challenges"] = View(r, "challenges") /\ db'["rules"] = View(r, "rules")
      BY <2>0, <2>12, CommitApprovalEffect, TableNames
    <3> QED BY <2>c, <3>1
  <2>13. CASE CommitRequest(r)
    <3>1. /\ Alone(r) /\ own'[r] = NoRows /\ req'[r].pc \in {"signin", "answered"}
          /\ db'["challenges"] = View(r, "challenges") /\ db'["rules"] = View(r, "rules")
      BY <2>13, CommitRequestEffect, TableNames
    <3> QED BY <2>c, <3>1
  <2> QED BY <1>3, <2>1, <2>2, <2>3, <2>4, <2>5, <2>6, <2>7, <2>8, <2>9, <2>10,
              <2>11, <2>12, <2>13, <2>14, <2>15 DEF Continue
<1>4. CASE UNCHANGED vars
  BY <1>4 DEF vars, OneAtATime, Sequential, OwnSequential, Distinct, View, UnderWay
<1> QED BY <1>1, <1>2, <1>3, <1>4 DEF Next

(* As long as requests come one at a time, no order of logins,             *)
(* registrations, purchases and approvals, and no crash between them,      *)
(* makes one raise: an exception is always the work of a race.             *)
THEOREM OneByOneNeverRaises == Spec => []SequentialNeverRaises
<1> DEFINE IInv == Typed /\ Roles /\ Held /\ Fitting /\ DemoFirst /\ OneAtATime
<1>1. Init => IInv
  BY InitTyped, InitHeld, InitFitting, InitDemoFirst, InitOneAtATime
<1>2. IInv /\ [Next]_vars => IInv'
  BY TypedStep, HeldStep, FittingStep, DemoFirstStep, OneAtATimeStep
<1>3. IInv => SequentialNeverRaises
  BY DEF OneAtATime, Sequential, OwnSequential, SequentialNeverRaises
<1> QED BY <1>1, <1>2, <1>3, PTL DEF Spec
=============================================================================
