------------------------------ MODULE Onboarding ------------------------------
(***************************************************************************)
(* How users, challenges, rules, packages and accounts come to be: the     *)
(* seeding before a login, registration, an administrator's new user, a    *)
(* purchase and its approval, as concurrent requests.                      *)
(*                                                                         *)
(* A request is one database transaction.  It sees what is committed and   *)
(* what it wrote itself; an insert of an email another transaction has     *)
(* inserted waits for that transaction's end, and so does a second seeding *)
(* of instruments and a second approval of a purchase; an exception rolls  *)
(* back.                                                                   *)
(***************************************************************************)
EXTENDS Naturals, FiniteSets

CONSTANTS
  Logins, Registrations, Creations, Purchases, Approvals,  \* the requests
  Emails, AdminEmail, DemoEmail,
  PackageSizes,   \* the account sizes on sale
  IndiaSize, DemoSize, CoreSize,  \* funded capital of the seeded rule, balance
                                  \* of the demo account, size of registration's
  MaxRequests,    \* bound on the requests of a behaviour
  Operator, None

Requests == UNION {Logins, Registrations, Creations, Purchases, Approvals}

(* A request does one thing, and the operator's rows are of none.          *)
ASSUME RequestKinds ==
  /\ Logins \cap (Registrations \union Creations \union Purchases \union Approvals) = {}
  /\ Registrations \cap (Creations \union Purchases \union Approvals) = {}
  /\ Creations \cap (Purchases \union Approvals) = {}
  /\ Purchases \cap Approvals = {}
  /\ Operator \notin Requests
ASSUME SomethingOnSale == PackageSizes # {}

Tables   == {"users", "challenges", "rules", "packages", "instruments",
             "purchases", "accounts"}

VARIABLES
  bootstrap,   \* settings.ENABLE_DEMO_BOOTSTRAP
  db,          \* the committed rows of each table; "by" is a row's identity
  own,         \* per request, its uncommitted rows of each table
  req,         \* per request: [pc, email, purchase, challenge, rule]
  overlapped   \* history: two requests were under way at once

vars == <<bootstrap, db, own, req, overlapped>>

NoRows == [t \in Tables |-> {}]
Ended  == {"answered", "refused", "raised", "lost"}
UnderWay(r) == req[r].pc \notin Ended \union {"waiting"}
View(r, t) == db[t] \union own[r][t]
HasUser(rows, email) == \E u \in rows : u.email = email

(* Without the bootstrap an operator has made the administrator and the    *)
(* packages and instruments on sale.                                       *)
Init ==
  /\ bootstrap \in BOOLEAN
  /\ db = IF bootstrap THEN NoRows
          ELSE [NoRows EXCEPT !["users"] = {[email |-> AdminEmail, by |-> Operator]},
                              !["packages"] = [size : PackageSizes, by : {Operator}],
                              !["instruments"] = {[by |-> Operator]}]
  /\ own = [r \in Requests |-> NoRows]
  /\ req = [r \in Requests |-> [pc |-> "waiting", email |-> None, purchase |-> None,
                                challenge |-> None, rule |-> None]]
  /\ overlapped = FALSE

---------------------------------------------------------------------------
(* What requests share.                                                    *)
Go(r, pc) == req' = [req EXCEPT ![r].pc = pc]
Adds(r, t, rows) == own' = [own EXCEPT ![r][t] = @ \union rows]

(* A request's variables go with it; what it approved is remembered.       *)
Over(r, pc) ==
  req' = [req EXCEPT ![r] = [@ EXCEPT !.pc = pc, !.email = None,
                                      !.challenge = None, !.rule = None]]

EndHolding(r, pc) ==  \* fault: the session is not closed
  Over(r, pc) /\ UNCHANGED <<own, db>>

End(r, pc) ==
  /\ Over(r, pc)
  /\ own' = [own EXCEPT ![r] = NoRows]
  /\ UNCHANGED db

Commit(r) ==
  /\ own' = [own EXCEPT ![r] = NoRows]
  /\ db'  = [t \in Tables |-> View(r, t)]

Begins(r, request) ==
  /\ req[r].pc = "waiting"
  /\ Cardinality({s \in Requests : req[s].pc # "waiting"}) < MaxRequests
  /\ req' = [req EXCEPT ![r] = request]
  /\ overlapped' = (overlapped \/ \E s \in Requests : UnderWay(s))

(* A user's row, with the account that is added after it.                  *)
InsertCommitting(r, email, accounts, pc) ==  \* fault: commit for flush
  IF HasUser(db["users"], email) THEN End(r, "raised")
  ELSE /\ \A s \in Requests \ {r} : ~HasUser(own[s]["users"], email)
       /\ db'  = [t \in Tables |-> IF t = "users" THEN View(r, t) \union {[email |-> email, by |-> r]}
                                   ELSE View(r, t)]
       /\ own' = [own EXCEPT ![r] = [NoRows EXCEPT !["accounts"] = accounts]]
       /\ Go(r, pc)

Insert(r, email, accounts, pc) ==
  \/ HasUser(db["users"], email) /\ End(r, "raised")
  \/ /\ ~HasUser(db["users"], email)
     /\ \A s \in Requests \ {r} : ~HasUser(own[s]["users"], email)
     /\ own' = [own EXCEPT ![r]["users"] = @ \union {[email |-> email, by |-> r]},
                           ![r]["accounts"] = @ \union accounts]
     /\ Go(r, pc) /\ UNCHANGED db

Account(r, email, challenge, rule, size) ==
  [user |-> email, challenge |-> challenge, rule |-> rule, size |-> size, by |-> r]

(* Somebody is an administrator: not who registered with that email.       *)
Administered == \E u \in db["users"] : u.email = AdminEmail /\ u.by \in Logins \union {Operator}

Steps(r, pc) == req[r].pc = pc /\ UNCHANGED <<bootstrap, overlapped>>

---------------------------------------------------------------------------
(* login: ensure_seed_data, then the lookup of the user.                   *)
Login(r, email) ==
  /\ Begins(r, [req[r] EXCEPT !.pc = "admin", !.email = email])
  /\ UNCHANGED <<bootstrap, db, own>>

SelectAdmin(r) ==
  /\ Steps(r, "admin")
  /\ Go(r, IF bootstrap /\ ~HasUser(View(r, "users"), AdminEmail)
           THEN "insertAdmin" ELSE "demo")
  /\ UNCHANGED <<db, own>>

InsertAdmin(r) ==
  Steps(r, "insertAdmin") /\ Insert(r, AdminEmail, {}, "demo")

India(r) == [name |-> "India Index Prop Challenge", by |-> r]
IndiaRule(r) == [challenge |-> India(r), size |-> IndiaSize, by |-> r]

SelectDemoCommitting(r) ==  \* fault: the challenge is committed before its user
  /\ Steps(r, "demo")
  /\ IF bootstrap /\ ~HasUser(View(r, "users"), DemoEmail)
     THEN /\ db' = [t \in Tables |-> CASE t = "challenges" -> View(r, t) \union {India(r)}
                                      [] t = "rules"      -> View(r, t) \union {IndiaRule(r)}
                                      [] OTHER            -> View(r, t)]
          /\ own' = [own EXCEPT ![r] = NoRows]
          /\ Go(r, "insertDemo")
     ELSE Go(r, "packages") /\ UNCHANGED <<db, own>>

SelectDemo(r) ==
  /\ Steps(r, "demo") /\ UNCHANGED db
  /\ IF bootstrap /\ ~HasUser(View(r, "users"), DemoEmail)
     THEN /\ own' = [own EXCEPT ![r]["challenges"] = @ \union {India(r)},
                                ![r]["rules"] = @ \union {IndiaRule(r)}]
          /\ Go(r, "insertDemo")
     ELSE Go(r, "packages") /\ UNCHANGED own

InsertDemo(r) ==
  /\ Steps(r, "insertDemo")
  /\ Insert(r, DemoEmail, {Account(r, DemoEmail, India(r), IndiaRule(r), DemoSize)}, "packages")

SeedPackages(r) ==
  /\ Steps(r, "packages") /\ UNCHANGED db
  /\ IF bootstrap /\ View(r, "packages") = {}
     THEN Adds(r, "packages", [size : PackageSizes, by : {r}]) ELSE UNCHANGED own
  /\ Go(r, "instruments")

SeedInstruments(r) ==
  /\ Steps(r, "instruments")
  /\ Go(r, IF bootstrap /\ View(r, "instruments") = {} THEN "insertInstruments" ELSE "commit")
  /\ UNCHANGED <<db, own>>

(* The commit's flush: the symbol of an instrument is unique.              *)
InsertInstruments(r) ==
  /\ Steps(r, "insertInstruments")
  /\ \/ db["instruments"] # {} /\ End(r, "raised")
     \/ /\ db["instruments"] = {}
        /\ \A s \in Requests \ {r} : own[s]["instruments"] = {}
        /\ Adds(r, "instruments", {[by |-> r]})
        /\ Go(r, "commit") /\ UNCHANGED db

SignIn(r) ==
  /\ Steps(r, "signin")
  /\ End(r, IF HasUser(View(r, "users"), req[r].email) THEN "answered" ELSE "refused")

---------------------------------------------------------------------------
(* register and create_admin_user: an email not taken becomes a user, a    *)
(* registered one with an account.                                         *)
Register(r, email) ==
  /\ Begins(r, [req[r] EXCEPT !.pc = "lookup", !.email = email])
  /\ UNCHANGED <<bootstrap, db, own>>

CreateUser(r, email) ==
  /\ Administered
  /\ Begins(r, [req[r] EXCEPT !.pc = "lookup", !.email = email])
  /\ UNCHANGED <<bootstrap, db, own>>

LookUpEmailUnchecked(r) ==  \* fault: whether the email is taken is not asked
  /\ Steps(r, "lookup")
  /\ Go(r, IF r \in Registrations THEN "challenge" ELSE "user")
  /\ UNCHANGED <<db, own>>

LookUpEmail(r) ==
  /\ Steps(r, "lookup")
  /\ IF HasUser(View(r, "users"), req[r].email) THEN End(r, "refused")
     ELSE /\ Go(r, IF r \in Registrations THEN "challenge" ELSE "user")
          /\ UNCHANGED <<db, own>>

InsertUser(r) ==
  /\ Steps(r, "user")
  /\ Insert(r, req[r].email,
            IF r \in Creations THEN {}
            ELSE {Account(r, req[r].email, req[r].challenge, req[r].rule, CoreSize)}, "commit")

(* The challenge of a name, and the rule of a challenge and, for an        *)
(* approval, of a size: found or made; two of them raise.                  *)
NameOf(r) == IF r \in Approvals THEN "India Index Prop Challenge" ELSE "Core Trading Sandbox"
SizeOf(r) == IF r \in Approvals THEN req[r].purchase.size ELSE CoreSize

EnsureChallenge(r) ==
  LET found == {c \in View(r, "challenges") : c.name = NameOf(r)}
      new   == [name |-> NameOf(r), by |-> r]
  IN  /\ Steps(r, "challenge")
      /\ \/ Cardinality(found) > 1 /\ End(r, "raised")
         \/ \E c \in IF found = {} THEN {new} ELSE found :
              /\ Cardinality(found) <= 1
              /\ req' = [req EXCEPT ![r].pc = "rule", ![r].challenge = c]
              /\ IF found = {} THEN Adds(r, "challenges", {new}) ELSE UNCHANGED own
              /\ UNCHANGED db

FitsAnySize(r, rule) ==  \* fault: the size is not asked for
  rule.challenge = req[r].challenge

Fits(r, rule) ==
  /\ rule.challenge = req[r].challenge
  /\ r \in Approvals => rule.size = SizeOf(r)

EnsureRule(r) ==
  LET found == {rule \in View(r, "rules") : Fits(r, rule)}
      new   == [challenge |-> req[r].challenge, size |-> SizeOf(r), by |-> r]
  IN  /\ Steps(r, "rule")
      /\ \/ Cardinality(found) > 1 /\ End(r, "raised")
         \/ \E rule \in IF found = {} THEN {new} ELSE found :
              /\ Cardinality(found) <= 1
              /\ req' = [req EXCEPT ![r].pc = IF r \in Approvals THEN "account" ELSE "user",
                                    ![r].rule = rule]
              /\ IF found = {} THEN Adds(r, "rules", {new}) ELSE UNCHANGED own
              /\ UNCHANGED db

---------------------------------------------------------------------------
(* A purchase of a package on sale, and an approval: it makes the account  *)
(* and marks the purchase, whatever the purchase's status.                 *)
Purchase(r, user, package) ==
  /\ Begins(r, [req[r] EXCEPT !.pc = "commit", !.email = user.email])
  /\ Adds(r, "purchases", {[user |-> user.email, size |-> package.size, by |-> r,
                            status |-> "PENDING_VERIFICATION", account |-> None]})
  /\ UNCHANGED <<bootstrap, db>>

Approve(r, purchase) ==
  /\ Administered
  /\ Begins(r, [req[r] EXCEPT !.pc = "challenge", !.purchase = purchase])
  /\ UNCHANGED <<bootstrap, db, own>>

Approved(rows, purchase, account) ==
  {IF p.by = purchase.by
   THEN [p EXCEPT !.status = "APPROVED", !.account = account] ELSE p : p \in rows}

Bought(r) ==
  Account(r, req[r].purchase.user, req[r].challenge, req[r].rule, SizeOf(r))

(* Two approvals of a purchase take turns at its row.                      *)
Approving(s, purchase) == req[s].pc = "approve" /\ req[s].purchase.by = purchase.by

UpdatePurchaseUnadded(r) ==  \* fault: the account is not added to the session
  /\ Steps(r, "account")
  /\ \A s \in Requests \ {r} : ~Approving(s, req[r].purchase)
  /\ Go(r, "approve") /\ UNCHANGED <<db, own>>

UpdatePurchase(r) ==
  /\ Steps(r, "account")
  /\ \A s \in Requests \ {r} : ~Approving(s, req[r].purchase)
  /\ Adds(r, "accounts", {Bought(r)})
  /\ Go(r, "approve") /\ UNCHANGED db

CommitApproval(r) ==
  /\ Steps(r, "approve") /\ Over(r, "answered")
  /\ own' = [own EXCEPT ![r] = NoRows]
  /\ db' = [t \in Tables |->
              IF t = "purchases" THEN Approved(db[t], req[r].purchase, Bought(r)) ELSE View(r, t)]

CommitRequest(r) ==
  /\ Steps(r, "commit") /\ Commit(r)
  /\ IF r \in Logins THEN Go(r, "signin") ELSE Over(r, "answered")

(* The server goes down: open transactions roll back.                      *)
Crash ==
  /\ \E r \in Requests : UnderWay(r)
  /\ req' = [r \in Requests |->
               IF UnderWay(r)
               THEN [req[r] EXCEPT !.pc = "lost", !.email = None, !.challenge = None, !.rule = None]
               ELSE req[r]]
  /\ own' = [r \in Requests |-> NoRows]
  /\ UNCHANGED <<bootstrap, db, overlapped>>

Begin(r) ==
  \/ \E email \in Emails : \/ r \in Logins /\ Login(r, email)
                           \/ r \in Registrations /\ Register(r, email)
                           \/ r \in Creations /\ CreateUser(r, email)
  \/ /\ r \in Purchases
     /\ \E user \in {u \in db["users"] : u.email \in Emails}, package \in db["packages"] : Purchase(r, user, package)
  \/ r \in Approvals /\ \E purchase \in db["purchases"] : Approve(r, purchase)

Continue(r) ==
  \/ SelectAdmin(r) \/ InsertAdmin(r) \/ SelectDemo(r) \/ InsertDemo(r)
  \/ SeedPackages(r) \/ SeedInstruments(r) \/ InsertInstruments(r) \/ SignIn(r)
  \/ LookUpEmail(r) \/ EnsureChallenge(r) \/ EnsureRule(r) \/ InsertUser(r)
  \/ UpdatePurchase(r) \/ CommitApproval(r) \/ CommitRequest(r)

Next == Crash \/ \E r \in Requests : Begin(r) \/ Continue(r)

Spec == Init /\ [][Next]_vars

---------------------------------------------------------------------------
(* A request that is over holds nothing, and no two transactions have one  *)
(* user's row.                                                             *)
TypeOK ==
  /\ \A r \in Requests : ~UnderWay(r) => own[r] = NoRows
  /\ LET users == db["users"] \union UNION {own[r]["users"] : r \in Requests}
     IN  \A u, v \in users : u.email = v.email => u = v
  /\ \A r \in Requests : req[r].pc \in
       Ended \union {"waiting", "admin", "insertAdmin", "demo", "insertDemo", "packages",
                     "instruments", "insertInstruments", "signin", "lookup", "challenge",
                     "rule", "user", "account", "approve", "commit"}

(* First logins that race, with each other or with registrations of the    *)
(* seeded emails, leave the seed once: the instruments and the demo        *)
(* account's challenge always; the packages unless both seeded emails were *)
(* taken before, for then no insert of a user makes a second seeding wait, *)
(* and it may find the instruments of a first whose packages it missed.    *)
Taken(email) == \E u \in db["users"] : u.email = email /\ u.by \notin Logins

SeededOnce ==
  /\ \A i, k \in db["instruments"] : i = k
  /\ \A c, d \in {c \in db["challenges"] : c.by \in Logins} : c = d
  /\ \/ \A p, q \in db["packages"] : p.by = q.by
     \/ Taken(AdminEmail) /\ Taken(DemoEmail)

(* Every registered user has the account made by the same registration,    *)
(* whatever fails or crashes in between, and no account is without its user.*)
RegistrationsWhole ==
  /\ \A u \in {u \in db["users"] : u.by \in Registrations} :
       \E a \in db["accounts"] : a.by = u.by /\ a.user = u.email
  /\ \A a \in db["accounts"] : HasUser(db["users"], a.user)

(* An account trades under a committed rule of its own challenge, and a    *)
(* bought or registered one under the rule of its size.                    *)
AccountsFit ==
  \A a \in db["accounts"] :
    /\ a.rule \in db["rules"] /\ a.challenge \in db["challenges"]
    /\ a.rule.challenge = a.challenge
    /\ a.by \notin Logins => a.rule.size = a.size

(* A purchase is approved when, and only when, there is an account of its  *)
(* buyer and its size to show for it.                                      *)
ApprovalsFunded ==
  \A p \in db["purchases"] :
    /\ p.status = "APPROVED" => /\ p.account \in db["accounts"]
                                /\ p.account.user = p.user /\ p.account.size = p.size
    /\ (\E a \in db["accounts"] : a.by \in Approvals /\ req[a.by].purchase.by = p.by) =>
         p.status = "APPROVED"

(* As long as requests come one at a time, no sequence of them, and no     *)
(* crash between them, makes one raise.                                    *)
SequentialNeverRaises ==
  ~overlapped => \A r \in Requests : req[r].pc # "raised"

(* The email a request inserts, and who holds a row that a request waits   *)
(* for: a user of that email, the instruments, or a purchase's row.        *)
Wanted(r) ==
  CASE req[r].pc = "insertAdmin" -> AdminEmail
    [] req[r].pc = "insertDemo"  -> DemoEmail
    [] req[r].pc = "user"        -> req[r].email
    [] OTHER                     -> None

WaitsFor(r, s) ==
  /\ r # s
  /\ \/ Wanted(r) # None /\ HasUser(own[s]["users"], Wanted(r))
     \/ req[r].pc = "insertInstruments" /\ own[s]["instruments"] # {}
     \/ req[r].pc = "account" /\ Approving(s, req[r].purchase)

(* Whatever row a request waits for is held by one that will let go: it is *)
(* under way, and no requests wait for one another.                        *)
EveryWaitEnds ==
  LET waiting == {r \in Requests : \E s \in Requests : WaitsFor(r, s)}
  IN  /\ \A r \in waiting, s \in Requests : WaitsFor(r, s) => UnderWay(s)
      /\ \A ring \in (SUBSET waiting) \ {{}} :
           \E r \in ring : \A s \in ring : ~WaitsFor(r, s)
=============================================================================
