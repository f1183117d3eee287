---------------------------- MODULE AccessProofs ----------------------------
(***************************************************************************)
(* Proofs about Access, for any users, organisations, offers and number of *)
(* requests: nobody acts beyond a standing the user had, no token is a     *)
(* ladder, closing a session leaves the pasted token alone, and the audit  *)
(* log tells the tables.  Inv relates what a request has read to the       *)
(* tables and to `high', the greatest role its user has had since it       *)
(* began; AuditInv, inductive given Inv, relates the rows of the log to    *)
(* the open transactions, the row locks and the tables.                    *)
(***************************************************************************)
EXTENDS Access, FiniteSetTheorems, SequenceTheorems, TLAPS

Roles == None..Admin

JobOK(job) ==
  /\ job.op \in {"act", "issue", "revoke", "org", "add", "remove", "open", "close", "cli"}
  /\ job.op \in {"act", "org", "add", "remove"} => job.ns \in Names
  /\ job.op = "act" => job.scope \in Scopes
  /\ job.op \in {"add", "remove"} => job.user \in Names
  /\ job.op = "add" => job.role \in Scopes
  /\ job.op = "issue" => job.scope \in Scopes /\ job.list \subseteq Names
  /\ job.op \in {"revoke", "open", "close"} => job.token \in Tokens
  /\ job.op = "cli" => job.login \in Names /\ job.scope \in Scopes

(* What a request read: its fields, the roles read so far bounded by the
   greatest held, and the presented token's row as it was and still is. *)
IdentityOK(r, ro, tk) ==
  /\ r = [at |-> r.at, job |-> r.job, token |-> r.token, user |-> r.user,
          scope |-> r.scope, namespaces |-> r.namespaces, left |-> r.left,
          got |-> r.got, high |-> r.high]
  /\ r.user \in Names /\ r.scope \in Scopes
  /\ r.got \in [Names -> Roles] /\ r.high \in [Names -> Roles]
  /\ \A n \in Names : ro[n][r.user] <= r.high[n] /\ r.got[n] <= r.high[n]
  /\ IF r.job.op = "cli" THEN r.token = NoOne
     ELSE /\ r.token \in Tokens /\ r.user = tk[r.token].user
          /\ r.scope = tk[r.token].scope /\ r.namespaces = tk[r.token].namespaces

(* And what it was let through for. *)
GrantOK(r, tk) ==
  /\ r.at \in {"resolve", "acted", "mint", "revoke", "found", "commit"}
  /\ r.at = "acted" => r.job.op = "act" /\ Standing(r, r.job.ns, r.job.scope)
  /\ r.at = "mint" => r.job.op \in {"issue", "open", "cli"}
  /\ r.at = "revoke" => r.job.op \in {"revoke", "close"}
  /\ r.at = "found" => r.job.op \in {"org", "add", "remove"}
  /\ r.at = "commit" => r.job.op \in {"org", "add", "remove", "revoke", "close"}
  /\ r.at \in {"found", "commit"} /\ r.job.op \in {"add", "remove"} =>
       Standing(r, r.job.ns, Admin)
  /\ r.at = "mint" /\ r.job.op = "issue" =>
       /\ r.job.scope <= r.scope
       /\ \A n \in r.job.list \ r.left : n = r.user \/ r.high[n] = Admin
  /\ r.job.op = "close" => tk[r.job.token].session
  /\ r.at = "commit" /\ r.job.op \in {"revoke", "close"} => r.user = tk[r.job.token].user

RequestOK(r, ro, tk) == JobOK(r.job) /\ IdentityOK(r, ro, tk) /\ GrantOK(r, tk)

TokenOK(k, tk) ==
  /\ k = [user |-> k.user, scope |-> k.scope, namespaces |-> k.namespaces,
          revoked |-> k.revoked, parent |-> k.parent, backed |-> k.backed,
          session |-> k.session]
  /\ k.user \in Names \cup {NoOne}
  /\ IF k.user = NoOne THEN k = NoToken ELSE k.scope \in Scopes
  /\ k.parent # NoOne =>
       /\ k.parent \in Tokens /\ tk[k.parent].user # NoOne
       /\ k.user = tk[k.parent].user /\ k.scope <= tk[k.parent].scope
       /\ k.namespaces \subseteq {k.user} \cup k.backed
            \cup (IF k.session THEN tk[k.parent].namespaces ELSE {})

RoleInv    == role \in [Names -> [Names -> Roles]]
TokenInv   == DOMAIN tokens = Tokens /\ \A t \in Tokens : TokenOK(tokens[t], tokens)
SessionInv == \A t \in cookies : t \in Tokens /\ tokens[t].session
RequestInv ==
  /\ DOMAIN req = Requests
  /\ \A q \in Requests :
       /\ req[q].at # "done" => tokens[q].user = NoOne
       /\ Active(q) => RequestOK(req[q], role, tokens)

Inv == RoleInv /\ TokenInv /\ SessionInv /\ RequestInv

-----------------------------------------------------------------------------
LEMMA InitInv == Init => Inv
<1> SUFFICES ASSUME Init PROVE Inv OBVIOUS
<1> USE AccessAssumption DEF Init, Roles
<1>1. RoleInv
  BY DEF RoleInv
<1>2. TokenInv
  <2> SUFFICES ASSUME NEW t \in Tokens PROVE TokenOK(tokens[t], tokens)
    BY DEF TokenInv
  <2>1. CASE t \in FirstUsers
    <3>1. /\ tokens[t].user = t /\ tokens[t].scope = Admin /\ tokens[t].parent = NoOne
          /\ tokens[t] = [user |-> tokens[t].user, scope |-> tokens[t].scope,
                          namespaces |-> tokens[t].namespaces, revoked |-> tokens[t].revoked,
                          parent |-> tokens[t].parent, backed |-> tokens[t].backed,
                          session |-> tokens[t].session]
      BY <2>1 DEF NoToken
    <3> QED BY <2>1, <3>1 DEF TokenOK, Scopes, Admin
  <2>2. CASE t \notin FirstUsers
    BY <2>2 DEF TokenOK, NoToken
  <2> QED BY <2>1, <2>2
<1>3. SessionInv
  BY DEF SessionInv
<1>4. RequestInv
  BY DEF RequestInv, Active, Idle, NoToken, Tokens
<1> QED BY <1>1, <1>2, <1>3, <1>4 DEF Inv

-----------------------------------------------------------------------------
(* What an offered operation is made of. *)
LEMMA OffersOK == \A job \in Offers \cup CliOffers : JobOK(job)
  BY OffersAssumption DEF Jobs, CliJobs, JobOK

(* A request that only reads: the tables stay, and what it now knows is right. *)
LEMMA LocalStep ==
  ASSUME Inv, NEW q \in Requests, UNCHANGED <<role, tokens, cookies>>,
         NEW r, req' = [req EXCEPT ![q] = r], req[q].at # "done",
         r.at = "done" \/ RequestOK(r, role, tokens)
  PROVE  Inv'
<1>1. DOMAIN req' = Requests /\ req'[q] = r /\ \A p \in Requests : p # q => req'[p] = req[p]
  BY DEF Inv, RequestInv
<1>2. RequestInv'
  BY <1>1 DEF Inv, RequestInv, Active
<1>3. RoleInv' /\ TokenInv' /\ SessionInv'
  BY DEF Inv, RoleInv, TokenInv, SessionInv
<1> QED BY <1>2, <1>3 DEF Inv

(* An identity just read: no role looked at yet, today's roles the highest. *)
LEMMA FreshIdentity ==
  ASSUME Inv, NEW t \in Tokens, tokens[t].user # NoOne, NEW job, JobOK(job), job.op # "cli",
         NEW at, NEW left
  PROVE  IdentityOK(Identity(t, job, at, left), role, tokens)
<1> DEFINE r == Identity(t, job, at, left)
<1>1. /\ r = [at |-> at, job |-> job, token |-> t, user |-> tokens[t].user,
              scope |-> tokens[t].scope, namespaces |-> tokens[t].namespaces, left |-> left,
              got |-> [n \in Names |-> None], high |-> [n \in Names |-> role[n][tokens[t].user]]]
  BY DEF Identity
<1>2. tokens[t].user \in Names /\ tokens[t].scope \in Scopes
  BY DEF Inv, TokenInv, TokenOK
<1>3. \A n \in Names : role[n][tokens[t].user] \in Roles
  BY <1>2 DEF Inv, RoleInv
<1> HIDE DEF r
<1>4. r.got \in [Names -> Roles] /\ r.high \in [Names -> Roles]
  BY <1>1, <1>3 DEF Roles, None, Admin
<1>5. \A n \in Names : role[n][r.user] <= r.high[n] /\ r.got[n] <= r.high[n]
  BY <1>1, <1>3 DEF Roles, None, Admin
<1>6. IdentityOK(r, role, tokens)
  BY <1>1, <1>2, <1>4, <1>5 DEF IdentityOK
<1> QED BY <1>6 DEF r

LEMMA PresentStep ==
  ASSUME Inv, NEW q \in Requests, NEW t \in Tokens, NEW job \in Offers, Present(q, t, job)
  PROVE  Inv'
<1> DEFINE r == Identity(t, job, "resolve", tokens[t].namespaces \ {tokens[t].user})
<1>1. JobOK(job) /\ job.op \notin {"cli", "close"}
  BY OffersOK, OffersAssumption DEF Jobs
<1>2. IdentityOK(r, role, tokens)
  BY <1>1, FreshIdentity DEF Present
<1>3. r.at = "resolve" /\ r.job = job
  BY DEF Identity
<1>4. GrantOK(r, tokens)
  BY <1>1, <1>3 DEF GrantOK
<1>5. req[q].at # "done" /\ req' = [req EXCEPT ![q] = r] /\ UNCHANGED <<role, tokens, cookies>>
  BY DEF Present, Idle, tables
<1>6. RequestOK(r, role, tokens)
  BY <1>1, <1>2, <1>3, <1>4 DEF RequestOK
<1> HIDE DEF r
<1> QED BY <1>5, <1>6, LocalStep

(* A handler's next phase, its identity as it was. *)
LEMMA Moved ==
  ASSUME NEW r, IdentityOK(r, role, tokens), NEW at
  PROVE  LET m == [r EXCEPT !.at = at] IN
         /\ m.at = at /\ m.job = r.job /\ m.token = r.token /\ m.user = r.user
         /\ m.scope = r.scope /\ m.namespaces = r.namespaces /\ m.left = r.left
         /\ m.got = r.got /\ m.high = r.high
         /\ IdentityOK(m, role, tokens)
<1> DEFINE m == [r EXCEPT !.at = at]
<1>1. /\ m.at = at /\ m.job = r.job /\ m.token = r.token /\ m.user = r.user
      /\ m.scope = r.scope /\ m.namespaces = r.namespaces /\ m.left = r.left
      /\ m.got = r.got /\ m.high = r.high
      /\ m = [at |-> m.at, job |-> m.job, token |-> m.token, user |-> m.user,
              scope |-> m.scope, namespaces |-> m.namespaces, left |-> m.left,
              got |-> m.got, high |-> m.high]
  BY DEF IdentityOK
<1> HIDE DEF m
<1>2. IdentityOK(m, role, tokens)
  BY <1>1 DEF IdentityOK
<1> QED BY <1>1, <1>2 DEF m

LEMMA Narrowed ==
  ASSUME NEW r, IdentityOK(r, role, tokens), NEW left
  PROVE  LET m == [r EXCEPT !.left = left] IN
         /\ m.at = r.at /\ m.job = r.job /\ m.token = r.token /\ m.user = r.user
         /\ m.scope = r.scope /\ m.namespaces = r.namespaces /\ m.left = left
         /\ m.got = r.got /\ m.high = r.high
         /\ IdentityOK(m, role, tokens)
<1> DEFINE m == [r EXCEPT !.left = left]
<1>1. /\ m.at = r.at /\ m.job = r.job /\ m.token = r.token /\ m.user = r.user
      /\ m.scope = r.scope /\ m.namespaces = r.namespaces /\ m.left = left
      /\ m.got = r.got /\ m.high = r.high
      /\ m = [at |-> m.at, job |-> m.job, token |-> m.token, user |-> m.user,
              scope |-> m.scope, namespaces |-> m.namespaces, left |-> m.left,
              got |-> m.got, high |-> m.high]
  BY DEF IdentityOK
<1> HIDE DEF m
<1>2. IdentityOK(m, role, tokens)
  BY <1>1 DEF IdentityOK
<1> QED BY <1>1, <1>2 DEF m

LEMMA ToStep ==
  ASSUME Inv, NEW q \in Requests, Active(q), NEW at, To(q, at),
         UNCHANGED <<role, tokens, cookies>>,
         GrantOK([req[q] EXCEPT !.at = at], tokens)
  PROVE  Inv'
<1> DEFINE r == req[q]
           m == [r EXCEPT !.at = at]
<1>1. RequestOK(r, role, tokens) /\ r.at # "done"
  BY DEF Inv, RequestInv, Active
<1>2. JobOK(m.job) /\ IdentityOK(m, role, tokens)
  BY <1>1, Moved DEF RequestOK
<1>3. RequestOK(m, role, tokens)
  BY <1>2 DEF RequestOK
<1>4. req' = [req EXCEPT ![q] = m]
  BY DEF To
<1> HIDE DEF m
<1> QED BY <1>1, <1>3, <1>4, LocalStep

LEMMA AnswerStep ==
  ASSUME Inv, NEW q \in Requests, Active(q), Answer(q), UNCHANGED <<role, tokens, cookies>>
  PROVE  Inv'
<1>1. req' = [req EXCEPT ![q] = Done] /\ Done.at = "done" /\ req[q].at # "done"
  BY DEF Answer, Done, Active
<1> QED BY <1>1, LocalStep

(* One membership row is read (auth.rs resolve). *)
LEMMA ReadRoleStep ==
  ASSUME Inv, NEW q \in Requests, NEW ns \in Names, ReadRole(q, ns)
  PROVE  Inv'
<1> DEFINE r == req[q]
           g == [r EXCEPT !.got = [@ EXCEPT ![ns] = role[ns][r.user]]]
           m == [r EXCEPT !.got = [@ EXCEPT ![ns] = role[ns][r.user]], !.left = @ \ {ns}]
<1>1. /\ RequestOK(r, role, tokens) /\ r.at = "resolve"
      /\ req' = [req EXCEPT ![q] = m] /\ UNCHANGED <<role, tokens, cookies>>
  BY DEF Inv, RequestInv, Active, ReadRole, tables
<1>2. /\ m.at = "resolve" /\ m.job = r.job /\ m.token = r.token /\ m.user = r.user
      /\ m.scope = r.scope /\ m.namespaces = r.namespaces
      /\ m.got = [r.got EXCEPT ![ns] = role[ns][r.user]] /\ m.high = r.high
      /\ m = [at |-> m.at, job |-> m.job, token |-> m.token, user |-> m.user,
              scope |-> m.scope, namespaces |-> m.namespaces, left |-> m.left,
              got |-> m.got, high |-> m.high]
  <2>1. /\ g.at = "resolve" /\ g.job = r.job /\ g.token = r.token /\ g.user = r.user
        /\ g.scope = r.scope /\ g.namespaces = r.namespaces /\ g.left = r.left
        /\ g.got = [r.got EXCEPT ![ns] = role[ns][r.user]] /\ g.high = r.high
        /\ g = [at |-> g.at, job |-> g.job, token |-> g.token, user |-> g.user,
                scope |-> g.scope, namespaces |-> g.namespaces, left |-> g.left,
                got |-> g.got, high |-> g.high]
    BY <1>1 DEF RequestOK, IdentityOK
  <2>2. m = [g EXCEPT !.left = r.left \ {ns}]
    BY <2>1
  <2> HIDE DEF g, m
  <2> QED BY <2>1, <2>2
<1> HIDE DEF m
<1>3. role[ns][r.user] \in Roles /\ role[ns][r.user] <= r.high[ns]
  BY <1>1 DEF Inv, RoleInv, RequestOK, IdentityOK
<1>4. /\ m.got \in [Names -> Roles]
      /\ \A n \in Names : m.got[n] <= m.high[n]
  BY <1>1, <1>2, <1>3 DEF RequestOK, IdentityOK
<1>5. IdentityOK(m, role, tokens)
  BY <1>1, <1>2, <1>4 DEF RequestOK, IdentityOK
<1>6. GrantOK(m, tokens) /\ JobOK(m.job)
  BY <1>1, <1>2 DEF RequestOK, GrantOK
<1> QED BY <1>1, <1>5, <1>6, LocalStep DEF RequestOK

(* What the extractor computed is a standing the user had: the least of the
   token's scope and a role held since the request began. *)
LEMMA AllowedIsStanding ==
  ASSUME NEW r, IdentityOK(r, role, tokens), NEW ns \in Names, NEW scope \in Scopes,
         Allows(r, ns, scope)
  PROVE  Standing(r, ns, scope)
<1> USE DEF Scopes, Read, Write, Admin, None, Roles
<1>1. ns \in r.namespaces /\ r.scope \in Nat /\ scope \in Nat /\ scope > 0
  BY DEF Allows, Effective, IdentityOK
<1>2. CASE ns = r.user
  BY <1>1, <1>2 DEF Allows, Effective, Standing
<1>3. CASE ns # r.user
  <2>1. Min2(r.got[ns], r.scope) >= scope
    BY <1>1, <1>3 DEF Allows, Effective
  <2>2. r.got[ns] \in Nat /\ r.high[ns] \in Nat /\ r.got[ns] <= r.high[ns]
    BY DEF IdentityOK
  <2> QED BY <1>1, <2>1, <2>2 DEF Min2, Standing
<1> QED BY <1>2, <1>3

(* A guarded handler (Act), and the member writes that ask for admin. *)
LEMMA ActStep ==
  ASSUME Inv, NEW q \in Requests, Act(q)
  PROVE  Inv'
<1> DEFINE r == req[q]
           m == [r EXCEPT !.at = "acted"]
<1>1. /\ Active(q) /\ RequestOK(r, role, tokens) /\ r.job.op = "act"
      /\ UNCHANGED <<role, tokens, cookies>>
  BY DEF Inv, RequestInv, Active, Act, Asked, Ready, tables
<1>2. CASE Allows(r, r.job.ns, r.job.scope)
  <2>1. Standing(r, r.job.ns, r.job.scope)
    BY <1>1, <1>2, AllowedIsStanding DEF RequestOK, JobOK
  <2>2. /\ m.at = "acted" /\ m.job = r.job /\ m.namespaces = r.namespaces
        /\ m.scope = r.scope /\ m.user = r.user /\ m.high = r.high
    BY <1>1, Moved DEF RequestOK
  <2> HIDE DEF m
  <2>3. GrantOK(m, tokens)
    BY <1>1, <2>1, <2>2 DEF GrantOK, Standing
  <2>4. To(q, "acted")
    BY <1>2 DEF Act
  <2> QED BY <1>1, <2>3, <2>4, ToStep DEF m
<1>3. CASE ~ Allows(r, r.job.ns, r.job.scope)
  BY <1>1, <1>3, AnswerStep DEF Act
<1> QED BY <1>2, <1>3

LEMMA AskMemberStep ==
  ASSUME Inv, NEW q \in Requests, AskMember(q)
  PROVE  Inv'
<1> DEFINE r == req[q]
           m == [r EXCEPT !.at = "found"]
<1>1. /\ Active(q) /\ RequestOK(r, role, tokens) /\ r.job.op \in {"add", "remove"}
      /\ UNCHANGED <<role, tokens, cookies>>
  BY DEF Inv, RequestInv, Active, AskMember, Asked, Ready, tables
<1>2. CASE IsAdmin(r, r.job.ns) /\ r.job.user \in users
  <2>1. Standing(r, r.job.ns, Admin)
    BY <1>1, <1>2, AllowedIsStanding DEF RequestOK, JobOK, IsAdmin, Scopes
  <2>2. /\ m.at = "found" /\ m.job = r.job /\ m.namespaces = r.namespaces
        /\ m.scope = r.scope /\ m.user = r.user /\ m.high = r.high
    BY <1>1, Moved DEF RequestOK
  <2> HIDE DEF m
  <2>3. GrantOK(m, tokens)
    BY <1>1, <2>1, <2>2 DEF GrantOK, Standing
  <2>4. To(q, "found")
    BY <1>2 DEF AskMember
  <2> QED BY <1>1, <2>3, <2>4, ToStep DEF m
<1>3. CASE ~ (IsAdmin(r, r.job.ns) /\ r.job.user \in users)
  BY <1>1, <1>3, AnswerStep DEF AskMember
<1> QED BY <1>2, <1>3

(* POST /tokens asks, then looks up one role per organisation. *)
LEMMA AskTokenStep ==
  ASSUME Inv, NEW q \in Requests, AskToken(q)
  PROVE  Inv'
<1> DEFINE r == req[q]
           a == [r EXCEPT !.at = "mint"]
           m == [r EXCEPT !.at = "mint", !.left = r.job.list \ {r.user}]
           ok == r.job.scope <= r.scope /\ r.job.list # {}
<1>1. /\ Active(q) /\ RequestOK(r, role, tokens) /\ r.job.op = "issue"
      /\ req' = [req EXCEPT ![q] = IF ok THEN m ELSE Done]
      /\ UNCHANGED <<role, tokens, cookies>> /\ r.at # "done"
  BY DEF Inv, RequestInv, Active, AskToken, Asked, Ready, tables
<1>2. CASE ok
  <2>1. m = [a EXCEPT !.left = r.job.list \ {r.user}]
    OBVIOUS
  <2>2. /\ a.at = "mint" /\ a.job = r.job /\ a.token = r.token /\ a.user = r.user
        /\ a.scope = r.scope /\ a.namespaces = r.namespaces
        /\ a.got = r.got /\ a.high = r.high
        /\ IdentityOK(a, role, tokens)
    BY <1>1, Moved DEF RequestOK
  <2> HIDE DEF a, m
  <2>3. /\ m.at = "mint" /\ m.job = r.job /\ m.token = r.token /\ m.user = r.user
        /\ m.scope = r.scope /\ m.namespaces = r.namespaces /\ m.left = r.job.list \ {r.user}
        /\ m.got = r.got /\ m.high = r.high
        /\ IdentityOK(m, role, tokens)
    BY <2>1, <2>2, Narrowed
  <2>4. GrantOK(m, tokens) /\ JobOK(m.job)
    BY <1>1, <1>2, <2>3 DEF RequestOK, GrantOK
  <2>5. req' = [req EXCEPT ![q] = m]
    BY <1>1, <1>2
  <2> QED BY <1>1, <2>3, <2>4, <2>5, LocalStep DEF RequestOK
<1>3. CASE ~ ok
  BY <1>1, <1>3, AnswerStep DEF Answer
<1> QED BY <1>2, <1>3

LEMMA DelegableStep ==
  ASSUME Inv, NEW q \in Requests, NEW ns \in Names, Delegable(q, ns)
  PROVE  Inv'
<1> DEFINE r == req[q]
           m == [r EXCEPT !.left = @ \ {ns}]
<1>1. /\ Active(q) /\ RequestOK(r, role, tokens) /\ r.at = "mint"
      /\ req' = [req EXCEPT ![q] = IF Delegates(r.user, ns) THEN m ELSE Done]
      /\ UNCHANGED <<role, tokens, cookies>>
  BY DEF Inv, RequestInv, Active, Delegable, tables
<1>2. CASE Delegates(r.user, ns)
  <2>1. /\ m.at = "mint" /\ m.job = r.job /\ m.token = r.token /\ m.user = r.user
        /\ m.scope = r.scope /\ m.namespaces = r.namespaces /\ m.left = r.left \ {ns}
        /\ m.got = r.got /\ m.high = r.high
        /\ IdentityOK(m, role, tokens)
    <3>1. IdentityOK(r, role, tokens)
      BY <1>1 DEF RequestOK
    <3> QED BY <1>1, <3>1, Narrowed
  <2> HIDE DEF m
  <2>2. r.high[ns] = Admin
    <3>1. r.high[ns] \in Roles /\ role[ns][r.user] <= r.high[ns] /\ role[ns][r.user] = Admin
      BY <1>1, <1>2 DEF RequestOK, IdentityOK, Delegates
    <3> QED BY <3>1 DEF Roles, Admin, None
  <2>3. r.job.op = "issue" => \A n \in r.job.list \ m.left : n = r.user \/ r.high[n] = Admin
    BY <1>1, <2>1, <2>2 DEF RequestOK, GrantOK
  <2>4. GrantOK(m, tokens) /\ JobOK(m.job)
    BY <1>1, <2>1, <2>3 DEF RequestOK, GrantOK
  <2>5. req' = [req EXCEPT ![q] = m] /\ r.at # "done"
    BY <1>1, <1>2
  <2> QED BY <1>1, <2>1, <2>4, <2>5, LocalStep DEF RequestOK
<1>3. CASE ~ Delegates(r.user, ns)
  BY <1>1, <1>3, AnswerStep DEF Answer
<1> QED BY <1>2, <1>3

(* POST and DELETE /session. *)
LEMMA SessionStep ==
  ASSUME Inv, NEW q \in Requests, NEW t \in Tokens, OpenSession(q, t) \/ CloseSession(q, t)
  PROVE  Inv'
<1>1. CASE OpenSession(q, t)
  <2> DEFINE job == [op |-> "open", token |-> t]
             r == Identity(t, job, "mint", {})
  <2>1. JobOK(job) /\ job.op = "open"
    BY DEF JobOK
  <2>2. r.at = "mint" /\ r.job = job
    BY DEF Identity
  <2>3. /\ req[q].at # "done" /\ req' = [req EXCEPT ![q] = r]
        /\ UNCHANGED <<role, tokens, cookies>> /\ tokens[t].user # NoOne
    BY <1>1 DEF OpenSession, Idle, tables
  <2> HIDE DEF job
  <2>4. IdentityOK(r, role, tokens)
    BY <2>1, <2>3, FreshIdentity
  <2> HIDE DEF r
  <2>5. GrantOK(r, tokens)
    BY <2>1, <2>2 DEF GrantOK
  <2> QED BY <2>1, <2>2, <2>3, <2>4, <2>5, LocalStep DEF RequestOK
<1>2. CASE CloseSession(q, t)
  <2> DEFINE job == [op |-> "close", token |-> t]
             r == Identity(t, job, "revoke", {})
  <2>1. JobOK(job) /\ job.op = "close" /\ job.token = t
    BY DEF JobOK
  <2>2. r.at = "revoke" /\ r.job = job
    BY DEF Identity
  <2>3. /\ req[q].at # "done" /\ req' = [req EXCEPT ![q] = r]
        /\ UNCHANGED <<role, tokens, cookies>>
    BY <1>2 DEF CloseSession, Idle, tables
  <2>4. tokens[t].session
    BY <1>2 DEF CloseSession, Inv, SessionInv
  <2>5. tokens[t].user # NoOne
    BY <2>4 DEF Inv, TokenInv, TokenOK, NoToken
  <2> HIDE DEF job
  <2>6. IdentityOK(r, role, tokens)
    BY <2>1, <2>5, FreshIdentity
  <2> HIDE DEF r
  <2>7. GrantOK(r, tokens)
    BY <2>1, <2>2, <2>4 DEF GrantOK
  <2> QED BY <2>1, <2>2, <2>3, <2>6, <2>7, LocalStep DEF RequestOK
<1> QED BY <1>1, <1>2

(* A request moved on to `at' keeps its identity: what is left to show is that
   it may be there. *)
LEMMA GoStep ==
  ASSUME Inv, NEW q \in Requests, Active(q), NEW at, To(q, at),
         UNCHANGED <<role, tokens, cookies>>,
         at \in {"revoke", "found", "commit"},
         at = "revoke" => req[q].job.op \in {"revoke", "close"},
         at = "found" => req[q].job.op = "org",
         at = "commit" =>
           \/ req[q].at = "found"
           \/ req[q].at = "revoke" /\ req[q].user = tokens[req[q].job.token].user
  PROVE  Inv'
<1> DEFINE r == req[q]
           m == [r EXCEPT !.at = at]
<1>1. RequestOK(r, role, tokens)
  BY DEF Inv, RequestInv
<1>2. /\ m.at = at /\ m.job = r.job /\ m.namespaces = r.namespaces
      /\ m.scope = r.scope /\ m.user = r.user /\ m.high = r.high
  BY <1>1, Moved DEF RequestOK
<1> HIDE DEF m
<1>3. GrantOK(m, tokens)
  BY <1>1, <1>2 DEF RequestOK, GrantOK, Standing
<1> QED BY <1>3, ToStep DEF m

LEMMA RevokeSteps ==
  ASSUME Inv, NEW q \in Requests, AskRevoke(q) \/ Revoke(q)
  PROVE  Inv'
<1>1. CASE AskRevoke(q)
  BY <1>1, GoStep DEF AskRevoke, Asked, Ready, Active, tables
<1>2. CASE Revoke(q)
  <2>1. Active(q) /\ UNCHANGED <<role, tokens, cookies>> /\ req[q].at = "revoke"
    BY <1>2 DEF Revoke, Active
  <2>2. CASE Revocable(req[q])
    BY <1>2, <2>1, <2>2, GoStep DEF Revoke, Revocable
  <2>3. CASE ~ Revocable(req[q])
    BY <1>2, <2>1, <2>3, AnswerStep DEF Revoke
  <2> QED BY <2>2, <2>3
<1> QED BY <1>1, <1>2

(* POST /orgs founds; the member writes take their row and the audit id. *)
LEMMA MemberSteps ==
  ASSUME Inv, NEW q \in Requests, CreateOrg(q) \/ StoreMember(q) \/ DropMember(q)
  PROVE  Inv'
<1>1. CASE CreateOrg(q)
  <2>1. Active(q) /\ UNCHANGED <<role, tokens, cookies>> /\ req[q].job.op = "org"
    BY <1>1 DEF CreateOrg, Asked, Ready, Active
  <2>2. To(q, "found") \/ Answer(q)
    BY <1>1 DEF CreateOrg
  <2> QED BY <2>1, <2>2, GoStep, AnswerStep
<1>2. CASE StoreMember(q)
  <2>1. Active(q) /\ UNCHANGED <<role, tokens, cookies>> /\ req[q].at = "found"
    BY <1>2 DEF StoreMember, Active
  <2>2. To(q, "commit") \/ Answer(q)
    BY <1>2 DEF StoreMember
  <2> QED BY <2>1, <2>2, GoStep, AnswerStep
<1>3. CASE DropMember(q)
  <2>1. Active(q) /\ UNCHANGED <<role, tokens, cookies>> /\ req[q].at = "found"
    BY <1>3 DEF DropMember, Active
  <2>2. To(q, "commit") \/ Answer(q)
    BY <1>3 DEF DropMember
  <2> QED BY <2>1, <2>2, GoStep, AnswerStep
<1> QED BY <1>1, <1>2, <1>3

LEMMA CutStep ==
  ASSUME Inv, NEW q \in Requests, Cut(q)
  PROVE  Inv'
  BY AnswerStep DEF Cut

(* `evalhub user create' starts minting the new user's first token. *)
LEMMA CreateUserStep ==
  ASSUME Inv, NEW q \in Requests, NEW job \in CliOffers, CreateUser(q, job)
  PROVE  Inv'
<1> DEFINE r == [at |-> "mint", job |-> job, token |-> NoOne, user |-> job.login,
                 scope |-> job.scope, namespaces |-> {job.login}, left |-> {},
                 got |-> [n \in Names |-> None], high |-> [n \in Names |-> role[n][job.login]]]
<1>1. JobOK(job) /\ job.op = "cli"
  BY OffersOK, OffersAssumption DEF CliJobs
<1>2. job.login \in Names /\ job.scope \in Scopes
  BY <1>1 DEF JobOK
<1>3. \A n \in Names : role[n][job.login] \in Roles
  BY <1>2 DEF Inv, RoleInv
<1>4. r.got \in [Names -> Roles] /\ r.high \in [Names -> Roles]
  BY <1>3 DEF Roles, None, Admin
<1>5. \A n \in Names : role[n][r.user] <= r.high[n] /\ r.got[n] <= r.high[n]
  BY <1>3 DEF Roles, None, Admin
<1>6. IdentityOK(r, role, tokens)
  BY <1>1, <1>2, <1>4, <1>5 DEF IdentityOK
<1>7. GrantOK(r, tokens)
  BY <1>1 DEF GrantOK
<1>8. /\ req[q].at # "done" /\ req' = [req EXCEPT ![q] = r]
      /\ UNCHANGED <<role, tokens, cookies>> /\ r.job = job
  BY DEF CreateUser, Idle
<1> HIDE DEF r
<1> QED BY <1>1, <1>6, <1>7, <1>8, LocalStep DEF RequestOK

-----------------------------------------------------------------------------
(* Rows of the tokens table are only added and revoked. *)
Stays(tk) ==
  \A t \in Tokens : tokens[t].user # NoOne =>
    /\ tk[t].user = tokens[t].user /\ tk[t].scope = tokens[t].scope
    /\ tk[t].namespaces = tokens[t].namespaces /\ tk[t].session = tokens[t].session

LEMMA StaysKeeps ==
  ASSUME Inv, NEW tk, Stays(tk)
  PROVE  /\ \A r : RequestOK(r, role, tokens) => RequestOK(r, role, tk)
         /\ \A t \in Tokens : TokenOK(tokens[t], tokens) => TokenOK(tokens[t], tk)
         /\ \A t \in cookies : tk[t].session
<1>1. \A t \in Tokens : tokens[t].session => tokens[t].user # NoOne
  BY DEF Inv, TokenInv, TokenOK, NoToken
<1>2. ASSUME NEW r, RequestOK(r, role, tokens) PROVE RequestOK(r, role, tk)
  <2>1. r.user # NoOne
    BY <1>2, AccessAssumption DEF RequestOK, IdentityOK
  <2>2. IdentityOK(r, role, tk)
    BY <1>2, <2>1 DEF RequestOK, IdentityOK, Stays
  <2>3. r.job.op \in {"revoke", "close"} => r.job.token \in Tokens
    BY <1>2 DEF RequestOK, JobOK
  <2>4. r.job.op = "close" => tk[r.job.token].session
    BY <1>1, <1>2, <2>3 DEF RequestOK, GrantOK, Stays
  <2>5. r.at = "commit" /\ r.job.op \in {"revoke", "close"} => r.user = tk[r.job.token].user
    BY <1>2, <2>1, <2>3 DEF RequestOK, GrantOK, Stays
  <2>6. GrantOK(r, tk)
    BY <1>2, <2>4, <2>5 DEF RequestOK, GrantOK
  <2> QED BY <1>2, <2>2, <2>6 DEF RequestOK
<1>3. ASSUME NEW t \in Tokens, TokenOK(tokens[t], tokens) PROVE TokenOK(tokens[t], tk)
  BY <1>3 DEF TokenOK, Stays
<1>4. \A t \in cookies : tk[t].session
  BY <1>1 DEF Inv, SessionInv, Stays
<1> QED BY <1>2, <1>3, <1>4

(* create_token, create_session and user_create insert the row (store auth.rs). *)
LEMMA MintStep ==
  ASSUME Inv, NEW q \in Requests, Mint(q)
  PROVE  Inv'
<1> DEFINE r == req[q]
           m == Minted(r)
           k == [user |-> r.user, scope |-> m.scope, namespaces |-> m.list,
                 revoked |-> FALSE, parent |-> r.token,
                 backed |-> { n \in Names : r.high[n] = Admin }, session |-> r.job.op = "open"]
<1>1. /\ RequestOK(r, role, tokens) /\ r.at = "mint" /\ r.left = {} /\ tokens[q].user = NoOne
      /\ tokens' = [tokens EXCEPT ![q] = k] /\ role' = role
      /\ req' = [req EXCEPT ![q] = Done]
      /\ cookies' = cookies \cup (IF r.job.op = "open" THEN {q} ELSE {})
  BY DEF Inv, RequestInv, Active, Mint, Answer, CookieToken
<1>2. r.user \in Names /\ r.user # NoOne /\ r.scope \in Scopes /\ q \in Tokens
  BY <1>1, AccessAssumption DEF RequestOK, IdentityOK, Tokens
<1>3. /\ DOMAIN tokens' = Tokens /\ tokens'[q] = k
      /\ \A t \in Tokens : t # q => tokens'[t] = tokens[t]
  BY <1>1, <1>2 DEF Inv, TokenInv
<1>4. Stays(tokens')
  BY <1>1, <1>3 DEF Stays
<1>5. r.job.op \in {"issue", "open", "cli"}
  BY <1>1 DEF RequestOK, GrantOK
<1>6. TokenOK(k, tokens')
  <2>1. CASE r.job.op = "cli"
    <3>1. m.scope \in Scopes /\ r.token = NoOne
      BY <1>1, <2>1 DEF Minted, RequestOK, JobOK, IdentityOK
    <3> HIDE DEF m
    <3> QED BY <1>2, <3>1 DEF TokenOK
  <2>2. CASE r.job.op # "cli"
    <3>1. /\ r.token \in Tokens /\ r.user = tokens[r.token].user
          /\ r.scope = tokens[r.token].scope /\ r.namespaces = tokens[r.token].namespaces
      BY <1>1, <2>2 DEF RequestOK, IdentityOK
    <3>2. tokens'[r.token] = tokens[r.token]
      BY <1>1, <1>2, <1>3, <3>1
    <3>3. m.scope \in Scopes /\ m.scope <= r.scope
      BY <1>1, <1>2, <1>5, <2>2 DEF Minted, RequestOK, JobOK, GrantOK, Scopes, Read, Write, Admin
    <3>4. m.list \subseteq {r.user} \cup { n \in Names : r.high[n] = Admin }
                         \cup (IF r.job.op = "open" THEN r.namespaces ELSE {})
      <4>1. CASE r.job.op = "open"
        BY <4>1 DEF Minted
      <4>2. CASE r.job.op = "issue"
        BY <1>1, <4>2 DEF Minted, RequestOK, JobOK, GrantOK
      <4> QED BY <1>5, <2>2, <4>1, <4>2
    <3> HIDE DEF m
    <3> QED BY <1>2, <3>1, <3>2, <3>3, <3>4 DEF TokenOK
  <2> QED BY <2>1, <2>2
<1>7. TokenInv'
  BY <1>3, <1>4, <1>6, StaysKeeps DEF Inv, TokenInv
<1>8. SessionInv'
  <2>1. \A t \in cookies : t \in Tokens /\ tokens'[t].session
    BY <1>4, StaysKeeps DEF Inv, SessionInv
  <2>2. k.session = (r.job.op = "open")
    OBVIOUS
  <2> HIDE DEF k
  <2>3. r.job.op = "open" => tokens'[q].session
    BY <1>3, <2>2
  <2> QED BY <1>1, <1>2, <2>1, <2>3 DEF SessionInv
<1>9. RequestInv'
  <2>1. DOMAIN req' = Requests /\ req'[q] = Done /\ \A p \in Requests : p # q => req'[p] = req[p]
    BY <1>1 DEF Inv, RequestInv
  <2>2. \A p \in Requests : p # q => tokens'[p] = tokens[p]
    BY <1>3 DEF Tokens
  <2> QED BY <1>1, <1>4, <2>1, <2>2, StaysKeeps DEF Inv, RequestInv, Active, Done
<1>10. RoleInv'
  BY <1>1 DEF Inv, RoleInv
<1> QED BY <1>7, <1>8, <1>9, <1>10 DEF Inv

(* COMMIT of a revocation. *)
LEMMA RevokedRow ==
  ASSUME NEW k, TokenOK(k, tokens), NEW x
  PROVE  LET m == [k EXCEPT !.revoked = x] IN
         /\ m.user = k.user /\ m.scope = k.scope /\ m.namespaces = k.namespaces
         /\ m.parent = k.parent /\ m.backed = k.backed /\ m.session = k.session
         /\ m = [user |-> m.user, scope |-> m.scope, namespaces |-> m.namespaces,
                 revoked |-> m.revoked, parent |-> m.parent, backed |-> m.backed,
                 session |-> m.session]
  BY DEF TokenOK

LEMMA CommitRevokeStep ==
  ASSUME Inv, NEW q \in Requests, CommitRevoke(q)
  PROVE  Inv'
<1> DEFINE r == req[q]
           t == r.job.token
           k == [tokens[t] EXCEPT !.revoked = TRUE]
<1>1. /\ RequestOK(r, role, tokens) /\ t \in Tokens /\ r.user = tokens[t].user
      /\ tokens' = [tokens EXCEPT ![t] = k] /\ UNCHANGED <<role, cookies>>
      /\ req' = [req EXCEPT ![q] = Done]
  <2>1. RequestOK(r, role, tokens) /\ r.at = "commit" /\ r.job.op \in {"revoke", "close"}
    BY DEF Inv, RequestInv, Active, CommitRevoke
  <2>2. t \in Tokens /\ r.user = tokens[t].user
    BY <2>1 DEF RequestOK, JobOK, GrantOK
  <2>3. tokens' = [tokens EXCEPT ![t] = k] /\ UNCHANGED <<role, cookies>>
        /\ req' = [req EXCEPT ![q] = Done]
    BY DEF CommitRevoke, Answer
  <2> QED BY <2>1, <2>2, <2>3
<1>2. tokens[t].user # NoOne /\ TokenOK(tokens[t], tokens)
  BY <1>1, AccessAssumption DEF RequestOK, IdentityOK, Inv, TokenInv
<1>3. /\ k.user = tokens[t].user /\ k.scope = tokens[t].scope
      /\ k.namespaces = tokens[t].namespaces /\ k.parent = tokens[t].parent
      /\ k.backed = tokens[t].backed /\ k.session = tokens[t].session
      /\ k = [user |-> k.user, scope |-> k.scope, namespaces |-> k.namespaces,
              revoked |-> k.revoked, parent |-> k.parent, backed |-> k.backed,
              session |-> k.session]
  BY <1>2, RevokedRow
<1> HIDE DEF k
<1>4. /\ DOMAIN tokens' = Tokens /\ tokens'[t] = k
      /\ \A s \in Tokens : s # t => tokens'[s] = tokens[s]
  BY <1>1 DEF Inv, TokenInv
<1>5. Stays(tokens')
  BY <1>3, <1>4 DEF Stays
<1>6. TokenOK(tokens[t], tokens')
  BY <1>1, <1>2, <1>5, StaysKeeps
<1>7. TokenOK(k, tokens')
  BY <1>2, <1>3, <1>6 DEF TokenOK
<1>8. TokenInv' /\ SessionInv' /\ RoleInv'
  <2>1. TokenInv'
    BY <1>4, <1>5, <1>7, StaysKeeps DEF Inv, TokenInv
  <2>2. SessionInv' /\ RoleInv'
    BY <1>1, <1>5, StaysKeeps DEF Inv, SessionInv, RoleInv
  <2> QED BY <2>1, <2>2
<1>9. RequestInv'
  <2>1. DOMAIN req' = Requests /\ req'[q] = Done /\ \A p \in Requests : p # q => req'[p] = req[p]
    BY <1>1 DEF Inv, RequestInv
  <2>2. \A p \in Requests : tokens'[p].user = tokens[p].user
    BY <1>3, <1>4 DEF Tokens
  <2> QED BY <1>1, <1>5, <2>1, <2>2, StaysKeeps DEF Inv, RequestInv, Active, Done
<1> QED BY <1>8, <1>9 DEF Inv

-----------------------------------------------------------------------------
(* COMMIT of a member write, for the requests that are going on. *)
LEMMA HighKeeps ==
  ASSUME Inv, NEW ns \in Names, NEW u \in Names, NEW x \in Roles,
         role' = [role EXCEPT ![ns][u] = x],
         NEW r, RequestOK(r, role, tokens), r.user = u, r.high[ns] < x
  PROVE  RequestOK([r EXCEPT !.high[ns] = x], role', tokens)
<1> DEFINE m == [r EXCEPT !.high[ns] = x]
<1> USE DEF Roles, None, Admin
<1>1. /\ m.at = r.at /\ m.job = r.job /\ m.token = r.token /\ m.user = r.user
      /\ m.scope = r.scope /\ m.namespaces = r.namespaces /\ m.left = r.left
      /\ m.got = r.got /\ m.high = [r.high EXCEPT ![ns] = x]
      /\ m = [at |-> m.at, job |-> m.job, token |-> m.token, user |-> m.user,
              scope |-> m.scope, namespaces |-> m.namespaces, left |-> m.left,
              got |-> m.got, high |-> m.high]
  BY DEF RequestOK, IdentityOK
<1> HIDE DEF m
<1>2. r.high \in [Names -> Roles] /\ r.got \in [Names -> Roles] /\ u \in Names
  BY DEF RequestOK, IdentityOK
<1>3. m.high \in [Names -> Roles] /\ \A n \in Names : r.high[n] <= m.high[n]
  BY <1>1, <1>2
<1>4. \A n \in Names : role'[n][u] = IF n = ns THEN x ELSE role[n][u]
  BY DEF Inv, RoleInv
<1>5. \A n \in Names : role'[n][m.user] <= m.high[n] /\ m.got[n] <= m.high[n]
  <2> SUFFICES ASSUME NEW n \in Names
               PROVE  role'[n][m.user] <= m.high[n] /\ m.got[n] <= m.high[n]
    OBVIOUS
  <2>1. role[n][r.user] <= r.high[n] /\ r.got[n] <= r.high[n]
    BY DEF RequestOK, IdentityOK
  <2>2. m.high[n] = IF n = ns THEN x ELSE r.high[n]
    BY <1>1, <1>2
  <2> QED BY <1>1, <1>2, <1>3, <1>4, <2>1, <2>2
<1>6. IdentityOK(m, role', tokens)
  BY <1>1, <1>2, <1>3, <1>5 DEF RequestOK, IdentityOK
<1>7. ASSUME NEW n \in Names, NEW scope \in Scopes, Standing(r, n, scope)
      PROVE  Standing(m, n, scope)
  BY <1>1, <1>2, <1>3, <1>7 DEF Standing, Scopes, Read, Write
<1>8. \A n \in Names : r.high[n] = Admin => m.high[n] = Admin
  BY <1>2, <1>3
<1>9. GrantOK(m, tokens)
  BY <1>1, <1>7, <1>8 DEF RequestOK, GrantOK, JobOK, Scopes
<1> QED BY <1>1, <1>6, <1>9 DEF RequestOK, m

LEMMA CommitMemberStep ==
  ASSUME Inv, NEW q \in Requests, CommitMember(q)
  PROVE  Inv'
<1> DEFINE w == MemberWrite(req[q])
<1>1. w.ns \in Names /\ w.user \in Names /\ w.role \in Roles
  <2>1. RequestOK(req[q], role, tokens) /\ req[q].job.op \in {"org", "add", "remove"}
    BY DEF Inv, RequestInv, Active, CommitMember
  <2> QED BY <2>1 DEF RequestOK, JobOK, IdentityOK, MemberWrite, Roles, Scopes,
                      None, Read, Write, Admin
<1>2. /\ role' = [role EXCEPT ![w.ns][w.user] = w.role] /\ UNCHANGED <<tokens, cookies>>
      /\ req' = [p \in Requests |->
           IF p = q THEN Done
           ELSE IF Active(p) /\ req[p].user = w.user /\ req[p].high[w.ns] < w.role
             THEN [req[p] EXCEPT !.high[w.ns] = w.role] ELSE req[p]]
  BY DEF CommitMember
<1> HIDE DEF w
<1>3. RoleInv'
  BY <1>1, <1>2 DEF Inv, RoleInv
<1>4. TokenInv' /\ SessionInv'
  BY <1>2 DEF Inv, TokenInv, SessionInv
<1>5. ASSUME NEW p \in Requests
      PROVE  /\ req'[p].at # "done" => tokens'[p].user = NoOne
             /\ Active(p)' => RequestOK(req'[p], role', tokens')
  <2>1. CASE p = q
    BY <1>2, <2>1 DEF Done, Active
  <2>2. CASE p # q /\ Active(p) /\ req[p].user = w.user /\ req[p].high[w.ns] < w.role
    <3>1. RequestOK(req[p], role, tokens) /\ tokens[p].user = NoOne
      BY <2>2 DEF Inv, RequestInv, Active
    <3>2. req'[p] = [req[p] EXCEPT !.high[w.ns] = w.role]
      BY <1>2, <2>2
    <3>3. RequestOK([req[p] EXCEPT !.high[w.ns] = w.role], role', tokens)
      BY <1>1, <1>2, <2>2, <3>1, HighKeeps
    <3> QED BY <1>2, <3>1, <3>2, <3>3
  <2>3. CASE p # q /\ ~ (Active(p) /\ req[p].user = w.user /\ req[p].high[w.ns] < w.role)
    <3>1. req'[p] = req[p]
      BY <1>2, <2>3
    <3>2. ASSUME Active(p) PROVE RequestOK(req[p], role', tokens)
      <4>1. RequestOK(req[p], role, tokens)
        BY <3>2 DEF Inv, RequestInv
      <4>2. \A n \in Names : role'[n][req[p].user] <= req[p].high[n]
        <5> SUFFICES ASSUME NEW n \in Names PROVE role'[n][req[p].user] <= req[p].high[n]
          OBVIOUS
        <5>1. /\ req[p].user \in Names /\ req[p].high[n] \in Roles
              /\ role[n][req[p].user] <= req[p].high[n]
          BY <4>1 DEF RequestOK, IdentityOK
        <5>2. role'[n][req[p].user] = IF n = w.ns /\ req[p].user = w.user THEN w.role
                                      ELSE role[n][req[p].user]
          BY <1>1, <1>2, <5>1 DEF Inv, RoleInv
        <5> QED BY <1>1, <2>3, <3>2, <5>1, <5>2 DEF Roles, None, Admin
      <4> QED BY <4>1, <4>2 DEF RequestOK, IdentityOK
    <3> QED BY <1>2, <3>1, <3>2 DEF Active, Inv, RequestInv
  <2> QED BY <2>1, <2>2, <2>3
<1>6. RequestInv'
  BY <1>2, <1>5 DEF RequestInv
<1> QED BY <1>3, <1>4, <1>6 DEF Inv

-----------------------------------------------------------------------------
LEMMA StepInv == ASSUME Inv, [Next]_vars PROVE Inv'
<1>1. CASE UNCHANGED vars
  BY <1>1 DEF Inv, RoleInv, TokenInv, SessionInv, RequestInv, Active, vars, tables
<1>2. ASSUME NEW q \in Requests,
             \/ \E t \in Tokens, j \in Offers : Present(q, t, j)
             \/ \E ns \in Names : ReadRole(q, ns) \/ Delegable(q, ns)
             \/ Act(q) \/ AskToken(q) \/ Mint(q)
             \/ \E t \in Tokens : OpenSession(q, t) \/ CloseSession(q, t)
             \/ AskRevoke(q) \/ Revoke(q) \/ CommitRevoke(q)
             \/ CreateOrg(q) \/ AskMember(q)
             \/ StoreMember(q) \/ DropMember(q) \/ CommitMember(q)
             \/ \E j \in CliOffers : CreateUser(q, j)
             \/ Cut(q)
      PROVE  Inv'
  BY <1>2, PresentStep, ReadRoleStep, DelegableStep, ActStep, AskTokenStep, MintStep,
     SessionStep, RevokeSteps, CommitRevokeStep, AskMemberStep, MemberSteps,
     CommitMemberStep, CreateUserStep, CutStep
<1> QED BY <1>1, <1>2 DEF Next, Rest

(* What a request knows and was granted stays within what its user had. *)
THEOREM Inductive == Spec => []Inv
<1>1. Init => Inv
  BY InitInv
<1>2. Inv /\ [Next]_vars => Inv'
  BY StepInv
<1> QED BY <1>1, <1>2, PTL DEF Spec

(* Nobody acts on, or writes the members of, an organisation beyond the scope
   of the token and a role the user held during the request, for any number of
   concurrent requests, members and organisations (auth.rs resolve). *)
THEOREM StandingHolds == Spec => []ActedInStanding
<1>1. Inv => ActedInStanding
  BY DEF Inv, RequestInv, Active, RequestOK, GrantOK, ActedInStanding
<1> QED BY <1>1, Inductive, PTL

(* No token minted over HTTP does more than its parent, or names a namespace
   its user was not an admin of while it was minted (api/auth.rs). *)
THEOREM NoLadder == Spec => []TokensBacked
<1>1. Inv => TokensBacked
  BY DEF Inv, TokenInv, TokenOK, TokensBacked, Tokens
<1> QED BY <1>1, Inductive, PTL

(* Only its owner's revoke, or for a session's token its closing, revokes a
   token (api/auth.rs delete_session). *)
THEOREM SessionsStayApart == Spec => SessionsApart
<1> DEFINE Apart ==
      \A t \in Tokens : ~ tokens[t].revoked /\ tokens'[t].revoked =>
        \E q \in Requests :
          /\ req[q].at = "commit"
          /\ req[q].job.op = "revoke" \/ (req[q].job.op = "close" /\ tokens[t].session)
          /\ req[q].job.token = t /\ req[q].user = tokens[t].user
<1>1. Inv /\ [Next]_vars => [Apart]_vars
  <2> SUFFICES ASSUME Inv, Next PROVE Apart OBVIOUS
  <2> SUFFICES ASSUME NEW t \in Tokens, ~ tokens[t].revoked, tokens'[t].revoked
               PROVE  \E q \in Requests :
                        /\ req[q].at = "commit"
                        /\ req[q].job.op = "revoke" \/ (req[q].job.op = "close" /\ tokens[t].session)
                        /\ req[q].job.token = t /\ req[q].user = tokens[t].user
    OBVIOUS
  <2>1. DOMAIN tokens = Tokens
    BY DEF Inv, TokenInv
  <2>2. tokens' # tokens
    OBVIOUS
  <2>3. \A q \in Requests : ~ Mint(q)
    <3> SUFFICES ASSUME NEW q \in Requests, Mint(q) PROVE FALSE OBVIOUS
    <3> DEFINE r == req[q]
               k == [user |-> r.user, scope |-> Minted(r).scope, namespaces |-> Minted(r).list,
                     revoked |-> FALSE, parent |-> r.token,
                     backed |-> { n \in Names : r.high[n] = Admin },
                     session |-> r.job.op = "open"]
    <3>1. tokens' = [tokens EXCEPT ![q] = k] /\ k.revoked = FALSE
      BY DEF Mint
    <3> HIDE DEF k
    <3> QED BY <2>1, <3>1
  <2>4. ASSUME NEW q \in Requests, ~ CommitRevoke(q),
               \/ \E u \in Tokens, job \in Offers : Present(q, u, job)
               \/ \E ns \in Names : ReadRole(q, ns) \/ Delegable(q, ns)
               \/ Act(q) \/ AskToken(q)
               \/ \E u \in Tokens : OpenSession(q, u) \/ CloseSession(q, u)
               \/ AskRevoke(q)
        PROVE  tokens' = tokens
    BY <2>4 DEF tables, Present, ReadRole, Delegable, Act, AskToken, OpenSession,
       CloseSession, AskRevoke
  <2>5. ASSUME NEW q \in Requests,
               \/ Revoke(q) \/ CreateOrg(q) \/ AskMember(q)
               \/ StoreMember(q) \/ DropMember(q) \/ CommitMember(q)
               \/ \E job \in CliOffers : CreateUser(q, job)
               \/ Cut(q)
        PROVE  tokens' = tokens
    BY <2>5 DEF tables, Revoke, CreateOrg, AskMember, StoreMember, DropMember,
       CommitMember, CreateUser, Cut
  <2>6. PICK q \in Requests : CommitRevoke(q)
    BY <2>2, <2>3, <2>4, <2>5 DEF Next, Rest, vars, tables
  <2>7. /\ req[q].at = "commit" /\ req[q].job.op \in {"revoke", "close"}
        /\ RequestOK(req[q], role, tokens)
        /\ tokens' = [tokens EXCEPT ![req[q].job.token].revoked = TRUE]
    BY <2>6 DEF CommitRevoke, Inv, RequestInv, Active
  <2>8. req[q].job.token = t
    BY <2>1, <2>7
  <2> QED BY <2>7, <2>8 DEF RequestOK, GrantOK
<1> QED BY <1>1, Inductive, PTL DEF Spec, SessionsApart
-----------------------------------------------------------------------------
(* The audit log.  A request between its statement and its commit holds the
   lock of the row it writes and has open rows that describe the write; a
   member write's row comes after every settled row of the same membership,
   which is why ids taken before the commit still order the commits. *)

AuditRows ==
  [q : Requests, action : {"token.create", "token.revoke", "org.create", "org.member"},
   ns : Names, subject : Tokens, value : Roles, state : {"open", "done", "gone"}]

(* What a request between its statement and its commit writes: one membership
   or the revocation of one token; the row it locks, and its rows of the log. *)
OfMember(r) == r.job.op \in {"org", "add", "remove"}
Locked(r) == IF OfMember(r) THEN MemberRow(MemberWrite(r).ns, MemberWrite(r).user)
             ELSE r.job.token
Describes(a, r, tk) ==
  IF OfMember(r)
    THEN LET w == MemberWrite(r) IN
         a.action = "org.member" /\ a.ns = w.ns /\ a.subject = w.user /\ a.value = w.role
    ELSE /\ a.action = "token.revoke" /\ a.subject = r.job.token
         /\ a.ns \in tk[r.job.token].namespaces
OpenOf(q) == { i \in DOMAIN audit : audit[i].q = q /\ audit[i].state = "open" }

(* Open rows describe a write about to commit, one for each namespace. *)
OpenInv ==
  /\ audit \in Seq(AuditRows)
  /\ \A q \in Requests : \A i \in OpenOf(q) :
       /\ req[q].at = "commit" /\ Describes(audit[i], req[q], tokens)
       /\ \A j \in OpenOf(q) : audit[i].ns = audit[j].ns => i = j
(* Such a request holds the row, and the log has all the rows of its write. *)
Holds(q, r) ==
  /\ Locked(r) \in DOMAIN lock /\ lock[Locked(r)] = q
  /\ OfMember(r) => LET w == MemberWrite(r) IN
       \E i \in OpenOf(q) : \A j \in Settled("org.member", w.ns, w.user) : j < i
  /\ ~ OfMember(r) => LET t == r.job.token IN
       /\ ~ tokens[t].revoked
       /\ \A ns \in tokens[t].namespaces : \E i \in OpenOf(q) : audit[i].ns = ns
HoldInv == \A q \in Requests : req[q].at = "commit" => Holds(q, req[q])
(* The last settled row of a membership is the membership; a token's settled
   rows are one for each namespace, or none. *)
MemberInv ==
  \A ns, u \in Names : LET rows == Settled("org.member", ns, u) IN
    \/ rows = {} /\ role[ns][u] = FirstRole[ns][u]
    \/ \E i \in rows : role[ns][u] = audit[i].value /\ \A j \in rows : j <= i
RevokeInv ==
  \A t \in Tokens, ns \in Names : LET rows == Settled("token.revoke", ns, t) IN
    IF tokens[t].revoked /\ ns \in tokens[t].namespaces
      THEN \E i \in rows : rows = {i} ELSE rows = {}

(* A token names namespaces. *)
ListInv == \A t \in Tokens : tokens[t].namespaces \subseteq Names

AuditInv == ListInv /\ OpenInv /\ HoldInv /\ MemberInv /\ RevokeInv

-----------------------------------------------------------------------------
(* One row per namespace, in some order, after the rows that were there. *)
LEMMA AppendedRows ==
  ASSUME NEW log \in Seq(AuditRows), NEW rows \in SUBSET AuditRows, IsFiniteSet(rows),
         NEW new \in Appended(log, rows)
  PROVE  /\ new \in Seq(AuditRows) /\ DOMAIN log \subseteq DOMAIN new
         /\ \A i \in DOMAIN log : new[i] = log[i]
         /\ \A i \in DOMAIN new \ DOMAIN log : new[i] \in rows
         /\ \A a \in rows : \E i \in DOMAIN new \ DOMAIN log : new[i] = a
         /\ \A i, j \in DOMAIN new \ DOMAIN log : new[i] = new[j] => i = j
<1> DEFINE n == Cardinality(rows)
<1>1. PICK s \in [1..n -> rows] : (\A i, j \in DOMAIN s : i # j => s[i] # s[j]) /\ new = log \o s
  BY DEF Appended
<1>2. n \in Nat
  BY FS_CardinalityType
<1> HIDE DEF n
<1>3. s \in Seq(AuditRows) /\ Len(s) = n
  BY <1>1, <1>2
<1>4. \A a \in rows : \E i \in 1..n : s[i] = a
  <2>1. s \in Injection(1..n, rows)
    BY <1>1 DEF Injection, IsInjective
  <2>2. Cardinality(1..n) = Cardinality(rows)
    BY <1>2, FS_Interval DEF n
  <2>3. s \in Surjection(1..n, rows)
    BY <2>1, <2>2, FS_Injection
  <2> QED BY <2>3 DEF Surjection
<1>5. /\ new \in Seq(AuditRows) /\ Len(new) = Len(log) + n
      /\ \A i \in 1..Len(log) : new[i] = log[i]
      /\ \A i \in 1..n : new[Len(log) + i] = s[i]
  <2>1. Len(log) \in Nat /\ new = log \o s
    BY <1>1
  <2>2. new \in Seq(AuditRows) /\ Len(new) = Len(log) + n
    BY <1>3, <2>1, ConcatProperties
  <2>3. \A i \in 1..Len(log) : (log \o s)[i] = log[i]
    BY <1>2, <1>3, <2>1
  <2>4. \A i \in 1..n : (log \o s)[Len(log) + i] = s[i]
    BY <1>2, <1>3, <2>1
  <2> QED BY <2>1, <2>2, <2>3, <2>4
<1>6. /\ DOMAIN log = 1..Len(log) /\ Len(log) \in Nat /\ DOMAIN new = 1..(Len(log) + n)
  BY <1>5
<1>7. \A i : i \in DOMAIN new \ DOMAIN log <=> i \in Int /\ i - Len(log) \in 1..n
  BY <1>2, <1>6
<1>8. \A i \in DOMAIN new \ DOMAIN log : new[i] = s[i - Len(log)]
  BY <1>2, <1>5, <1>6, <1>7
<1>9. \A a \in rows : \E i \in DOMAIN new \ DOMAIN log : new[i] = a
  <2> SUFFICES ASSUME NEW a \in rows PROVE \E i \in DOMAIN new \ DOMAIN log : new[i] = a
    OBVIOUS
  <2>1. PICK k \in 1..n : s[k] = a
    BY <1>4
  <2>2. Len(log) + k \in DOMAIN new \ DOMAIN log
    BY <1>2, <1>6
  <2> QED BY <1>5, <2>1, <2>2
<1>10. \A i, j \in DOMAIN new \ DOMAIN log : new[i] = new[j] => i = j
  <2> SUFFICES ASSUME NEW i \in DOMAIN new \ DOMAIN log, NEW j \in DOMAIN new \ DOMAIN log,
                      new[i] = new[j]
               PROVE  i = j
    OBVIOUS
  <2>1. i \in Int /\ j \in Int /\ i - Len(log) \in 1..n /\ j - Len(log) \in 1..n
    BY <1>7
  <2>2. s[i - Len(log)] = s[j - Len(log)]
    BY <1>8
  <2>3. DOMAIN s = 1..n
    BY <1>1
  <2>4. i - Len(log) = j - Len(log)
    BY <1>1, <2>1, <2>2, <2>3
  <2> QED BY <1>6, <2>1, <2>4
<1>11. \A i \in DOMAIN new \ DOMAIN log : new[i] \in rows
  BY <1>1, <1>7, <1>8
<1>12. DOMAIN log \subseteq DOMAIN new /\ \A i \in DOMAIN log : new[i] = log[i]
  BY <1>2, <1>5, <1>6
<1> QED BY <1>5, <1>9, <1>10, <1>11, <1>12

(* One row is appended. *)
LEMMA OneAppended ==
  ASSUME NEW log \in Seq(AuditRows), NEW a \in AuditRows
  PROVE  LET new == Append(log, a) IN
         /\ new \in Seq(AuditRows) /\ DOMAIN log \subseteq DOMAIN new
         /\ \A i \in DOMAIN log : new[i] = log[i]
         /\ DOMAIN new \ DOMAIN log = {Len(log) + 1} /\ new[Len(log) + 1] = a
         /\ \A i \in DOMAIN log : i < Len(log) + 1
  OBVIOUS

(* The end of a transaction changes the state of its open rows only. *)
LEMMA SettledLog ==
  ASSUME NEW log \in Seq(AuditRows), NEW q, NEW state \in {"done", "gone"}
  PROVE  LET new == Settle(log, q, state) IN
         /\ new \in Seq(AuditRows) /\ DOMAIN new = DOMAIN log
         /\ \A i \in DOMAIN log :
              /\ new[i].q = log[i].q /\ new[i].action = log[i].action /\ new[i].ns = log[i].ns
              /\ new[i].subject = log[i].subject /\ new[i].value = log[i].value
              /\ new[i].state = IF log[i].q = q /\ log[i].state = "open" THEN state
                                ELSE log[i].state
<1> DEFINE new == Settle(log, q, state)
<1>1. DOMAIN log = 1..Len(log) /\ Len(log) \in Nat /\ \A i \in DOMAIN log : log[i] \in AuditRows
  OBVIOUS
<1>2. \A a \in AuditRows : LET b == [a EXCEPT !.state = state] IN
        /\ b \in AuditRows /\ b.state = state
        /\ b.q = a.q /\ b.action = a.action /\ b.ns = a.ns
        /\ b.subject = a.subject /\ b.value = a.value
  BY DEF AuditRows
<1>3. new = [i \in 1..Len(log) |-> IF log[i].q = q /\ log[i].state = "open"
                                   THEN [log[i] EXCEPT !.state = state] ELSE log[i]]
  BY <1>1 DEF Settle
<1> HIDE DEF new
<1>4. DOMAIN new = DOMAIN log /\ \A i \in DOMAIN log :
        /\ new[i] \in AuditRows
        /\ new[i].q = log[i].q /\ new[i].action = log[i].action /\ new[i].ns = log[i].ns
        /\ new[i].subject = log[i].subject /\ new[i].value = log[i].value
        /\ new[i].state = IF log[i].q = q /\ log[i].state = "open" THEN state
                          ELSE log[i].state
  <2> SUFFICES ASSUME NEW i \in DOMAIN log
               PROVE  /\ new[i] \in AuditRows
                      /\ new[i].q = log[i].q /\ new[i].action = log[i].action
                      /\ new[i].ns = log[i].ns
                      /\ new[i].subject = log[i].subject /\ new[i].value = log[i].value
                      /\ new[i].state = IF log[i].q = q /\ log[i].state = "open" THEN state
                                        ELSE log[i].state
    BY <1>1, <1>3
  <2>1. log[i] \in AuditRows /\ new[i] = IF log[i].q = q /\ log[i].state = "open"
                                   THEN [log[i] EXCEPT !.state = state] ELSE log[i]
    BY <1>1, <1>3
  <2> QED BY <1>2, <2>1
<1>5. new \in Seq(AuditRows)
  BY <1>1, <1>3, <1>4
<1> QED BY <1>4, <1>5 DEF new

(* A request between its statement and its commit, and what it writes. *)
LEMMA Committing ==
  ASSUME Inv, NEW q \in Requests, req[q].at = "commit"
  PROVE  /\ RequestOK(req[q], role, tokens) /\ Active(q)
         /\ req[q].job.op \in {"org", "add", "remove", "revoke", "close"}
         /\ OfMember(req[q]) => LET w == MemberWrite(req[q]) IN
              w.ns \in Names /\ w.user \in Names /\ w.role \in Roles
         /\ ~ OfMember(req[q]) => LET t == req[q].job.token IN
              t \in Tokens /\ tokens[t].user # NoOne
<1>1. RequestOK(req[q], role, tokens) /\ Active(q)
  BY DEF Inv, RequestInv, Active
<1>2. req[q].job.op \in {"org", "add", "remove", "revoke", "close"}
  BY <1>1 DEF RequestOK, GrantOK
<1>3. OfMember(req[q]) => LET w == MemberWrite(req[q]) IN
              w.ns \in Names /\ w.user \in Names /\ w.role \in Roles
  BY <1>1 DEF RequestOK, JobOK, IdentityOK, MemberWrite, OfMember, Roles, Scopes,
              None, Read, Write, Admin
<1>4. ~ OfMember(req[q]) => LET t == req[q].job.token IN
              t \in Tokens /\ tokens[t].user # NoOne
  BY <1>1, <1>2, AccessAssumption DEF RequestOK, JobOK, IdentityOK, GrantOK, OfMember
<1> QED BY <1>1, <1>2, <1>3, <1>4

(* No request runs and the log is empty. *)
LEMMA AuditInit == Init => AuditInv
<1> SUFFICES ASSUME Init PROVE AuditInv OBVIOUS
<1>1. audit = << >> /\ DOMAIN audit = {} /\ audit \in Seq(AuditRows)
  <2>1. audit = << >>
    BY DEF Init
  <2>2. audit \in Seq(AuditRows) /\ Len(audit) = 0
    BY <2>1, EmptySeq
  <2> QED BY <2>1, <2>2
<1>2. /\ \A q \in Requests : OpenOf(q) = {} /\ req[q].at # "commit"
      /\ \A a, ns, s : Settled(a, ns, s) = {}
  BY <1>1 DEF Init, Idle, OpenOf, Settled
<1>3. \A t \in Tokens : tokens[t].namespaces \subseteq Names /\ tokens[t].revoked = FALSE
  <2> SUFFICES ASSUME NEW t \in Tokens
               PROVE  tokens[t].namespaces \subseteq Names /\ tokens[t].revoked = FALSE
    OBVIOUS
  <2>1. CASE t \in FirstUsers
    BY <2>1, AccessAssumption DEF Init, NoToken
  <2>2. CASE t \notin FirstUsers
    BY <2>2 DEF Init, NoToken
  <2> QED BY <2>1, <2>2
<1>4. ListInv /\ OpenInv /\ HoldInv
  BY <1>1, <1>2, <1>3 DEF ListInv, OpenInv, HoldInv
<1>5. MemberInv
  BY <1>2 DEF Init, MemberInv
<1>6. RevokeInv
  BY <1>2, <1>3 DEF RevokeInv
<1> QED BY <1>4, <1>5, <1>6 DEF AuditInv

(* A step that is neither the statement nor the end of a member write or a
   revocation: the log may gain rows of other actions, already committed. *)
Noted ==
  /\ audit' \in Seq(AuditRows) /\ DOMAIN audit \subseteq DOMAIN audit'
  /\ \A i \in DOMAIN audit : audit'[i] = audit[i]
  /\ \A i \in DOMAIN audit' \ DOMAIN audit :
       audit'[i].state = "done" /\ audit'[i].action \notin {"org.member", "token.revoke"}
Elsewhere ==
  \A q \in Requests : req[q].at = "commit" \/ req'[q].at = "commit" => req'[q] = req[q]
TokensKept ==
  \A t \in Tokens :
    /\ tokens'[t].revoked = tokens[t].revoked
    /\ tokens[t].user # NoOne \/ tokens[t].revoked =>
         tokens'[t].namespaces = tokens[t].namespaces

LEMMA Passive ==
  ASSUME Inv, AuditInv, Noted, Elsewhere, TokensKept, UNCHANGED <<role, lock>>, ListInv'
  PROVE  AuditInv'
<1>1. /\ \A q \in Requests : OpenOf(q)' = OpenOf(q)
      /\ \A ns, s : /\ Settled("org.member", ns, s)' = Settled("org.member", ns, s)
                    /\ Settled("token.revoke", ns, s)' = Settled("token.revoke", ns, s)
  BY DEF Noted, OpenOf, Settled
<1>2. /\ \A q \in Requests : \A i \in OpenOf(q) : audit'[i] = audit[i]
      /\ \A ns, s : \A i \in Settled("org.member", ns, s) : audit'[i] = audit[i]
  BY DEF Noted, OpenOf, Settled
<1>3. \A q \in Requests : req'[q].at = "commit" =>
        /\ req'[q] = req[q] /\ req[q].at = "commit"
        /\ ~ OfMember(req[q]) =>
             /\ tokens'[req[q].job.token].namespaces = tokens[req[q].job.token].namespaces
             /\ tokens'[req[q].job.token].revoked = tokens[req[q].job.token].revoked
  BY Committing DEF Elsewhere, TokensKept
<1>4. OpenInv'
  <2>1. audit' \in Seq(AuditRows)
    BY DEF Noted
  <2>2. ASSUME NEW q \in Requests, NEW i \in OpenOf(q)'
        PROVE  /\ req'[q].at = "commit" /\ Describes(audit[i], req[q], tokens)'
               /\ \A j \in OpenOf(q)' : audit'[i].ns = audit'[j].ns => i = j
    <3>1. /\ req[q].at = "commit" /\ Describes(audit[i], req[q], tokens)
          /\ \A j \in OpenOf(q) : audit[i].ns = audit[j].ns => i = j
      BY <1>1, <2>2 DEF AuditInv, OpenInv
    <3>2. req'[q] = req[q] /\ audit'[i] = audit[i]
      BY <1>1, <1>2, <2>2, <3>1 DEF Elsewhere
    <3>3. Describes(audit'[i], req'[q], tokens')
      BY <1>3, <3>1, <3>2 DEF Describes
    <3> QED BY <1>1, <1>2, <2>2, <3>1, <3>2, <3>3
  <2> QED BY <2>1, <2>2 DEF OpenInv
<1>5. HoldInv'
  <2> SUFFICES ASSUME NEW q \in Requests, req'[q].at = "commit"
               PROVE  Holds(q, req[q])'
    BY DEF HoldInv
  <2>0. PICK r : r = req[q]
    OBVIOUS
  <2> DEFINE w == MemberWrite(r)
             t == r.job.token
  <2>1. req'[q] = r /\ Holds(q, r)
    BY <1>3, <2>0 DEF AuditInv, HoldInv
  <2>2. ~ OfMember(r) => /\ tokens'[t].namespaces = tokens[t].namespaces
                         /\ tokens'[t].revoked = tokens[t].revoked
    BY <1>3, <2>0, <2>1
  <2>3. OpenOf(q)' = OpenOf(q) /\ \A i \in OpenOf(q) : audit'[i] = audit[i]
    BY <1>1, <1>2
  <2>4. Settled("org.member", w.ns, w.user)' = Settled("org.member", w.ns, w.user)
    BY <1>1
  <2> HIDE DEF w, t
  <2>5. ASSUME OfMember(r)
        PROVE  \E i \in OpenOf(q)' : \A j \in Settled("org.member", w.ns, w.user)' : j < i
    BY <2>1, <2>3, <2>4, <2>5 DEF Holds, w
  <2>6. ASSUME ~ OfMember(r)
        PROVE  /\ ~ tokens'[t].revoked
               /\ \A ns \in tokens'[t].namespaces : \E i \in OpenOf(q)' : audit'[i].ns = ns
    BY <2>1, <2>2, <2>3, <2>6 DEF Holds, t
  <2>7. Locked(r) \in DOMAIN lock' /\ lock'[Locked(r)] = q
    BY <2>1 DEF Holds
  <2>8. Holds(q, r)'
    BY <2>5, <2>6, <2>7 DEF Holds, w, t
  <2> QED BY <2>1, <2>8
<1>6. MemberInv'
  BY <1>1, <1>2 DEF AuditInv, MemberInv
<1>7. RevokeInv'
  BY <1>1 DEF AuditInv, RevokeInv, TokensKept
<1> QED BY <1>4, <1>5, <1>6, <1>7 DEF AuditInv

(* The steps of a request that leaves the tables alone. *)
LEMMA Quiet ==
  ASSUME Inv, AuditInv, NEW q \in Requests, UNCHANGED <<role, tokens, audit, lock>>,
         req[q].at # "commit", NEW r, req' = [req EXCEPT ![q] = r], r.at # "commit"
  PROVE  AuditInv'
<1>1. Noted
  BY DEF Noted, AuditInv, OpenInv
<1>2. Elsewhere
  BY DEF Elsewhere, Inv, RequestInv
<1>3. TokensKept /\ ListInv'
  BY DEF TokensKept, ListInv, AuditInv
<1> QED BY <1>1, <1>2, <1>3, Passive

LEMMA Answered ==
  ASSUME Inv, AuditInv, NEW q \in Requests, UNCHANGED <<role, tokens, audit, lock>>,
         req[q].at # "commit", Answer(q)
  PROVE  AuditInv'
<1>1. req' = [req EXCEPT ![q] = Done] /\ Done.at # "commit"
  BY DEF Answer, Done
<1> QED BY <1>1, Quiet

LEMMA Moves ==
  ASSUME Inv, AuditInv, NEW q \in Requests, UNCHANGED <<role, tokens, audit, lock>>,
         req[q].at # "commit", Active(q), NEW at, at # "commit", To(q, at)
  PROVE  AuditInv'
<1> DEFINE m == [req[q] EXCEPT !.at = at]
<1>1. IdentityOK(req[q], role, tokens)
  BY DEF Inv, RequestInv, RequestOK
<1>2. m.at = at
  BY <1>1, Moved
<1>3. req' = [req EXCEPT ![q] = m]
  BY DEF To
<1> HIDE DEF m
<1> QED BY <1>2, <1>3, Quiet

(* The steps that read, ask or start. *)
LEMMA QuietSteps ==
  ASSUME Inv, AuditInv, NEW q \in Requests,
         \/ \E t \in Tokens, j \in Offers : Present(q, t, j)
         \/ \E ns \in Names : ReadRole(q, ns) \/ Delegable(q, ns)
         \/ Act(q) \/ AskToken(q)
         \/ \E t \in Tokens : OpenSession(q, t) \/ CloseSession(q, t)
         \/ AskRevoke(q) \/ AskMember(q)
         \/ \E j \in CliOffers : CreateUser(q, j)
  PROVE  AuditInv'
<1>1. ASSUME NEW t \in Tokens, NEW j \in Offers, Present(q, t, j) PROVE AuditInv'
  <2>1. UNCHANGED <<role, tokens, audit, lock>> /\ req[q].at # "commit"
        /\ req' = [req EXCEPT ![q] =
             Identity(t, j, "resolve", tokens[t].namespaces \ {tokens[t].user})]
    BY <1>1 DEF Present, Idle, tables
  <2>2. Identity(t, j, "resolve", tokens[t].namespaces \ {tokens[t].user}).at # "commit"
    BY DEF Identity
  <2> QED BY <2>1, <2>2, Quiet
<1>2. ASSUME NEW ns \in Names, ReadRole(q, ns) PROVE AuditInv'
  <2> DEFINE m == [req[q] EXCEPT !.got = [@ EXCEPT ![ns] = role[ns][req[q].user]],
                                 !.left = @ \ {ns}]
  <2>1. UNCHANGED <<role, tokens, audit, lock>> /\ req[q].at = "resolve"
        /\ req' = [req EXCEPT ![q] = m]
    BY <1>2 DEF ReadRole, tables
  <2>2. m.at = "resolve"
    BY <2>1 DEF Inv, RequestInv, Active, RequestOK, IdentityOK
  <2> HIDE DEF m
  <2> QED BY <2>1, <2>2, Quiet
<1>3. ASSUME NEW ns \in Names, Delegable(q, ns) PROVE AuditInv'
  <2> DEFINE m == [req[q] EXCEPT !.left = @ \ {ns}]
  <2>1. UNCHANGED <<role, tokens, audit, lock>> /\ req[q].at = "mint"
        /\ req' = [req EXCEPT ![q] = IF Delegates(req[q].user, ns) THEN m ELSE Done]
    BY <1>3 DEF Delegable, tables
  <2>2. m.at = "mint" /\ Done.at = "done"
    BY <2>1 DEF Inv, RequestInv, Active, RequestOK, IdentityOK, Done
  <2> HIDE DEF m
  <2> QED BY <2>1, <2>2, Quiet
<1>4. ASSUME AskToken(q) PROVE AuditInv'
  <2> DEFINE m == [req[q] EXCEPT !.at = "mint", !.left = req[q].job.list \ {req[q].user}]
             ok == req[q].job.scope <= req[q].scope /\ req[q].job.list # {}
  <2>1. UNCHANGED <<role, tokens, audit, lock>> /\ req[q].at = "resolve"
        /\ req' = [req EXCEPT ![q] = IF ok THEN m ELSE Done]
    BY <1>4 DEF AskToken, Asked, Ready, tables
  <2>2. m.at = "mint" /\ Done.at = "done"
    BY <2>1 DEF Inv, RequestInv, Active, RequestOK, IdentityOK, Done
  <2> HIDE DEF m, ok
  <2> QED BY <2>1, <2>2, Quiet
<1>5. ASSUME NEW t \in Tokens, OpenSession(q, t) \/ CloseSession(q, t) PROVE AuditInv'
  <2>1. UNCHANGED <<role, tokens, audit, lock>> /\ req[q].at # "commit"
    BY <1>5 DEF OpenSession, CloseSession, Idle, tables
  <2>2. \/ req' = [req EXCEPT ![q] = Identity(t, [op |-> "open", token |-> t], "mint", {})]
        \/ req' = [req EXCEPT ![q] = Identity(t, [op |-> "close", token |-> t], "revoke", {})]
    BY <1>5 DEF OpenSession, CloseSession
  <2>3. /\ Identity(t, [op |-> "open", token |-> t], "mint", {}).at = "mint"
        /\ Identity(t, [op |-> "close", token |-> t], "revoke", {}).at = "revoke"
    BY DEF Identity
  <2> QED BY <2>1, <2>2, <2>3, Quiet
<1>6. ASSUME NEW j \in CliOffers, CreateUser(q, j) PROVE AuditInv'
  <2> DEFINE r == [at |-> "mint", job |-> j, token |-> NoOne, user |-> j.login,
                   scope |-> j.scope, namespaces |-> {j.login}, left |-> {},
                   got |-> [n \in Names |-> None], high |-> [n \in Names |-> role[n][j.login]]]
  <2>1. UNCHANGED <<role, tokens, audit, lock>> /\ req[q].at # "commit"
        /\ req' = [req EXCEPT ![q] = r] /\ r.at = "mint"
    BY <1>6 DEF CreateUser, Idle
  <2> HIDE DEF r
  <2> QED BY <2>1, Quiet
<1>7. ASSUME Act(q) \/ AskRevoke(q) \/ AskMember(q) PROVE AuditInv'
  <2>1. UNCHANGED <<role, tokens, audit, lock>> /\ req[q].at = "resolve" /\ Active(q)
    BY <1>7 DEF Act, AskRevoke, AskMember, Asked, Ready, tables, Active
  <2>2. To(q, "acted") \/ To(q, "revoke") \/ To(q, "found") \/ Answer(q)
    BY <1>7 DEF Act, AskRevoke, AskMember
  <2> QED BY <2>1, <2>2, Moves, Answered
<1> QED BY <1>1, <1>2, <1>3, <1>4, <1>5, <1>6, <1>7

(* A stutter. *)
LEMMA StillAudit ==
  ASSUME Inv, AuditInv, UNCHANGED vars
  PROVE  AuditInv'
<1>1. Noted
  BY DEF Noted, AuditInv, OpenInv, vars, tables
<1>2. Elsewhere /\ UNCHANGED <<role, lock>>
  BY DEF Elsewhere, vars, tables
<1>3. TokensKept /\ ListInv'
  BY DEF TokensKept, ListInv, AuditInv, vars, tables
<1> QED BY <1>1, <1>2, <1>3, Passive

(* A request with no open rows settles nothing of the log before it. *)
LEMMA SettlesOwn ==
  ASSUME Inv, AuditInv, NEW q \in Requests, req[q].at # "commit",
         NEW log \in Seq(AuditRows), DOMAIN audit \subseteq DOMAIN log,
         \A i \in DOMAIN audit : log[i] = audit[i],
         \A i \in DOMAIN log \ DOMAIN audit : log[i].q = q /\ log[i].state = "open" /\
           log[i].action \notin {"org.member", "token.revoke"},
         audit' = Settle(log, q, "done")
  PROVE  Noted
<1>1. /\ audit' \in Seq(AuditRows) /\ DOMAIN audit' = DOMAIN log
      /\ \A i \in DOMAIN log :
           /\ audit'[i].action = log[i].action
           /\ audit'[i].state = IF log[i].q = q /\ log[i].state = "open" THEN "done"
                                ELSE log[i].state
  BY SettledLog
<1>2. \A i \in DOMAIN audit : ~ (log[i].q = q /\ log[i].state = "open")
  BY DEF AuditInv, OpenInv, OpenOf
<1>3. \A i \in DOMAIN log : ~ (log[i].q = q /\ log[i].state = "open") => audit'[i] = log[i]
  BY DEF Settle
<1> QED BY <1>1, <1>2, <1>3 DEF Noted

(* POST /orgs and the transactions that insert a token write rows that are
   committed at once. *)
LEMMA CreateOrgAudit ==
  ASSUME Inv, AuditInv, NEW q \in Requests, CreateOrg(q)
  PROVE  AuditInv'
<1> DEFINE n == req[q].job.ns
           a == Row(q, "org.create", n, n, None)
<1>1. /\ UNCHANGED <<role, tokens, lock>> /\ req[q].at = "resolve" /\ Active(q)
      /\ RequestOK(req[q], role, tokens) /\ req[q].job.op = "org"
  BY DEF CreateOrg, Asked, Ready, Active, Inv, RequestInv
<1>2. CASE kind[n] = "none"
  <2>1. audit' = Settle(Append(audit, a), q, "done") /\ To(q, "found")
    BY <1>2 DEF CreateOrg
  <2>2. a \in AuditRows
    BY <1>1 DEF Row, AuditRows, RequestOK, JobOK, Tokens, Roles, None, Admin
  <2>3. a.q = q /\ a.state = "open" /\ a.action = "org.create"
    BY DEF Row
  <2> HIDE DEF a
  <2>4. Noted
    <3>1. audit \in Seq(AuditRows)
      BY DEF AuditInv, OpenInv
    <3> DEFINE log == Append(audit, a)
    <3>2. /\ log \in Seq(AuditRows) /\ DOMAIN audit \subseteq DOMAIN log
          /\ \A i \in DOMAIN audit : log[i] = audit[i]
          /\ DOMAIN log \ DOMAIN audit = {Len(audit) + 1} /\ log[Len(audit) + 1] = a
      BY <2>2, <3>1, OneAppended
    <3> HIDE DEF log
    <3>3. \A i \in DOMAIN log \ DOMAIN audit : log[i].q = q /\ log[i].state = "open" /\
           log[i].action \notin {"org.member", "token.revoke"}
      BY <2>3, <3>2
    <3>4. audit' = Settle(log, q, "done")
      BY <2>1 DEF log
    <3> QED BY <1>1, <3>2, <3>3, <3>4, SettlesOwn
  <2>5. Elsewhere
    <3> DEFINE m == [req[q] EXCEPT !.at = "found"]
    <3>1. m.at = "found" /\ req' = [req EXCEPT ![q] = m]
      BY <1>1, <2>1, Moved DEF RequestOK, To
    <3> HIDE DEF m
    <3> QED BY <1>1, <3>1 DEF Elsewhere, Inv, RequestInv
  <2>6. TokensKept /\ ListInv'
    BY <1>1 DEF TokensKept, ListInv, AuditInv
  <2> QED BY <1>1, <2>4, <2>5, <2>6, Passive
<1>3. CASE kind[n] # "none"
  <2>1. Answer(q) /\ UNCHANGED audit
    BY <1>3 DEF CreateOrg
  <2> QED BY <1>1, <2>1, Answered
<1> QED BY <1>2, <1>3

(* One row for each name of a list. *)
LEMMA RowsOf ==
  ASSUME NEW q \in Requests, NEW action \in {"token.create", "token.revoke"},
         NEW nss \in SUBSET Names, NEW t \in Tokens
  PROVE  /\ Rows(q, action, nss, t) \in SUBSET AuditRows
         /\ IsFiniteSet(Rows(q, action, nss, t))
         /\ \A a \in Rows(q, action, nss, t) :
              /\ a.q = q /\ a.action = action /\ a.ns \in nss /\ a.subject = t
              /\ a.state = "open"
         /\ \A ns \in nss : \E a \in Rows(q, action, nss, t) : a.ns = ns
         /\ \A a, b \in Rows(q, action, nss, t) : a.ns = b.ns => a = b
<1> DEFINE row(ns) == Row(q, action, ns, t, None)
           rows == { row(ns) : ns \in nss }
<1>1. Rows(q, action, nss, t) = rows
  BY DEF Rows
<1>2. IsFiniteSet(nss)
  BY AccessAssumption, FS_Subset
<1>3. IsFiniteSet(rows)
  <2>1. [ns \in nss |-> row(ns)] \in Surjection(nss, rows)
    BY DEF Surjection
  <2> HIDE DEF row, rows
  <2> QED BY <1>2, <2>1, FS_Surjection
<1>4. \A ns \in Names : /\ row(ns) \in AuditRows /\ row(ns).q = q /\ row(ns).action = action
                        /\ row(ns).ns = ns /\ row(ns).subject = t /\ row(ns).state = "open"
  BY DEF Row, AuditRows, Roles, None, Admin
<1> HIDE DEF row
<1> QED BY <1>1, <1>3, <1>4

(* The token.create rows of a token that is minted. *)
LEMMA MintAudit ==
  ASSUME Inv, AuditInv, NEW q \in Requests, Mint(q)
  PROVE  AuditInv'
<1> DEFINE r == req[q]
           m == Minted(r)
           k == [user |-> r.user, scope |-> m.scope, namespaces |-> m.list,
                 revoked |-> FALSE, parent |-> r.token,
                 backed |-> { n \in Names : r.high[n] = Admin }, session |-> r.job.op = "open"]
<1>1. /\ RequestOK(r, role, tokens) /\ r.at = "mint" /\ tokens[q].user = NoOne
      /\ tokens' = [tokens EXCEPT ![q] = k] /\ role' = role /\ lock' = lock
      /\ req' = [req EXCEPT ![q] = Done] /\ q \in Tokens
  BY DEF Inv, RequestInv, Active, Mint, Answer, Tokens
<1>2. m.list \subseteq Names
  <2>1. r.job.op \in {"issue", "open", "cli"}
    BY <1>1 DEF RequestOK, GrantOK
  <2>2. r.job.op = "open" => r.namespaces \subseteq Names
    BY <1>1 DEF RequestOK, IdentityOK, AuditInv, ListInv
  <2> QED BY <1>1, <2>1, <2>2 DEF Minted, RequestOK, JobOK
<1>3. tokens'[q] = k /\ \A t \in Tokens : t # q => tokens'[t] = tokens[t]
  BY <1>1 DEF Inv, TokenInv
<1>4. k.revoked = FALSE /\ k.namespaces = m.list /\ tokens[q].revoked = FALSE
  BY <1>1 DEF Inv, TokenInv, TokenOK, NoToken
<1> HIDE DEF k, m
<1>5. TokensKept
  BY <1>1, <1>3, <1>4 DEF TokensKept
<1>6. ListInv'
  BY <1>2, <1>3, <1>4 DEF ListInv, AuditInv
<1>7. Elsewhere
  BY <1>1 DEF Elsewhere, Inv, RequestInv, Done
<1>8. Noted
  <2>1. PICK log \in Appended(audit, Rows(q, "token.create", m.list, q)) :
          audit' = Settle(log, q, "done")
    BY DEF Mint, m
  <2> DEFINE rows == Rows(q, "token.create", m.list, q)
  <2>2. /\ rows \in SUBSET AuditRows /\ IsFiniteSet(rows)
        /\ \A a \in rows : a.q = q /\ a.action = "token.create" /\ a.state = "open"
    BY <1>1, <1>2, RowsOf
  <2>3. audit \in Seq(AuditRows)
    BY DEF AuditInv, OpenInv
  <2> HIDE DEF rows
  <2>4. /\ log \in Seq(AuditRows) /\ DOMAIN audit \subseteq DOMAIN log
        /\ \A i \in DOMAIN audit : log[i] = audit[i]
        /\ \A i \in DOMAIN log \ DOMAIN audit : log[i] \in rows
    BY <2>1, <2>2, <2>3, AppendedRows DEF rows
  <2>5. \A i \in DOMAIN log \ DOMAIN audit : log[i].q = q /\ log[i].state = "open" /\
           log[i].action \notin {"org.member", "token.revoke"}
    BY <2>2, <2>4
  <2> QED BY <1>1, <2>1, <2>4, <2>5, SettlesOwn
<1> QED BY <1>1, <1>5, <1>6, <1>7, <1>8, Passive

(* What a request writes depends on its job and its user only. *)
Same(r, s) == s.at = r.at /\ s.job = r.job /\ s.user = r.user
(* Nothing it writes changes with the rest of the request. *)
LEMMA SameWrites ==
  ASSUME NEW r, NEW s, s.job = r.job, s.user = r.user
  PROVE  /\ OfMember(s) = OfMember(r) /\ MemberWrite(s) = MemberWrite(r)
         /\ Locked(s) = Locked(r)
         /\ \A a, tk : Describes(a, s, tk) = Describes(a, r, tk)
<1>1. OfMember(s) = OfMember(r) /\ MemberWrite(s) = MemberWrite(r)
  BY DEF OfMember, MemberWrite
<1>2. Locked(s) = Locked(r)
  BY <1>1 DEF Locked
<1>3. \A a, tk : Describes(a, s, tk) = Describes(a, r, tk)
  BY <1>1 DEF Describes
<1> QED BY <1>1, <1>2, <1>3

(* Two requests between statement and commit hold different rows. *)
LEMMA Exclusive ==
  ASSUME AuditInv, NEW p \in Requests, NEW q \in Requests,
         req[p].at = "commit", req[q].at = "commit", Locked(req[p]) = Locked(req[q])
  PROVE  p = q
  BY DEF AuditInv, HoldInv, Holds

(* The statement: the free row is locked, the audit rows get their ids. *)
LEMMA Stated ==
  ASSUME Inv, AuditInv, NEW q \in Requests, Active(q), req[q].at # "commit",
         NEW r, r = req[q], To(q, "commit"), UNCHANGED <<role, tokens>>,
         Free(Locked(r)), Take(Locked(r), q),
         audit' \in Seq(AuditRows), DOMAIN audit \subseteq DOMAIN audit',
         \A i \in DOMAIN audit : audit'[i] = audit[i],
         NEW new, new = DOMAIN audit' \ DOMAIN audit,
         \A i \in new : /\ audit'[i].q = q /\ audit'[i].state = "open"
                        /\ Describes(audit'[i], r, tokens)
                        /\ \A j \in new : audit'[i].ns = audit'[j].ns => i = j,
         OfMember(r) => \E i \in new : \A j \in DOMAIN audit : j < i,
         ~ OfMember(r) => /\ ~ tokens[r.job.token].revoked
                          /\ \A ns \in tokens[r.job.token].namespaces :
                               \E i \in new : audit'[i].ns = ns
  PROVE  AuditInv'
<1> DEFINE m == [r EXCEPT !.at = "commit"]
<1>1. m.at = "commit" /\ m.job = r.job /\ m.user = r.user
  BY Moved DEF Inv, RequestInv, RequestOK
<1>2. req'[q] = m /\ \A p \in Requests : p # q => req'[p] = req[p]
  BY DEF To, Inv, RequestInv
<1> HIDE DEF m
<1>3. /\ OpenOf(q)' = new
      /\ \A p \in Requests : p # q => OpenOf(p)' = OpenOf(p)
      /\ \A a, ns, s : Settled(a, ns, s)' = Settled(a, ns, s)
  <2>1. OpenOf(q) = {}
    BY DEF AuditInv, OpenInv
  <2>2. OpenOf(q)' = new
    BY <2>1 DEF OpenOf
  <2>3. \A p \in Requests : p # q => OpenOf(p)' = OpenOf(p)
    BY DEF OpenOf
  <2>4. \A a, ns, s : Settled(a, ns, s)' = Settled(a, ns, s)
    BY DEF Settled
  <2> QED BY <2>2, <2>3, <2>4
<1>4. \A p \in Requests : \A i \in OpenOf(p) : audit'[i] = audit[i]
  BY DEF OpenOf
<1>5. OpenInv'
  <2> SUFFICES ASSUME NEW p \in Requests, NEW i \in OpenOf(p)'
               PROVE  /\ req'[p].at = "commit" /\ Describes(audit'[i], req'[p], tokens')
                      /\ \A j \in OpenOf(p)' : audit'[i].ns = audit'[j].ns => i = j
    BY DEF OpenInv
  <2>1. CASE p = q
    BY <1>1, <1>2, <1>3, <2>1, SameWrites
  <2>2. CASE p # q
    BY <1>2, <1>3, <1>4, <2>2 DEF AuditInv, OpenInv
  <2> QED BY <2>1, <2>2
<1>6. HoldInv'
  <2> SUFFICES ASSUME NEW p \in Requests, req'[p].at = "commit"
               PROVE  Holds(p, req[p])'
    BY DEF HoldInv
  <2>1. CASE p = q
    <3>1. Locked(m) \in DOMAIN lock' /\ lock'[Locked(m)] = q
      BY <1>1, SameWrites DEF Take
    <3>2. OfMember(m) = OfMember(r) /\ m.job.token = r.job.token
      BY <1>1, SameWrites
    <3>3. ASSUME OfMember(m), NEW w
          PROVE  \E i \in OpenOf(q)' : \A j \in Settled("org.member", w.ns, w.user)' : j < i
      <4>1. Settled("org.member", w.ns, w.user)' \subseteq DOMAIN audit
        BY <1>3 DEF Settled
      <4> QED BY <1>3, <3>2, <3>3, <4>1
    <3>4. ASSUME ~ OfMember(m)
          PROVE  /\ ~ tokens'[m.job.token].revoked
                 /\ \A ns \in tokens'[m.job.token].namespaces :
                      \E i \in OpenOf(q)' : audit'[i].ns = ns
      BY <1>3, <3>2, <3>4
    <3>5. \A s : s = req'[q] => Locked(s) \in DOMAIN lock' /\ lock'[Locked(s)] = q
      BY <1>2, <3>1
    <3> QED BY <1>2, <2>1, <3>1, <3>3, <3>4 DEF Holds
  <2>2. CASE p # q
    <3>0. PICK s : s = req[p]
      OBVIOUS
    <3>1. req'[p] = s /\ s.at = "commit" /\ Holds(p, s)
      BY <1>2, <2>2, <3>0 DEF AuditInv, HoldInv
    <3>2. Locked(s) \in DOMAIN lock' /\ lock'[Locked(s)] = p
      BY <3>1 DEF Holds, Free, Take
    <3>3. OpenOf(p)' = OpenOf(p) /\ \A i \in OpenOf(p) : audit'[i] = audit[i]
      BY <1>3, <1>4, <2>2
    <3>4. \A w : Settled("org.member", w.ns, w.user)' = Settled("org.member", w.ns, w.user)
      BY <1>3
    <3>5. Holds(p, s)'
      BY <3>1, <3>2, <3>3, <3>4 DEF Holds
    <3> QED BY <3>1, <3>5
  <2> QED BY <2>1, <2>2
<1>7. MemberInv'
  <2>1. \A ns, s : \A i \in Settled("org.member", ns, s) : audit'[i] = audit[i]
    BY DEF Settled
  <2> QED BY <1>3, <2>1 DEF AuditInv, MemberInv
<1>8. RevokeInv' /\ ListInv'
  BY <1>3 DEF AuditInv, RevokeInv, ListInv
<1> QED BY <1>5, <1>6, <1>7, <1>8 DEF AuditInv

(* One row is appended to the log by a member write. *)
LEMMA MemberStated ==
  ASSUME Inv, AuditInv, NEW q \in Requests, NEW w, w = MemberWrite(req[q]),
         req[q].at = "found", Free(MemberRow(w.ns, w.user)), Take(MemberRow(w.ns, w.user), q),
         audit' = Append(audit, Row(q, "org.member", w.ns, w.user, w.role)),
         To(q, "commit"), UNCHANGED <<role, tokens>>
  PROVE  AuditInv'
<1> DEFINE a == Row(q, "org.member", w.ns, w.user, w.role)
<1>1. PICK r : r = req[q]
  OBVIOUS
<1>2. RequestOK(r, role, tokens) /\ Active(q) /\ OfMember(r)
  BY <1>1 DEF Inv, RequestInv, Active, RequestOK, GrantOK, OfMember
<1>3. w.ns \in Names /\ w.user \in Names /\ w.role \in Roles
  BY <1>1, <1>2 DEF RequestOK, JobOK, IdentityOK, MemberWrite, OfMember, Roles, Scopes,
              None, Read, Write, Admin
<1>4. /\ a \in AuditRows /\ a.q = q /\ a.state = "open" /\ a.action = "org.member"
      /\ a.ns = w.ns /\ a.subject = w.user /\ a.value = w.role
  BY <1>3 DEF Row, AuditRows, Tokens
<1> HIDE DEF a
<1>5. audit \in Seq(AuditRows)
  BY DEF AuditInv, OpenInv
<1>6. /\ audit' \in Seq(AuditRows) /\ DOMAIN audit \subseteq DOMAIN audit'
      /\ \A i \in DOMAIN audit : audit'[i] = audit[i]
      /\ DOMAIN audit' \ DOMAIN audit = {Len(audit) + 1} /\ audit'[Len(audit) + 1] = a
      /\ \A i \in DOMAIN audit : i < Len(audit) + 1
  BY <1>4, <1>5, OneAppended DEF a
<1>7. Describes(a, r, tokens) /\ Locked(r) = MemberRow(w.ns, w.user)
  BY <1>1, <1>2, <1>4 DEF Describes, Locked
<1>8. PICK new : new = DOMAIN audit' \ DOMAIN audit
  OBVIOUS
<1> QED BY <1>1, <1>2, <1>4, <1>6, <1>7, <1>8, Stated

(* The upsert and the delete of a membership. *)
LEMMA StatementAudit ==
  ASSUME Inv, AuditInv, NEW q \in Requests, StoreMember(q) \/ DropMember(q)
  PROVE  AuditInv'
<1> DEFINE w == MemberWrite(req[q])
<1>1. UNCHANGED <<role, tokens>> /\ req[q].at = "found" /\ req[q].at # "commit"
  BY DEF StoreMember, DropMember
<1>2. \/ Answer(q) /\ UNCHANGED <<audit, lock>>
      \/ /\ Free(MemberRow(w.ns, w.user)) /\ Take(MemberRow(w.ns, w.user), q)
         /\ audit' = Append(audit, Row(q, "org.member", w.ns, w.user, w.role))
         /\ To(q, "commit")
  <2>1. CASE StoreMember(q)
    BY <2>1 DEF StoreMember
  <2>2. CASE DropMember(q)
    BY <2>2 DEF DropMember
  <2> QED BY <2>1, <2>2
<1> HIDE DEF w
<1>3. CASE Answer(q) /\ UNCHANGED <<audit, lock>>
  BY <1>1, <1>3, Answered
<1>4. CASE /\ Free(MemberRow(w.ns, w.user)) /\ Take(MemberRow(w.ns, w.user), q)
           /\ audit' = Append(audit, Row(q, "org.member", w.ns, w.user, w.role))
           /\ To(q, "commit")
  BY <1>1, <1>4, MemberStated DEF w
<1> QED BY <1>2, <1>3, <1>4

(* The update of a token writes one row for each name it has. *)
LEMMA RevokeAudit ==
  ASSUME Inv, AuditInv, NEW q \in Requests, Revoke(q)
  PROVE  AuditInv'
<1>1. PICK r : r = req[q]
  OBVIOUS
<1>2. PICK t : t = r.job.token
  OBVIOUS
<1>3. /\ UNCHANGED <<role, tokens>> /\ r.at = "revoke" /\ Active(q)
      /\ RequestOK(r, role, tokens) /\ r.job.op \in {"revoke", "close"} /\ t \in Tokens
      /\ ~ OfMember(r)
  BY <1>1, <1>2 DEF Revoke, Active, Inv, RequestInv, RequestOK, GrantOK, JobOK, OfMember
<1>4. CASE ~ Revocable(r)
  <2>1. Answer(q) /\ UNCHANGED <<audit, lock>>
    BY <1>1, <1>4 DEF Revoke
  <2> QED BY <1>1, <1>3, <2>1, Answered
<1>5. CASE Revocable(r)
  <2> DEFINE nss == tokens[t].namespaces
             rows == Rows(q, "token.revoke", nss, t)
  <2>1. /\ Free(t) /\ Take(t, q) /\ audit' \in Appended(audit, rows)
        /\ To(q, "commit") /\ ~ tokens[t].revoked
    BY <1>1, <1>2, <1>5 DEF Revoke, Revocable
  <2>2. nss \in SUBSET Names
    BY <1>3 DEF AuditInv, ListInv
  <2>3. /\ rows \in SUBSET AuditRows /\ IsFiniteSet(rows)
        /\ \A a \in rows : a.q = q /\ a.action = "token.revoke" /\ a.ns \in nss
                           /\ a.subject = t /\ a.state = "open"
        /\ \A ns \in nss : \E a \in rows : a.ns = ns
        /\ \A a, b \in rows : a.ns = b.ns => a = b
    <3> HIDE DEF nss
    <3>1. t \in Tokens /\ "token.revoke" \in {"token.create", "token.revoke"}
      BY <1>3
    <3> QED BY <2>2, <3>1, RowsOf
  <2>4. audit \in Seq(AuditRows)
    BY DEF AuditInv, OpenInv
  <2> HIDE DEF rows
  <2>5. PICK new : new = DOMAIN audit' \ DOMAIN audit
    OBVIOUS
  <2>6. /\ audit' \in Seq(AuditRows) /\ DOMAIN audit \subseteq DOMAIN audit'
        /\ \A i \in DOMAIN audit : audit'[i] = audit[i]
        /\ \A i \in new : audit'[i] \in rows
        /\ \A a \in rows : \E i \in new : audit'[i] = a
        /\ \A i, j \in new : audit'[i] = audit'[j] => i = j
    BY <2>1, <2>3, <2>4, <2>5, AppendedRows
  <2>7. \A i \in new : /\ audit'[i].q = q /\ audit'[i].state = "open"
                       /\ Describes(audit'[i], r, tokens)
                       /\ \A j \in new : audit'[i].ns = audit'[j].ns => i = j
    BY <1>2, <1>3, <2>3, <2>6 DEF Describes
  <2>8. \A ns \in nss : \E i \in new : audit'[i].ns = ns
    BY <2>3, <2>6
  <2>9. Locked(r) = t
    BY <1>2, <1>3 DEF Locked
  <2> QED BY <1>1, <1>2, <1>3, <2>1, <2>5, <2>6, <2>7, <2>8, <2>9, Stated
<1> QED BY <1>4, <1>5

(* The end of a transaction settles its own rows. *)
LEMMA EndedLog ==
  ASSUME AuditInv, NEW q \in Requests, NEW state \in {"done", "gone"},
         audit' = Settle(audit, q, state)
  PROVE  /\ audit' \in Seq(AuditRows) /\ DOMAIN audit' = DOMAIN audit
         /\ OpenOf(q)' = {} /\ \A p \in Requests : p # q => OpenOf(p)' = OpenOf(p)
         /\ \A i \in DOMAIN audit :
              /\ audit'[i].q = audit[i].q /\ audit'[i].action = audit[i].action
              /\ audit'[i].ns = audit[i].ns /\ audit'[i].subject = audit[i].subject
              /\ audit'[i].value = audit[i].value
         /\ \A a, ns, s : Settled(a, ns, s)' = Settled(a, ns, s) \cup
              (IF state = "gone" THEN {}
               ELSE { i \in OpenOf(q) : /\ audit[i].action = a /\ audit[i].ns = ns
                                        /\ audit[i].subject = s })
<1>1. /\ audit' \in Seq(AuditRows) /\ DOMAIN audit' = DOMAIN audit
      /\ \A i \in DOMAIN audit :
           /\ audit'[i].q = audit[i].q /\ audit'[i].action = audit[i].action
           /\ audit'[i].ns = audit[i].ns /\ audit'[i].subject = audit[i].subject
           /\ audit'[i].value = audit[i].value
           /\ audit'[i].state = IF audit[i].q = q /\ audit[i].state = "open" THEN state
                                ELSE audit[i].state
  <2>1. audit \in Seq(AuditRows)
    BY DEF AuditInv, OpenInv
  <2> QED BY <2>1, SettledLog
<1>2. OpenOf(q)' = {} /\ \A p \in Requests : p # q => OpenOf(p)' = OpenOf(p)
  BY <1>1 DEF OpenOf
<1>3. \A a, ns, s : Settled(a, ns, s)' = Settled(a, ns, s) \cup
              (IF state = "gone" THEN {}
               ELSE { i \in OpenOf(q) : /\ audit[i].action = a /\ audit[i].ns = ns
                                        /\ audit[i].subject = s })
  BY <1>1 DEF Settled, OpenOf
<1> QED BY <1>1, <1>2, <1>3

(* The other transactions keep their rows and their locks. *)
LEMMA OthersHold ==
  ASSUME Inv, AuditInv, NEW q \in Requests, NEW state \in {"done", "gone"},
         audit' = Settle(audit, q, state), lock' = Unlocked(q), req'[q] = Done,
         \A p \in Requests : p # q /\ (req[p].at = "commit" \/ req'[p].at = "commit") =>
           Same(req[p], req'[p]),
         \A p \in Requests : p # q /\ req[p].at = "commit" /\ ~ OfMember(req[p]) =>
           /\ tokens'[req[p].job.token].namespaces = tokens[req[p].job.token].namespaces
           /\ tokens'[req[p].job.token].revoked = tokens[req[p].job.token].revoked,
         \A p \in Requests : \A w :
           p # q /\ req[p].at = "commit" /\ OfMember(req[p]) /\ w = MemberWrite(req[p]) =>
             Settled("org.member", w.ns, w.user)' = Settled("org.member", w.ns, w.user)
  PROVE  OpenInv' /\ HoldInv'
<1>1. /\ audit' \in Seq(AuditRows) /\ DOMAIN audit' = DOMAIN audit
      /\ OpenOf(q)' = {} /\ \A p \in Requests : p # q => OpenOf(p)' = OpenOf(p)
      /\ \A i \in DOMAIN audit :
              /\ audit'[i].q = audit[i].q /\ audit'[i].action = audit[i].action
              /\ audit'[i].ns = audit[i].ns /\ audit'[i].subject = audit[i].subject
              /\ audit'[i].value = audit[i].value
  BY EndedLog
<1>2. \A p \in Requests : OpenOf(p) \subseteq DOMAIN audit
  BY DEF OpenOf
<1>3. OpenInv'
  <2> SUFFICES ASSUME NEW p \in Requests, NEW i \in OpenOf(p)'
               PROVE  /\ req'[p].at = "commit" /\ Describes(audit'[i], req'[p], tokens')
                      /\ \A j \in OpenOf(p)' : audit'[i].ns = audit'[j].ns => i = j
    BY <1>1 DEF OpenInv
  <2>1. p # q /\ i \in OpenOf(p)
    BY <1>1
  <2>2. /\ req[p].at = "commit" /\ Describes(audit[i], req[p], tokens)
        /\ \A j \in OpenOf(p) : audit[i].ns = audit[j].ns => i = j
    BY <2>1 DEF AuditInv, OpenInv
  <2>3. Same(req[p], req'[p])
    BY <2>1, <2>2
  <2>4. Describes(audit'[i], req[p], tokens')
    <3>1. i \in DOMAIN audit
      BY <1>2, <2>1
    <3> QED BY <1>1, <2>1, <2>2, <3>1 DEF Describes
  <2>5. Describes(audit'[i], req'[p], tokens')
    BY <2>3, <2>4, SameWrites DEF Same
  <2>6. \A j \in OpenOf(p)' : audit'[i].ns = audit'[j].ns => i = j
    BY <1>1, <1>2, <2>1, <2>2
  <2> QED BY <2>2, <2>3, <2>5, <2>6 DEF Same
<1>4. HoldInv'
  <2> SUFFICES ASSUME NEW p \in Requests, req'[p].at = "commit"
               PROVE  Holds(p, req[p])'
    BY DEF HoldInv
  <2>1. p # q
    BY DEF Done
  <2>2. PICK r : r = req[p]
    OBVIOUS
  <2>3. PICK s : s = req'[p]
    OBVIOUS
  <2>4. Same(r, s) /\ r.at = "commit" /\ Holds(p, r)
    BY <2>1, <2>2, <2>3 DEF Same, AuditInv, HoldInv
  <2>5. OfMember(s) = OfMember(r) /\ MemberWrite(s) = MemberWrite(r) /\ Locked(s) = Locked(r)
        /\ s.job = r.job
    BY <2>4, SameWrites DEF Same
  <2>6. Locked(s) \in DOMAIN lock' /\ lock'[Locked(s)] = p
    BY <2>1, <2>4, <2>5 DEF Holds, Unlocked
  <2>7. OpenOf(p)' = OpenOf(p) /\ \A i \in OpenOf(p) : audit'[i].ns = audit[i].ns
    BY <1>1, <1>2, <2>1
  <2>8. PICK w : w = MemberWrite(r)
    OBVIOUS
  <2>9. ASSUME OfMember(s)
        PROVE  \E i \in OpenOf(p)' : \A j \in Settled("org.member", w.ns, w.user)' : j < i
    <3>1. Settled("org.member", w.ns, w.user)' = Settled("org.member", w.ns, w.user)
      BY <2>1, <2>2, <2>4, <2>5, <2>8, <2>9
    <3>2. \E i \in OpenOf(p) : \A j \in Settled("org.member", w.ns, w.user) : j < i
      BY <2>4, <2>5, <2>8, <2>9 DEF Holds
    <3> QED BY <2>7, <3>1, <3>2
  <2>10. ASSUME ~ OfMember(s)
         PROVE  /\ ~ tokens'[s.job.token].revoked
                /\ \A ns \in tokens'[s.job.token].namespaces :
                     \E i \in OpenOf(p)' : audit'[i].ns = ns
    <3>1. /\ tokens'[s.job.token].namespaces = tokens[s.job.token].namespaces
          /\ tokens'[s.job.token].revoked = tokens[s.job.token].revoked
      BY <2>1, <2>2, <2>4, <2>5, <2>10
    <3>2. /\ ~ tokens[s.job.token].revoked
          /\ \A ns \in tokens[s.job.token].namespaces : \E i \in OpenOf(p) : audit[i].ns = ns
      BY <2>4, <2>5, <2>10 DEF Holds
    <3> QED BY <2>7, <3>1, <3>2
  <2>11. Holds(p, s)'
    BY <2>5, <2>6, <2>8, <2>9, <2>10 DEF Holds
  <2> QED BY <2>3, <2>11
<1> QED BY <1>3, <1>4

(* A rollback: the open rows of the request are gone. *)
LEMMA CutAudit ==
  ASSUME Inv, AuditInv, NEW q \in Requests, Cut(q)
  PROVE  AuditInv'
<1>1. /\ audit' = Settle(audit, q, "gone") /\ lock' = Unlocked(q)
      /\ req' = [req EXCEPT ![q] = Done] /\ UNCHANGED <<role, tokens>>
  BY DEF Cut, Answer
<1>2. req'[q] = Done /\ \A p \in Requests : p # q => req'[p] = req[p]
  BY <1>1 DEF Inv, RequestInv
<1>3. /\ \A a, ns, s : Settled(a, ns, s)' = Settled(a, ns, s)
      /\ DOMAIN audit' = DOMAIN audit /\ \A i \in DOMAIN audit : audit'[i].value = audit[i].value
  BY <1>1, EndedLog
<1>4. OpenInv' /\ HoldInv'
  BY <1>1, <1>2, <1>3, OthersHold DEF Same
<1>5. MemberInv'
  <2>1. \A ns, s : Settled("org.member", ns, s) \subseteq DOMAIN audit
    BY DEF Settled
  <2> QED BY <1>1, <1>3, <2>1 DEF AuditInv, MemberInv
<1>6. RevokeInv' /\ ListInv'
  BY <1>1, <1>3 DEF AuditInv, RevokeInv, ListInv
<1> QED BY <1>4, <1>5, <1>6 DEF AuditInv

(* COMMIT of a member write: its one open row becomes the last of its row. *)
LEMMA CommitMemberAudit ==
  ASSUME Inv, AuditInv, NEW q \in Requests, CommitMember(q)
  PROVE  AuditInv'
<1>1. PICK w : w = MemberWrite(req[q])
  OBVIOUS
<1>2. /\ req[q].at = "commit" /\ OfMember(req[q])
      /\ w.ns \in Names /\ w.user \in Names /\ w.role \in Roles
      /\ Locked(req[q]) = MemberRow(w.ns, w.user)
  <2>1. req[q].at = "commit" /\ OfMember(req[q])
    BY DEF CommitMember, OfMember
  <2> QED BY <1>1, <2>1, Committing DEF Locked
<1>3. /\ role' = [role EXCEPT ![w.ns][w.user] = w.role] /\ tokens' = tokens
      /\ audit' = Settle(audit, q, "done") /\ lock' = Unlocked(q)
      /\ req' = [p \in Requests |->
           IF p = q THEN Done
           ELSE IF Active(p) /\ req[p].user = w.user /\ req[p].high[w.ns] < w.role
             THEN [req[p] EXCEPT !.high[w.ns] = w.role] ELSE req[p]]
  BY <1>1 DEF CommitMember
<1>4. /\ \A a, ns, s : Settled(a, ns, s)' = Settled(a, ns, s) \cup
           { j \in OpenOf(q) : /\ audit[j].action = a /\ audit[j].ns = ns
                               /\ audit[j].subject = s }
      /\ DOMAIN audit' = DOMAIN audit /\ \A j \in DOMAIN audit : audit'[j].value = audit[j].value
  BY <1>3, EndedLog
<1>5. PICK i \in OpenOf(q) : \A j \in Settled("org.member", w.ns, w.user) : j < i
  BY <1>1, <1>2 DEF AuditInv, HoldInv, Holds
<1>6. /\ audit[i].action = "org.member" /\ audit[i].ns = w.ns
      /\ audit[i].subject = w.user /\ audit[i].value = w.role
      /\ OpenOf(q) = {i} /\ i \in DOMAIN audit
  <2>1. \A j \in OpenOf(q) :
          /\ audit[j].action = "org.member" /\ audit[j].ns = w.ns
          /\ audit[j].subject = w.user /\ audit[j].value = w.role
    BY <1>1, <1>2 DEF AuditInv, OpenInv, Describes
  <2>2. \A j \in OpenOf(q) : j = i
    BY <1>5, <2>1 DEF AuditInv, OpenInv
  <2> QED BY <1>5, <2>1, <2>2 DEF OpenOf
<1>7. /\ \A ns, u : Settled("org.member", ns, u)' =
           IF ns = w.ns /\ u = w.user THEN Settled("org.member", ns, u) \cup {i}
           ELSE Settled("org.member", ns, u)
      /\ \A ns, t : Settled("token.revoke", ns, t)' = Settled("token.revoke", ns, t)
  BY <1>4, <1>6
<1>8. \A p \in Requests : p # q /\ (req[p].at = "commit" \/ req'[p].at = "commit") =>
           Same(req[p], req'[p])
  <2> SUFFICES ASSUME NEW p \in Requests, p # q, req[p].at = "commit" \/ req'[p].at = "commit"
               PROVE  Same(req[p], req'[p])
    OBVIOUS
  <2>1. CASE Active(p) /\ req[p].user = w.user /\ req[p].high[w.ns] < w.role
    <3> DEFINE m == [req[p] EXCEPT !.high[w.ns] = w.role]
    <3>1. req'[p] = m
      BY <1>3, <2>1
    <3>2. m.at = req[p].at /\ m.job = req[p].job /\ m.user = req[p].user
      BY <2>1 DEF Inv, RequestInv, RequestOK, IdentityOK
    <3> HIDE DEF m
    <3> QED BY <3>1, <3>2 DEF Same
  <2>2. CASE ~ (Active(p) /\ req[p].user = w.user /\ req[p].high[w.ns] < w.role)
    BY <1>3, <2>2 DEF Same
  <2> QED BY <2>1, <2>2
<1>9. \A p \in Requests : \A v :
        p # q /\ req[p].at = "commit" /\ OfMember(req[p]) /\ v = MemberWrite(req[p]) =>
          Settled("org.member", v.ns, v.user)' = Settled("org.member", v.ns, v.user)
  <2> SUFFICES ASSUME NEW p \in Requests, NEW v, p # q, req[p].at = "commit",
                      OfMember(req[p]), v = MemberWrite(req[p])
               PROVE  ~ (v.ns = w.ns /\ v.user = w.user)
    BY <1>7
  <2>1. Locked(req[p]) = MemberRow(v.ns, v.user)
    BY DEF Locked
  <2>2. Locked(req[p]) # Locked(req[q])
    BY <1>2, Exclusive
  <2> QED BY <1>2, <2>1, <2>2
<1>10. req'[q] = Done
  BY <1>3
<1>11. OpenInv' /\ HoldInv'
  BY <1>3, <1>8, <1>9, <1>10, OthersHold
<1>12. MemberInv'
  <2> SUFFICES ASSUME NEW ns \in Names, NEW u \in Names, NEW rows,
                      rows = Settled("org.member", ns, u)
               PROVE  \/ Settled("org.member", ns, u)' = {} /\ role'[ns][u] = FirstRole[ns][u]
                      \/ \E k \in Settled("org.member", ns, u)' :
                           /\ role'[ns][u] = audit'[k].value
                           /\ \A j \in Settled("org.member", ns, u)' : j <= k
    BY DEF MemberInv
  <2>1. rows \subseteq DOMAIN audit /\ DOMAIN audit \subseteq Nat
    BY DEF Settled, AuditInv, OpenInv
  <2>2. role'[ns][u] = IF ns = w.ns /\ u = w.user THEN w.role ELSE role[ns][u]
    BY <1>2, <1>3 DEF Inv, RoleInv
  <2>3. CASE ns = w.ns /\ u = w.user
    <3>1. Settled("org.member", ns, u)' = rows \cup {i}
      BY <1>7, <2>3
    <3>2. \A j \in rows \cup {i} : j <= i
      BY <1>5, <1>6, <2>1, <2>3
    <3>3. role'[ns][u] = audit'[i].value
      BY <1>4, <1>6, <2>2, <2>3
    <3> QED BY <3>1, <3>2, <3>3
  <2>4. CASE ~ (ns = w.ns /\ u = w.user)
    <3>1. Settled("org.member", ns, u)' = rows /\ role'[ns][u] = role[ns][u]
      BY <1>7, <2>2, <2>4
    <3>2. \/ rows = {} /\ role[ns][u] = FirstRole[ns][u]
          \/ \E k \in rows : role[ns][u] = audit[k].value /\ \A j \in rows : j <= k
      BY DEF AuditInv, MemberInv
    <3> QED BY <1>4, <2>1, <3>1, <3>2
  <2> QED BY <2>3, <2>4
<1>13. RevokeInv' /\ ListInv'
  BY <1>3, <1>7 DEF AuditInv, RevokeInv, ListInv
<1> QED BY <1>11, <1>12, <1>13 DEF AuditInv

(* COMMIT of a revocation: one row for each namespace the token names. *)
LEMMA CommitRevokeAudit ==
  ASSUME Inv, AuditInv, NEW q \in Requests, CommitRevoke(q)
  PROVE  AuditInv'
<1>1. PICK t : t = req[q].job.token
  OBVIOUS
<1>2. /\ req[q].at = "commit" /\ ~ OfMember(req[q]) /\ t \in Tokens
      /\ tokens[t].user # NoOne /\ Locked(req[q]) = t
  <2>1. req[q].at = "commit" /\ ~ OfMember(req[q])
    BY DEF CommitRevoke, OfMember
  <2> QED BY <1>1, <2>1, Committing DEF Locked
<1>3. /\ tokens' = [tokens EXCEPT ![t].revoked = TRUE] /\ role' = role
      /\ audit' = Settle(audit, q, "done") /\ lock' = Unlocked(q)
      /\ req' = [req EXCEPT ![q] = Done]
  BY <1>1 DEF CommitRevoke, Answer
<1>4. /\ tokens'[t].revoked = TRUE /\ tokens'[t].namespaces = tokens[t].namespaces
      /\ \A s \in Tokens : s # t => tokens'[s] = tokens[s]
  <2> DEFINE k == [tokens[t] EXCEPT !.revoked = TRUE]
  <2>1. k.revoked = TRUE /\ k.namespaces = tokens[t].namespaces
    BY <1>2 DEF Inv, TokenInv, TokenOK
  <2>2. tokens' = [tokens EXCEPT ![t] = k] /\ DOMAIN tokens = Tokens
    BY <1>3 DEF Inv, TokenInv
  <2> HIDE DEF k
  <2> QED BY <1>2, <2>1, <2>2
<1>5. req'[q] = Done /\ \A p \in Requests : p # q => req'[p] = req[p]
  BY <1>3 DEF Inv, RequestInv
<1>6. /\ \A a, ns, s : Settled(a, ns, s)' = Settled(a, ns, s) \cup
           { j \in OpenOf(q) : /\ audit[j].action = a /\ audit[j].ns = ns
                               /\ audit[j].subject = s }
      /\ DOMAIN audit' = DOMAIN audit /\ \A j \in DOMAIN audit : audit'[j].value = audit[j].value
  BY <1>3, EndedLog
<1>7. /\ \A j \in OpenOf(q) : /\ audit[j].action = "token.revoke" /\ audit[j].subject = t
                              /\ audit[j].ns \in tokens[t].namespaces
                              /\ \A k \in OpenOf(q) : audit[j].ns = audit[k].ns => j = k
      /\ ~ tokens[t].revoked
      /\ \A ns \in tokens[t].namespaces : \E j \in OpenOf(q) : audit[j].ns = ns
  <2>1. \A j \in OpenOf(q) : /\ audit[j].action = "token.revoke" /\ audit[j].subject = t
                             /\ audit[j].ns \in tokens[t].namespaces
                             /\ \A k \in OpenOf(q) : audit[j].ns = audit[k].ns => j = k
    BY <1>1, <1>2 DEF AuditInv, OpenInv, Describes
  <2>2. /\ ~ tokens[t].revoked
        /\ \A ns \in tokens[t].namespaces : \E j \in OpenOf(q) : audit[j].ns = ns
    BY <1>1, <1>2 DEF AuditInv, HoldInv, Holds
  <2> QED BY <2>1, <2>2
<1>8. /\ \A ns, u : Settled("org.member", ns, u)' = Settled("org.member", ns, u)
      /\ \A ns, s : s # t => Settled("token.revoke", ns, s)' = Settled("token.revoke", ns, s)
  BY <1>6, <1>7
<1>9. OpenInv' /\ HoldInv'
  <2>1. \A p \in Requests : p # q /\ (req[p].at = "commit" \/ req'[p].at = "commit") =>
          Same(req[p], req'[p])
    BY <1>5 DEF Same
  <2>2. \A p \in Requests : p # q /\ req[p].at = "commit" /\ ~ OfMember(req[p]) =>
          /\ tokens'[req[p].job.token].namespaces = tokens[req[p].job.token].namespaces
          /\ tokens'[req[p].job.token].revoked = tokens[req[p].job.token].revoked
    <3> SUFFICES ASSUME NEW p \in Requests, p # q, req[p].at = "commit", ~ OfMember(req[p])
                 PROVE  req[p].job.token \in Tokens /\ req[p].job.token # t
      BY <1>4
    <3>1. req[p].job.token \in Tokens /\ Locked(req[p]) = req[p].job.token
      BY Committing DEF Locked
    <3>2. Locked(req[p]) # Locked(req[q])
      BY <1>2, Exclusive
    <3> QED BY <1>2, <3>1, <3>2
  <2>3. \A p \in Requests : \A v :
          p # q /\ req[p].at = "commit" /\ OfMember(req[p]) /\ v = MemberWrite(req[p]) =>
            Settled("org.member", v.ns, v.user)' = Settled("org.member", v.ns, v.user)
    BY <1>8
  <2> QED BY <1>3, <1>5, <2>1, <2>2, <2>3, OthersHold
<1>10. MemberInv'
  <2>1. \A ns, s : Settled("org.member", ns, s) \subseteq DOMAIN audit
    BY DEF Settled
  <2> QED BY <1>3, <1>6, <1>8, <2>1 DEF AuditInv, MemberInv
<1>11. RevokeInv'
  <2> SUFFICES ASSUME NEW s \in Tokens, NEW ns \in Names
               PROVE  IF tokens'[s].revoked /\ ns \in tokens'[s].namespaces
                        THEN \E i \in Settled("token.revoke", ns, s)' :
                               Settled("token.revoke", ns, s)' = {i}
                        ELSE Settled("token.revoke", ns, s)' = {}
    BY DEF RevokeInv
  <2>1. CASE s = t
    <3>1. Settled("token.revoke", ns, t) = {}
      BY <1>2, <1>7 DEF AuditInv, RevokeInv
    <3>2. Settled("token.revoke", ns, t)' = { j \in OpenOf(q) : audit[j].ns = ns }
      BY <1>6, <1>7, <3>1
    <3>3. ASSUME ns \in tokens[t].namespaces
          PROVE  \E i \in OpenOf(q) : { j \in OpenOf(q) : audit[j].ns = ns } = {i}
      BY <1>7, <3>3
    <3>4. ASSUME ns \notin tokens[t].namespaces
          PROVE  { j \in OpenOf(q) : audit[j].ns = ns } = {}
      BY <1>7, <3>4
    <3> QED BY <1>4, <2>1, <3>2, <3>3, <3>4
  <2>2. CASE s # t
    BY <1>4, <1>8, <2>2 DEF AuditInv, RevokeInv
  <2> QED BY <2>1, <2>2
<1>12. ListInv'
  BY <1>4 DEF AuditInv, ListInv
<1> QED BY <1>9, <1>10, <1>11, <1>12 DEF AuditInv

-----------------------------------------------------------------------------
(* Every step of Access. *)
LEMMA AuditStep == ASSUME Inv, AuditInv, [Next]_vars PROVE AuditInv'
<1>1. CASE UNCHANGED vars
  BY <1>1, StillAudit
<1>2. ASSUME NEW q \in Requests,
             \/ \E t \in Tokens, j \in Offers : Present(q, t, j)
             \/ \E ns \in Names : ReadRole(q, ns) \/ Delegable(q, ns)
             \/ Act(q) \/ AskToken(q) \/ Mint(q)
             \/ \E t \in Tokens : OpenSession(q, t) \/ CloseSession(q, t)
             \/ AskRevoke(q) \/ Revoke(q) \/ CommitRevoke(q)
             \/ CreateOrg(q) \/ AskMember(q)
             \/ StoreMember(q) \/ DropMember(q) \/ CommitMember(q)
             \/ \E j \in CliOffers : CreateUser(q, j)
             \/ Cut(q)
      PROVE  AuditInv'
  BY <1>2, QuietSteps, MintAudit, RevokeAudit, CommitRevokeAudit, CreateOrgAudit,
     StatementAudit, CommitMemberAudit, CutAudit
<1> QED BY <1>1, <1>2 DEF Next, Rest

(* The audit log, replayed in id order, gives the membership table, and a token
   has one token.revoke row per namespace exactly when it is revoked, for any
   number of racing requests, rollbacks and namespaces (audit.rs). *)
THEOREM AuditReplays == Spec => []AuditTells
<1>1. Init => AuditInv
  BY AuditInit
<1>2. Inv /\ AuditInv /\ [Next]_vars => AuditInv'
  BY AuditStep
<1>3. AuditInv => AuditTells
  <2> SUFFICES ASSUME AuditInv PROVE AuditTells OBVIOUS
  <2>1. ASSUME NEW ns \in Names, NEW u \in Names, NEW rows,
               rows = Settled("org.member", ns, u)
        PROVE  role[ns][u] = IF rows = {} THEN FirstRole[ns][u]
                 ELSE audit[CHOOSE i \in rows : \A j \in rows : j <= i].value
    <3>1. rows \subseteq Nat
      BY <2>1 DEF Settled, AuditInv, OpenInv
    <3>2. \/ rows = {} /\ role[ns][u] = FirstRole[ns][u]
          \/ \E i \in rows : role[ns][u] = audit[i].value /\ \A j \in rows : j <= i
      BY <2>1 DEF AuditInv, MemberInv
    <3>3. ASSUME NEW i \in rows, \A j \in rows : j <= i
          PROVE  (CHOOSE k \in rows : \A j \in rows : j <= k) = i
      <4> DEFINE Last(k) == \A j \in rows : j <= k
      <4>1. \A k \in rows : Last(k) => k = i
        BY <3>1, <3>3
      <4>2. Last(i)
        BY <3>3
      <4> HIDE DEF Last
      <4>3. (CHOOSE k \in rows : Last(k)) = i
        BY <4>1, <4>2, Zenon
      <4> QED BY <4>3 DEF Last
    <3> QED BY <3>2, <3>3
  <2>2. ASSUME NEW t \in Tokens, NEW ns \in Names
        PROVE  Cardinality(Settled("token.revoke", ns, t)) =
                 IF tokens[t].revoked /\ ns \in tokens[t].namespaces THEN 1 ELSE 0
    BY FS_EmptySet, FS_Singleton DEF AuditInv, RevokeInv
  <2> QED BY <2>1, <2>2 DEF AuditTells
<1> QED BY <1>1, <1>2, <1>3, Inductive, PTL DEF Spec
=============================================================================
