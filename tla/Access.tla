------------------------------- MODULE Access -------------------------------
(***************************************************************************)
(* Users, organisations, tokens and UI sessions (evalhub-store/src/auth.rs *)
(* and evalhub-server/src/auth.rs, api/auth.rs).                           *)
(*                                                                         *)
(* A request is a sequence of statements on a pool, not one transaction:   *)
(* the extractor reads the token's row, then one membership row per        *)
(* namespace the token covers; the handler decides on that snapshot and    *)
(* only then writes, while members and tokens of the same organisation are *)
(* being changed by others.  A transaction that updates a row is two       *)
(* steps, the statement that takes the row lock and the audit id, and the  *)
(* commit.  Every request id is used once, which bounds the behaviours,    *)
(* and the token a request mints is named by the request.                  *)
(*                                                                         *)
(* A login and the namespace of the same name are one value; a user is     *)
(* named by the login (users.login is unique and never changes).           *)
(***************************************************************************)
EXTENDS Naturals, Sequences, FiniteSets

CONSTANTS
  Names,      \* logins and organisation slugs, one set of namespaces
  Requests,   \* the requests made in a behaviour, one operation each
  NoOne,      \* "no request", "no token"
  Offers,     \* the operations that are asked for over HTTP
  CliOffers,  \* and on the command line
  FirstUsers, \* the users the command line created before the behaviour
  FirstRole   \* [Names -> [Names -> 0..3]], the memberships at the start

(* Read < Write < Admin; None is "not a member" or "no effective scope". *)
None  == 0
Read  == 1
Write == 2
Admin == 3

ASSUME AccessAssumption ==
  /\ IsFiniteSet(Names)
  /\ FirstUsers \subseteq Names
  /\ FirstRole \in [Names -> [Names -> None..Admin]]
  /\ NoOne \notin Names \cup Requests
  /\ Names \cap Requests = {}

Tokens  == Names \cup Requests
Scopes  == {Read, Write, Admin}
NoToken == [user |-> NoOne, scope |-> None, namespaces |-> {},
            revoked |-> FALSE, parent |-> NoOne, backed |-> {}, session |-> FALSE]

VARIABLES
  users,    \* users.login
  kind,     \* namespaces.kind, "none" when there is no row
  role,     \* org_members.role of (namespace, user), None when no row
  tokens,   \* the tokens table; parent, backed and session are history
  cookies,  \* the tokens that were put in a session cookie
  audit,    \* the audit rows by id: "open" until the commit, "gone" after a rollback
  lock,     \* the row locks of org_members and tokens, by row
  req       \* what each request is doing

tables == <<users, kind, role, tokens, cookies, audit, lock>>
vars   == <<tables, req>>

-----------------------------------------------------------------------------
(* The operations a request can ask for. *)

Jobs ==
       [op : {"act"}, ns : Names, scope : Scopes]
  \cup [op : {"issue"}, scope : Scopes, list : SUBSET Names]
  \cup [op : {"revoke"}, token : Tokens]
  \cup [op : {"org"}, ns : Names]
  \cup [op : {"add"}, ns : Names, user : Names, role : Scopes]
  \cup [op : {"remove"}, ns : Names, user : Names]
CliJobs == [op : {"cli"}, login : Names, scope : Scopes]

ASSUME OffersAssumption == Offers \subseteq Jobs /\ CliOffers \subseteq CliJobs

Idle == [at |-> "idle"]
Done == [at |-> "done"]

(* The identity a request acts as: the token's row as read, `got' the roles
   read so far, `left' the namespaces still to be looked up, and `high', the
   greatest role the user has had in each namespace since the request began. *)
Identity(t, job, at, left) ==
  [at |-> at, job |-> job, token |-> t,
   user |-> tokens[t].user, scope |-> tokens[t].scope,
   namespaces |-> tokens[t].namespaces, left |-> left,
   got  |-> [n \in Names |-> None],
   high |-> [n \in Names |-> role[n][tokens[t].user]]]

Active(q) == req[q].at \notin {"idle", "done"}
Ready(q)  == req[q].at = "resolve" /\ req[q].left = {}
Asked(q, op) == Ready(q) /\ req[q].job.op = op

Min2(a, b) == IF a < b THEN a ELSE b

(* The token's own scope on the personal namespace, the lesser of scope and
   role on an organisation, nothing anywhere the token does not name.
   A mistaken form: the role is not looked at. *)
EffectiveByToken(r, ns) == IF ns \in r.namespaces THEN r.scope ELSE None
Effective(r, ns) ==
  IF ns \notin r.namespaces THEN None
  ELSE IF ns = r.user THEN r.scope
  ELSE Min2(r.got[ns], r.scope)

Allows(r, ns, scope) == Effective(r, ns) >= scope
IsAdmin(r, ns) == Allows(r, ns, Admin)

Row(q, action, ns, subject, value) ==
  [q |-> q, action |-> action, ns |-> ns, subject |-> subject,
   value |-> value, state |-> "open"]
Rows(q, action, nss, subject) ==
  { Row(q, action, ns, subject, None) : ns \in nss }

(* One row per namespace, in some order. *)
Appended(log, rows) ==
  { log \o s : s \in { s \in [1..Cardinality(rows) -> rows] :
                         \A i, j \in DOMAIN s : i # j => s[i] # s[j] } }
Settle(log, q, state) ==
  [i \in DOMAIN log |->
     IF log[i].q = q /\ log[i].state = "open"
       THEN [log[i] EXCEPT !.state = state] ELSE log[i]]

MemberRow(ns, u) == <<ns, u>>
(* An update waits for the row's lock.  A mistaken form: it does not wait. *)
FreeAlways(row) == TRUE
Free(row) == row \notin DOMAIN lock
Take(row, q) == lock' = [x \in DOMAIN lock \cup {row} |-> IF x = row THEN q ELSE lock[x]]
Unlocked(q) == [x \in { x \in DOMAIN lock : lock[x] # q } |-> lock[x]]

To(q, at) == req' = [req EXCEPT ![q].at = at]
Answer(q) == req' = [req EXCEPT ![q] = Done]

-----------------------------------------------------------------------------
Init ==
  /\ users = FirstUsers
  /\ kind = [n \in Names |-> IF n \in FirstUsers THEN "user"
                             ELSE IF \E u \in Names : FirstRole[n][u] # None
                                    THEN "org" ELSE "none"]
  /\ role = FirstRole
  /\ tokens = [t \in Tokens |->
       IF t \in FirstUsers
         THEN [NoToken EXCEPT !.user = t, !.scope = Admin,
                 !.namespaces = {t} \cup { n \in Names : FirstRole[n][t] = Admin }]
         ELSE NoToken]
  /\ cookies = {}
  /\ audit = <<>>
  /\ lock = << >>
  /\ req = [q \in Requests |-> Idle]

(* resolve: the token row is read; a revoked one is refused (401). *)
Present(q, t, job) ==
  /\ req[q] = Idle
  /\ tokens[t].user # NoOne
  /\ ~ tokens[t].revoked
  /\ req' = [req EXCEPT ![q] =
       Identity(t, job, "resolve", tokens[t].namespaces \ {tokens[t].user})]
  /\ UNCHANGED tables

(* resolve: one membership row, a statement of its own. *)
ReadRole(q, ns) ==
  LET r == req[q] IN
  /\ r.at = "resolve" /\ ns \in r.left
  /\ req' = [req EXCEPT ![q] =
       [r EXCEPT !.got = [@ EXCEPT ![ns] = role[ns][r.user]], !.left = @ \ {ns}]]
  /\ UNCHANGED tables

(* Any handler that asks for a scope on a namespace and then works there: a
   record write, the roster, the audit listing. *)
Act(q) ==
  /\ Asked(q, "act")
  /\ IF Allows(req[q], req[q].job.ns, req[q].job.scope)
       THEN To(q, "acted") ELSE Answer(q)
  /\ UNCHANGED tables

-----------------------------------------------------------------------------
(* POST /tokens.  The scope may not exceed the presenting token's; every
   namespace is the caller's login or an organisation where the caller is an
   admin member, read one by one, outside the transaction that inserts.  A
   mistaken form: any member may delegate. *)
AskToken(q) ==
  LET r == req[q] IN
  /\ Asked(q, "issue")
  /\ req' = [req EXCEPT ![q] =
       IF r.job.scope <= r.scope /\ r.job.list # {}
         THEN [r EXCEPT !.at = "mint", !.left = r.job.list \ {r.user}] ELSE Done]
  /\ UNCHANGED tables

AnyMember(user, ns) == role[ns][user] # None
Delegates(user, ns) == role[ns][user] = Admin

Delegable(q, ns) ==
  LET r == req[q] IN
  /\ r.at = "mint" /\ ns \in r.left
  /\ req' = [req EXCEPT ![q] =
       IF Delegates(r.user, ns) THEN [r EXCEPT !.left = @ \ {ns}] ELSE Done]
  /\ UNCHANGED tables

(* What the new token's row carries: the body's scope and list, or, for a
   session, those of the token that was presented. *)
Minted(r) ==
  CASE r.job.op = "issue" -> [scope |-> r.job.scope, list |-> r.job.list]
    [] r.job.op = "open"  -> [scope |-> r.scope, list |-> r.namespaces]
    [] r.job.op = "cli"   -> [scope |-> r.job.scope, list |-> {r.job.login}]

(* The token whose secret goes into the session cookie.  A mistaken form: the
   presented one. *)
PresentedToken(q) == req[q].token
CookieToken(q) == q

Mint(q) ==
  LET r == req[q]  m == Minted(r) IN
  /\ r.at = "mint" /\ r.left = {}
  /\ tokens' = [tokens EXCEPT ![q] =
       [user |-> r.user, scope |-> m.scope, namespaces |-> m.list,
        revoked |-> FALSE, parent |-> r.token,
        backed |-> { n \in Names : r.high[n] = Admin }, session |-> r.job.op = "open"]]
  /\ \E log \in Appended(audit, Rows(q, "token.create", m.list, q)) :
       audit' = Settle(log, q, "done")
  /\ cookies' = cookies \cup (IF r.job.op = "open" THEN {CookieToken(q)} ELSE {})
  /\ Answer(q)
  /\ UNCHANGED <<users, kind, role, lock>>

(* POST /session: the pasted token is checked, then a second one is minted. *)
OpenSession(q, t) ==
  /\ req[q] = Idle
  /\ tokens[t].user # NoOne /\ ~ tokens[t].revoked
  /\ req' = [req EXCEPT ![q] = Identity(t, [op |-> "open", token |-> t], "mint", {})]
  /\ UNCHANGED tables

(* DELETE /session: the cookie's token is looked up, then revoked. *)
CloseSession(q, t) ==
  /\ req[q] = Idle /\ t \in cookies
  /\ req' = [req EXCEPT ![q] = Identity(t, [op |-> "close", token |-> t], "revoke", {})]
  /\ UNCHANGED tables

-----------------------------------------------------------------------------
(* DELETE /tokens/{token_id}: only a token of the caller's own. *)
AskRevoke(q) ==
  /\ Asked(q, "revoke")
  /\ To(q, "revoke")
  /\ UNCHANGED tables

(* UPDATE ... WHERE user_id = $2 AND revoked_at IS NULL takes the row lock;
   a second revoke waits and then finds nothing to do. *)
Revocable(r) ==
  LET t == tokens[r.job.token] IN t.user = r.user /\ ~ t.revoked

Revoke(q) ==
  LET r == req[q]  t == r.job.token IN
  /\ r.at = "revoke"
  /\ IF Revocable(r)
       THEN /\ Free(t) /\ Take(t, q)
            /\ audit' \in Appended(audit, Rows(q, "token.revoke", tokens[t].namespaces, t))
            /\ To(q, "commit")
       ELSE Answer(q) /\ UNCHANGED <<audit, lock>>
  /\ UNCHANGED <<users, kind, role, tokens, cookies>>

-----------------------------------------------------------------------------
(* POST /orgs.  Two transactions: the organisation, then its first member. *)
CreateOrg(q) ==
  LET r == req[q]  n == r.job.ns IN
  /\ Asked(q, "org")
  /\ IF kind[n] = "none"
       THEN /\ kind' = [kind EXCEPT ![n] = "org"]
            /\ audit' = Settle(Append(audit, Row(q, "org.create", n, n, None)), q, "done")
            /\ To(q, "found")
       ELSE Answer(q) /\ UNCHANGED <<kind, audit>>
  /\ UNCHANGED <<users, role, tokens, cookies, lock>>

(* What a member write stores: None removes the row. *)
MemberWrite(r) ==
  CASE r.job.op = "org"    -> [ns |-> r.job.ns, user |-> r.user, role |-> Admin]
    [] r.job.op = "add"    -> [ns |-> r.job.ns, user |-> r.job.user, role |-> r.job.role]
    [] r.job.op = "remove" -> [ns |-> r.job.ns, user |-> r.job.user, role |-> None]

AskMember(q) ==
  LET r == req[q] IN
  /\ Asked(q, "add") \/ Asked(q, "remove")
  /\ IF IsAdmin(r, r.job.ns) /\ r.job.user \in users
       THEN To(q, "found") ELSE Answer(q)
  /\ UNCHANGED tables

(* add_org_member: the upsert waits for the row, also for one being inserted;
   a namespace without an orgs row is refused by the foreign key. *)
StoreMember(q) ==
  LET w == MemberWrite(req[q])  row == MemberRow(w.ns, w.user) IN
  /\ req[q].at = "found" /\ w.role # None
  /\ IF kind[w.ns] = "org"
       THEN /\ Free(row) /\ Take(row, q)
            /\ audit' = Append(audit, Row(q, "org.member", w.ns, w.user, w.role))
            /\ To(q, "commit")
       ELSE Answer(q) /\ UNCHANGED <<audit, lock>>
  /\ UNCHANGED <<users, kind, role, tokens, cookies>>

(* remove_org_member: the DELETE waits for a row it sees, and answers 404 at
   once when it sees none, whatever is being inserted. *)
DropMember(q) ==
  LET w == MemberWrite(req[q])  row == MemberRow(w.ns, w.user) IN
  /\ req[q].at = "found" /\ w.role = None
  /\ IF role[w.ns][w.user] # None
       THEN /\ Free(row) /\ Take(row, q)
            /\ audit' = Append(audit, Row(q, "org.member", w.ns, w.user, None))
            /\ To(q, "commit")
       ELSE Answer(q) /\ UNCHANGED <<audit, lock>>
  /\ UNCHANGED <<users, kind, role, tokens, cookies>>

(* COMMIT of a member write: the other requests' history takes it in. *)
CommitMember(q) ==
  LET w == MemberWrite(req[q]) IN
  /\ req[q].at = "commit" /\ req[q].job.op \in {"org", "add", "remove"}
  /\ role' = [role EXCEPT ![w.ns][w.user] = w.role]
  /\ audit' = Settle(audit, q, "done")
  /\ lock' = Unlocked(q)
  /\ req' = [p \in Requests |->
       IF p = q THEN Done
       ELSE IF Active(p) /\ req[p].user = w.user /\ req[p].high[w.ns] < w.role
         THEN [req[p] EXCEPT !.high[w.ns] = w.role] ELSE req[p]]
  /\ UNCHANGED <<users, kind, tokens, cookies>>

CommitRevoke(q) ==
  /\ req[q].at = "commit" /\ req[q].job.op \in {"revoke", "close"}
  /\ tokens' = [tokens EXCEPT ![req[q].job.token].revoked = TRUE]
  /\ audit' = Settle(audit, q, "done")
  /\ lock' = Unlocked(q)
  /\ Answer(q)
  /\ UNCHANGED <<users, kind, role, cookies>>

-----------------------------------------------------------------------------
(* `evalhub user create': the user and its namespace in one transaction (an
   existing namespace of that name is left as it is), its token in another. *)
CreateUser(q, job) ==
  /\ req[q] = Idle /\ job.login \notin users
  /\ users' = users \cup {job.login}
  /\ kind' = [kind EXCEPT ![job.login] = IF @ = "none" THEN "user" ELSE @]
  /\ req' = [req EXCEPT ![q] =
       [at |-> "mint", job |-> job, token |-> NoOne, user |-> job.login,
        scope |-> job.scope, namespaces |-> {job.login}, left |-> {},
        got |-> [n \in Names |-> None], high |-> [n \in Names |-> role[n][job.login]]]]
  /\ UNCHANGED <<role, tokens, cookies, audit, lock>>

(* The connection drops, the statement fails or the process stops: the open
   transaction, if any, rolls back and the request goes no further. *)
Cut(q) ==
  /\ Active(q) /\ req[q].at # "acted"
  /\ audit' = Settle(audit, q, "gone")
  /\ lock' = Unlocked(q)
  /\ Answer(q)
  /\ UNCHANGED <<users, kind, role, tokens, cookies>>

(* The behaviour ends when every request has been answered. *)
AllAnswered == \A q \in Requests : req[q].at \in {"done", "acted"}
Rest == AllAnswered /\ UNCHANGED vars

Next ==
  \/ \E q \in Requests :
       \/ \E t \in Tokens, j \in Offers : Present(q, t, j)
       \/ \E ns \in Names : ReadRole(q, ns) \/ Delegable(q, ns)
       \/ Act(q) \/ AskToken(q) \/ Mint(q)
       \/ \E t \in Tokens : OpenSession(q, t) \/ CloseSession(q, t)
       \/ AskRevoke(q) \/ Revoke(q) \/ CommitRevoke(q)
       \/ CreateOrg(q) \/ AskMember(q)
       \/ StoreMember(q) \/ DropMember(q) \/ CommitMember(q)
       \/ \E j \in CliOffers : CreateUser(q, j)
       \/ Cut(q)
  \/ Rest

Spec == Init /\ [][Next]_vars

-----------------------------------------------------------------------------
(* Every table holds rows of its own shape, and a lock is held by a request
   whose transaction is open (auth.rs: the row types and the transactions). *)
TypeOK ==
  /\ users \subseteq Names
  /\ kind \in [Names -> {"none", "user", "org"}]
  /\ role \in [Names -> [Names -> None..Admin]]
  /\ \A n, u \in Names : role[n][u] # None => kind[n] = "org" /\ u \in users
  /\ \A t \in Tokens : tokens[t] # NoToken =>
       /\ tokens[t].user \in users /\ tokens[t].scope \in Read..Admin
       /\ tokens[t].namespaces \in (SUBSET Names) \ {{}}
  /\ \A t \in cookies : tokens[t] # NoToken
  /\ \A x \in DOMAIN lock : req[lock[x]].at = "commit"

(* A request that was let through on an organisation had the user's standing:
   the token names the namespace, carries the scope, and at some moment since
   the request began the user held at least the role needed.  The same holds
   for every member write about to commit.  (auth.rs: "A user's token acts
   with the lesser of the token's scope and the user's role in the org".) *)
Standing(r, ns, scope) ==
  /\ ns \in r.namespaces /\ scope <= r.scope
  /\ ns = r.user \/ scope <= r.high[ns]
ActedInStanding ==
  \A q \in Requests : LET r == req[q] IN
    /\ r.at = "acted" => Standing(r, r.job.ns, r.job.scope)
    /\ r.at = "commit" /\ r.job.op \in {"add", "remove"} => Standing(r, r.job.ns, Admin)

(* No token is a ladder: it carries no more scope than the token it was minted
   from and belongs to the same user, and each namespace it names is the
   user's own, one where the user was an admin member while it was being
   minted, or, for a session, one the presented token names.  (auth.rs: "a
   token never mints one that may do more than itself".) *)
TokensBacked ==
  \A t \in Requests : LET k == tokens[t]  p == tokens[k.parent] IN
    k # NoToken /\ k.parent # NoOne =>
      /\ k.user = p.user /\ k.scope <= p.scope
      /\ k.namespaces \subseteq
           {k.user} \cup k.backed \cup (IF k.session THEN p.namespaces ELSE {})

(* The audit log, replayed in id order, gives the membership table: although
   ids are taken before the commit, the row lock orders them.  And a token has
   one token.revoke row per namespace exactly when it is revoked, however many
   revokes raced.  (audit.rs: "the row exists exactly when the action it
   records does".) *)
Settled(action, ns, s) ==
  { i \in DOMAIN audit : /\ audit[i].action = action /\ audit[i].state = "done"
                         /\ audit[i].ns = ns /\ audit[i].subject = s }
AuditTells ==
  /\ \A ns, u \in Names : LET rows == Settled("org.member", ns, u) IN
       role[ns][u] = IF rows = {} THEN FirstRole[ns][u]
                     ELSE audit[CHOOSE i \in rows : \A j \in rows : j <= i].value
  /\ \A t \in Tokens, ns \in Names :
       Cardinality(Settled("token.revoke", ns, t)) =
         IF tokens[t].revoked /\ ns \in tokens[t].namespaces THEN 1 ELSE 0

(* Only DELETE /tokens/{id} naming it, by its owner, revokes a token that is
   not a session's: closing a session never disturbs the token it was opened
   with.  (auth.rs: "closing a session cannot disturb the token the operator
   pasted in to open it".) *)
SessionsApart ==
  [][\A t \in Tokens : ~ tokens[t].revoked /\ tokens'[t].revoked =>
       \E q \in Requests :
         /\ req[q].at = "commit"
         /\ req[q].job.op = "revoke" \/ (req[q].job.op = "close" /\ tokens[t].session)
         /\ req[q].job.token = t /\ req[q].user = tokens[t].user]_vars
=============================================================================
