--------------------------- MODULE Administration ---------------------------
(***************************************************************************)
(* What the administrators of one firm change: its users and their grants  *)
(* (services/users.py), a client's approval matrix, settings and exchange  *)
(* rates (web/routes.py, services/settings.py, services/fx.py), each with  *)
(* the audit event it records (services/audit.py), composed with the login *)
(* throttle, whose verdict depends on the users.                           *)
(*                                                                         *)
(* A request is three steps.  Begin reads the rows and checks the guards.  *)
(* Flush sends the UPDATE or DELETE of existing rows, which takes their    *)
(* locks until Commit, and then reads the tip of the audit chain.  Commit  *)
(* makes the writes visible and releases the locks.  An INSERT, an event   *)
(* alone, or an UPDATE without a changed column takes no lock.             *)
(***************************************************************************)
EXTENDS SignIn, ApprovalMatrix, AuditChain

CONSTANTS
  MaxUsers,     \* bound on the app_user rows
  Clients,      \* the firm's clients
  Seed,         \* the users that provisioning created, a sequence of rows
  Forms,        \* the role, limit, status and companies that a form may carry
  Bands,        \* the bands that the editor may add
  SettingKeys, RateKeys,  \* keys of client_setting and exchange_rate
  Allowed,      \* for each setting key, its choices
  Inputs,       \* the values that a setting's form may carry
  Default,      \* for each setting key, the registry's default
  RatesMYR,     \* the rates that an administrator may enter
  MaxRules,     \* bound on the matrix rules ever inserted
  MaxRows       \* bound on the rows ever inserted for one key

Slots == 1 .. MaxUsers
Keys  == SettingKeys \cup RateKeys

FirmScoped == {"partner", "manager"}

Columns == {"email", "role", "limit", "status"}

UserOf(u) == <<"user", u>>
RuleOf(i) == <<"rule", i>>
Matrix    == <<"matrix", 0>>

\* The audited entities; a setting or a rate is the entity of its row.
Entities == {UserOf(u) : u \in Slots} \cup {Matrix} \cup (Keys \X (1 .. MaxRows))

\* The kinds of entities have names of their own.  A form names an email, a
\* role, a status and clients of the firm, a band amounts and a role;
\* provisioning leaves rows that save_user could have left, an active partner
\* among them.
ASSUME AdminAssumption ==
  /\ \A w \in Worlds : IsFiniteSet(w.sessions)
  /\ MaxRules \in Nat /\ MaxRows \in Nat \ {0}
  /\ MaxUsers \in Nat /\ Len(Seed) \in 0 .. MaxUsers /\ DOMAIN Seed = 1 .. Len(Seed)
  /\ Clients # {}
  /\ SettingKeys \cap RateKeys = {} /\ {"user", "matrix"} \cap Keys = {}
  /\ \A k \in SettingKeys : Default[k] \in Allowed[k]
  /\ \A b \in Bands : /\ b.min \in Amounts \cup {None} /\ b.max \in Amounts \cup {None}
                     /\ b.role \in Roles \cup {None}
  /\ \A row \in Forms \cup {Seed[i] : i \in DOMAIN Seed} :
       /\ row.role \in Roles /\ row.status \in {"active", "inactive"}
       /\ row.clients \subseteq Clients /\ row.email # None
  /\ \A i \in DOMAIN Seed : Seed[i].role \in FirmScoped <=> Seed[i].clients = {}
  /\ \E i \in DOMAIN Seed : Seed[i].role = "partner" /\ Seed[i].status = "active"

VARIABLES
  users,    \* the app_user rows
  grants,   \* for each user, the clients of its user_client_grant rows
  rules,    \* the approval_matrix_rule rows, by identity
  values,   \* client_setting and exchange_rate: the row of each key
  log       \* the audit chain of each entity, in the order of commits

vars == <<world, txn, throttle, users, grants, rules, values, log>>

directory == <<users, grants>>
config    == <<rules, values>>

NoUser == [email |-> None, role |-> None, limit |-> None, status |-> "absent"]

Existing == {u \in Slots : users[u].status # "absent"}

NextUser == Cardinality(Existing) + 1

Active(u) == users[u].status = "active"

\* require_firm_scope over build_principal, which reads the user again on
\* every request: an active partner or manager.
Admin(u) == Active(u) /\ users[u].role \in FirmScoped

\* resolve_allowed_client_ids: firm-scoped roles see every client, the others
\* the clients that they hold a grant to.
Sees(u) == IF users[u].role \in FirmScoped THEN Clients ELSE grants[u]

Events == Cardinality(UNION {{e} \X DOMAIN log[e] : e \in Entities})

\* A new request: the rows it will lock, and what Commit needs to know.
Begin(s, op, ent, locks, more) ==
  /\ Asks(s, op)
  /\ Events < world.events
  /\ txn' = [txn EXCEPT ![s] =
       [op |-> op, ent |-> ent, locks |-> locks, stage |-> "read", more |-> more]]
  /\ UNCHANGED <<world, throttle, directory, config, log>>

\* The rows that the other sessions hold locked.
Held(s) ==
  UNION {txn[o].locks : o \in {o \in Sessions \ {s} : txn[o] # Idle /\ txn[o].op # "login"
                                                      /\ txn[o].stage = "flushed"}}

\* grants_by_user is read here too, after the flush of the user's row.
Flush(s) ==
  LET t == txn[s] IN
  /\ t # Idle /\ t.op # "login" /\ t.stage = "read"
  /\ t.locks \cap Held(s) = {}
  /\ \E tip \in Tips(log[t.ent]) :
       txn' = [txn EXCEPT ![s] =
         [op |-> t.op, ent |-> t.ent, locks |-> t.locks, stage |-> "flushed", more |-> t.more,
          tip |-> tip, had |-> IF t.op = "user" /\ t.more.user # 0
                               THEN grants[t.more.user] ELSE {}]]
  /\ UNCHANGED <<world, throttle, directory, config, log>>

Ready(s, op) == txn[s].op = op /\ txn[s].stage = "flushed"

Done(s) == txn' = [txn EXCEPT ![s] = Idle] /\ UNCHANGED <<world, throttle>>

Event(what, by, from, to) == [what |-> what, by |-> by, from |-> from, to |-> to]

\* The request's event is appended behind the tip that it read.
Record(s, ent, event) == log' = [log EXCEPT ![ent] = Extended(@, txn[s].tip, event)]

\* Any failure, an IntegrityError or a stale row included: get_db rolls back.
Abort(s) ==
  /\ txn[s] # Idle /\ txn[s].op # "login"
  /\ Done(s) /\ UNCHANGED <<directory, config, log>>

-----------------------------------------------------------------------------
(* Users and grants: save_user. *)

\* Mutant: an administrator may deactivate himself.
KeepsSelf_Demoted(actor, target, form) ==
  actor = target => form.role = users[actor].role /\ form.limit = users[actor].limit

\* Nobody deactivates himself, or changes his own role or limit.
KeepsSelf(actor, target, form) ==
  actor = target =>
    form.status = "active" /\ form.role = users[actor].role /\ form.limit = users[actor].limit

\* Mutant: a junior may edit a senior.
MayAssign_Junior(actor, target, form) == Rank[form.role] <= Rank[users[actor].role]

\* Nobody assigns a role senior to his own, or edits a user senior to him.
MayAssign(actor, target, form) ==
  /\ Rank[form.role] <= Rank[users[actor].role]
  /\ target # 0 => Rank[users[target].role] <= Rank[users[actor].role]

\* Mutant: the grants of a promoted user stay.
Wanted_Kept(form) == form.clients

\* Partners and managers see every client, so they keep no grants.
Wanted(form) == IF form.role \in FirmScoped THEN {} ELSE form.clients

\* Target 0 is a new user.
BeginSaveUser(s, actor, target, form) ==
  LET new == [email |-> form.email, role |-> form.role, limit |-> form.limit,
              status |-> form.status]
      old == IF target = 0 THEN NoUser ELSE users[target]
      changed == {c \in Columns : old[c] # new[c]}
  IN
  /\ Admin(actor) /\ target \in Existing \cup {0}
  /\ MayAssign(actor, target, form)
  /\ form.role \notin FirmScoped => form.clients # {}
  /\ \A u \in Existing \ {target} : users[u].email # form.email
  /\ target = 0 => NextUser \in Slots
  /\ KeepsSelf(actor, target, form)
  /\ Begin(s, "user", UserOf(IF target = 0 THEN NextUser ELSE target),
           IF target = 0 \/ changed = {} THEN {} ELSE {UserOf(target)},
           [user |-> target, by |-> actor, old |-> old, new |-> new, changed |-> changed,
            wanted |-> Wanted(form)])

\* Mutant: the limit is not in the event.
Detailed_Roles(m, had) == (m.changed \ {"limit"}) \cup IF had # m.wanted THEN {"grants"} ELSE {}

\* What the event names: the changed columns, and the grants when they changed.
Detailed(m, had) == m.changed \cup IF had # m.wanted THEN {"grants"} ELSE {}

\* The UNIQUE keys: one user of an email, one grant of a client.  The columns
\* that changed are written, and the grants that were seen to be missing or
\* unwanted.
CommitUser(s) ==
  LET t == txn[s]  m == t.more
      u == IF m.user = 0 THEN NextUser ELSE m.user
      added == m.wanted \ t.had
      named == Detailed(m, t.had)
  IN
  /\ Ready(s, "user")
  /\ u \in Slots /\ added \cap grants[u] = {}
  /\ \A o \in Existing \ {u} : users[o].email # m.new.email \/ "email" \notin m.changed
  /\ users' = [users EXCEPT ![u] = [c \in DOMAIN NoUser |->
                                      IF c \in m.changed THEN m.new[c] ELSE @[c]]]
  /\ grants' = [grants EXCEPT ![u] = (@ \ (t.had \ m.wanted)) \cup added]
  /\ IF named = {} THEN UNCHANGED log
     ELSE Record(s, UserOf(u),
            Event(IF m.user = 0 THEN "user_created" ELSE "user_updated", m.by,
                  [c \in named |-> IF c = "grants" THEN t.had ELSE m.old[c]],
                  [c \in named |-> IF c = "grants" THEN m.wanted ELSE m.new[c]]))
  /\ Done(s) /\ UNCHANGED config

-----------------------------------------------------------------------------
(* The approval matrix. *)

LiveRules == {i \in DOMAIN rules : rules[i].live}

Removed(ids) ==
  [i \in DOMAIN rules |-> IF i \in ids THEN [rules[i] EXCEPT !.live = FALSE] ELSE rules[i]]

\* The template's rows, for expense claims.
Seeded(name) ==
  [i \in DOMAIN Templates[name] |-> Rule(Templates[name][i], "eclaim")]

\* delete_for_client removes the rules that it can see, bills' bands too.
BeginApplyTemplate(s, actor, name) ==
  /\ Admin(actor)
  /\ Len(rules) + Len(Templates[name]) <= MaxRules
  /\ Begin(s, "template", Matrix, {RuleOf(i) : i \in LiveRules},
           [by |-> actor, name |-> name, seen |-> LiveRules])

CommitTemplate(s) ==
  LET m == txn[s].more IN
  /\ Ready(s, "template")
  /\ Len(rules) + Len(Templates[m.name]) <= MaxRules
  /\ rules' = Removed(m.seen) \o Seeded(m.name)
  /\ Record(s, Matrix, Event("template", m.by, None, m.name))
  /\ Done(s) /\ UNCHANGED <<directory, values>>

BeginAddRule(s, actor, band, module) ==
  /\ Admin(actor) /\ Len(rules) < MaxRules
  /\ ~(band.min # None /\ band.max # None /\ band.max < band.min)
  /\ Begin(s, "add_rule", Matrix, {}, [by |-> actor, rule |-> Rule(band, module)])

CommitAddRule(s) ==
  LET m == txn[s].more IN
  /\ Ready(s, "add_rule") /\ Len(rules) < MaxRules
  /\ rules' = Append(rules, m.rule)
  /\ Record(s, Matrix, Event("rule_added", m.by, None, m.rule))
  /\ Done(s) /\ UNCHANGED <<directory, values>>

BeginDeleteRule(s, actor, i) ==
  /\ Admin(actor) /\ i \in LiveRules
  /\ Begin(s, "delete_rule", Matrix, {RuleOf(i)}, [by |-> actor, rule |-> i])

\* The DELETE of a row that is gone already changes nothing and is no error.
CommitDeleteRule(s) ==
  LET m == txn[s].more IN
  /\ Ready(s, "delete_rule")
  /\ rules' = Removed({m.rule})
  /\ Record(s, Matrix, Event("rule_deleted", m.by, [rules[m.rule] EXCEPT !.live = TRUE], None))
  /\ Done(s) /\ UNCHANGED <<directory, values>>

-----------------------------------------------------------------------------
(* Settings and exchange rates: one row for each key.  last counts the rows *)
(* that the key ever had.                                                   *)

NoRow == [row |-> 0, val |-> None, last |-> 0]

\* settings.get: a missing row means the default.
Effective(k) == IF values[k].row = 0 THEN Default[k] ELSE values[k].val

EntityOf(k) == <<k, IF values[k].row = 0 THEN values[k].last + 1 ELSE values[k].row>>

\* Mutant: the value is not compared with the registry.
Offered_Any(k, val) == TRUE

\* set_setting accepts a registered choice only.
Offered(k, val) == val \in Allowed[k]

BeginSetSetting(s, actor, k, val) ==
  /\ Admin(actor) /\ k \in SettingKeys /\ Offered(k, val)
  /\ Begin(s, "setting", EntityOf(k),
           IF values[k].row # 0 /\ values[k].val # val THEN {EntityOf(k)} ELSE {},
           [by |-> actor, key |-> k, row |-> values[k].row, from |-> Effective(k), to |-> val,
            wrote |-> values[k].row = 0 \/ values[k].val # val])

\* A rate is written anew for its month; the event is recorded in any case.
BeginSetRate(s, actor, k, val) ==
  /\ Admin(actor) /\ k \in RateKeys /\ val \in RatesMYR
  /\ values[k].last < MaxRows \/ values[k].row # 0
  /\ Begin(s, "rate", EntityOf(k),
           IF values[k].row # 0 /\ values[k].val # val THEN {EntityOf(k)} ELSE {},
           [by |-> actor, key |-> k, row |-> values[k].row,
            from |-> IF values[k].row = 0 THEN None ELSE values[k].val, to |-> val,
            wrote |-> values[k].row = 0 \/ values[k].val # val])

\* The row after the write: UNIQUE keys refuse a second insert, and an UPDATE
\* of a deleted row is refused as stale.
Writable(k, m) ==
  IF m.row = 0 THEN values[k].row = 0 /\ values[k].last < MaxRows
  ELSE m.wrote => values[k].row = m.row

Stored(k, m) ==
  IF m.row = 0 THEN [row |-> values[k].last + 1, val |-> m.to, last |-> values[k].last + 1]
  ELSE IF m.wrote THEN [values[k] EXCEPT !.val = m.to] ELSE values[k]

\* Mutant: a setting is recorded only when it is not the default.
Noted_Default(op, m) == op = "rate" \/ m.to # Default[m.key]

\* set_setting records a change of the effective value, upsert_rate every call.
Noted(op, m) == op = "rate" \/ m.from # m.to

CommitValue(s) ==
  LET t == txn[s]  m == t.more IN
  /\ \E op \in {"setting", "rate"} : Ready(s, op)
  /\ Writable(m.key, m)
  /\ values' = [values EXCEPT ![m.key] = Stored(m.key, m)]
  /\ IF Noted(t.op, m)
     THEN Record(s, <<m.key, IF m.row = 0 THEN Stored(m.key, m).row ELSE m.row>>,
                 Event(t.op, m.by, [val |-> m.from], [val |-> m.to]))
     ELSE UNCHANGED log
  /\ Done(s) /\ UNCHANGED <<directory, rules>>

\* delete_rate reads the tip first and deletes then: no lock is held between.
BeginDeleteRate(s, actor, k) ==
  /\ Admin(actor) /\ k \in RateKeys /\ values[k].row # 0
  /\ Begin(s, "delete_rate", EntityOf(k), {},
           [by |-> actor, key |-> k, row |-> values[k].row, from |-> values[k].val])

CommitDeleteRate(s) ==
  LET m == txn[s].more IN
  /\ Ready(s, "delete_rate")
  /\ txn[s].ent \notin Held(s)
  /\ values' = [values EXCEPT ![m.key] =
                  IF @.row = m.row THEN [row |-> 0, val |-> None, last |-> @.last] ELSE @]
  /\ Record(s, txn[s].ent, Event("delete_rate", m.by, [val |-> m.from], [val |-> None]))
  /\ Done(s) /\ UNCHANGED <<directory, rules>>

-----------------------------------------------------------------------------
(* Logins: the provider of a development build accepts the email of an      *)
(* active user without a password.                                          *)

Known(email) == \E u \in Existing : users[u].email = email /\ Active(u)

Answer(s) ==
  /\ txn[s].op = "login"
  /\ IF Known(txn[s].email) THEN Succeed(s) ELSE Fail(s)
  /\ UNCHANGED <<directory, config, log>>

LoginNext ==
  \/ \E s \in Sessions, ip \in IPs, email \in Emails :
       Check(s, ip, email) /\ UNCHANGED <<directory, config, log>>
  \/ \E s \in Sessions : Answer(s)
  \/ Tick /\ UNCHANGED <<directory, config, log>>

Init ==
  /\ SignInInit
  /\ users = [u \in Slots |-> IF u \in DOMAIN Seed
                              THEN [c \in DOMAIN NoUser |-> Seed[u][c]] ELSE NoUser]
  /\ grants = [u \in Slots |-> IF u \in DOMAIN Seed THEN Seed[u].clients ELSE {}]
  /\ rules = <<>>
  /\ values = [k \in Keys |-> NoRow]
  /\ log = [e \in Entities |-> <<>>]

Next ==
  \/ LoginNext
  \/ \E s \in Sessions, actor \in Slots :
       \/ \E target \in 0 .. MaxUsers, form \in Forms : BeginSaveUser(s, actor, target, form)
       \/ \E name \in DOMAIN Templates : BeginApplyTemplate(s, actor, name)
       \/ \E band \in Bands, module \in Modules : BeginAddRule(s, actor, band, module)
       \/ \E i \in 1 .. Len(rules) : BeginDeleteRule(s, actor, i)
       \/ \E k \in Keys :
            \/ \E val \in Inputs : BeginSetSetting(s, actor, k, val)
            \/ \E val \in RatesMYR : BeginSetRate(s, actor, k, val)
            \/ BeginDeleteRate(s, actor, k)
  \/ \E s \in Sessions :
       \/ Flush(s) \/ Abort(s)
       \/ CommitUser(s) \/ CommitTemplate(s) \/ CommitAddRule(s) \/ CommitDeleteRule(s)
       \/ CommitValue(s) \/ CommitDeleteRate(s)

Spec == Init /\ [][Next]_vars

-----------------------------------------------------------------------------
(* Properties.  Those that begin with Serial hold while requests do not    *)
(* overlap; the others hold whatever overlaps.                             *)

Serial == Cardinality(world.sessions) = 1

\* Every variable has its type.
TypeOK ==
  /\ world \in Worlds
  /\ \A u \in Slots :
       /\ users[u].status \in {"absent", "active", "inactive"}
       /\ Active(u) => users[u].role \in Roles /\ users[u].email # None
       /\ grants[u] \subseteq Clients
  /\ \A i \in DOMAIN rules : rules[i].live \in BOOLEAN /\ rules[i].module \in Modules
  /\ \A k \in Keys : values[k].row \in {0, values[k].last} /\ values[k].last \in 0 .. MaxRows
  /\ \A k \in SettingKeys : Effective(k) \in Allowed[k]
  /\ DOMAIN log = Entities /\ DOMAIN txn = Sessions

\* No sequence of edits locks a firm out of its own directory: an active
\* partner remains, who may edit everybody.  No promotion or demotion leaves a
\* user with access to nothing, or with grants of another role that would come
\* back into force on the next demotion.
AdminsRemain ==
  Serial =>
    /\ \E u \in Existing : Active(u) /\ users[u].role = "partner"
    /\ \A u \in Existing : Sees(u) # {} /\ (users[u].role \in FirmScoped => grants[u] = {})

\* What the events before the i-th of a chain last said of a column.
Said(chain, i, c, otherwise) ==
  LET before == {j \in DOMAIN chain : j < i /\ c \in DOMAIN Payload(chain[j]).to}
  IN IF before = {} THEN otherwise ELSE Payload(chain[Max(before)]).to[c]

ToldLast(e, c, otherwise) == Said(log[e], Len(log[e]) + 1, c, otherwise)

\* A chain whose events continue each other: each one names as the old value
\* what the one before it left.
Continuous(e, first) ==
  \A i \in DOMAIN log[e] : \A c \in DOMAIN Payload(log[e][i]).from :
    Payload(log[e][i]).from[c] = Said(log[e], i, c, first[c])

FirstRow(u) ==
  [c \in Columns \cup {"grants"} |->
     IF u \in DOMAIN Seed THEN Seed[u][IF c = "grants" THEN "clients" ELSE c]
     ELSE IF c = "grants" THEN {} ELSE NoUser[c]]

FirstValue(k) == [val |-> IF k \in SettingKeys THEN Default[k] ELSE None]

\* Every chain verifies: it did not fork and no link is broken.
ChainsVerify == Serial => \A e \in Entities : Verifies(log[e])

\* The audit trail tells the present state.  Read in the order of the commits,
\* the events leave every column of a user and every setting at its value,
\* whatever overlaps: the row lock orders the events like the updates.  While
\* requests do not overlap that holds for grants and rates too, each chain
\* verifies, and each event's old value is what the event before it left.
TrailTells ==
  /\ \A u \in Existing, c \in Columns :
       users[u][c] = ToldLast(UserOf(u), c, FirstRow(u)[c])
  /\ \A k \in SettingKeys : Effective(k) = ToldLast(<<k, 1>>, "val", Default[k])
  /\ ChainsVerify
  /\ Serial =>
       /\ \A u \in Existing : /\ grants[u] = ToldLast(UserOf(u), "grants", FirstRow(u).grants)
                              /\ Continuous(UserOf(u), FirstRow(u))
       /\ \A k \in Keys : \A row \in 1 .. values[k].last :
            /\ Continuous(<<k, row>>, FirstValue(k))
            /\ k \in RateKeys => ToldLast(<<k, row>>, "val", None) =
                                   IF values[k].row = row THEN values[k].val ELSE None

Did(what) == {i \in DOMAIN log[Matrix] : Payload(log[Matrix][i]).what = what}

\* "So exactly one rule ever governs an amount" (web/routes.py): while the
\* rules come from a template, no amount has two, and directly after a template
\* every amount has one, which asks for no less seniority than a smaller
\* amount's.  An amount that lost its rule is denied, unless it lies below all.
GovernedOnce ==
  Serial /\ Did("rule_added") = {} =>
    /\ \A a \in Amounts : Cardinality(Matching(rules, "eclaim", a)) <= 1
    /\ \A a \in Amounts : Matching(rules, "eclaim", a) = {} =>
         \/ SignedBy(rules, "eclaim", a) = {}
         \/ \A i \in LiveRules : rules[i].min # None /\ a < rules[i].min
    /\ Did("rule_deleted") = {} /\ Did("template") # {} =>
         \A a, b \in Amounts : a <= b =>
           /\ Matching(rules, "eclaim", a) # {}
           /\ SignedBy(rules, "eclaim", b) \subseteq SignedBy(rules, "eclaim", a)

\* "Those two rules alone guarantee every firm always keeps at least one active
\* partner/manager" (services/users.py).
FirmKeepsAdmin == \E u \in Existing : Admin(u)
=============================================================================
