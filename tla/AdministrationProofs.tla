------------------------ MODULE AdministrationProofs ------------------------
(***************************************************************************)
(* What holds of the directory of a firm, of its approval matrix, settings *)
(* and rates, of the audit trail of all of them and of the login throttle, *)
(* for every number of users, clients, forms, amounts asked for, sessions  *)
(* and logins.                                                             *)
(*                                                                         *)
(* AInv and CInv carry what save_user and the chains need, TypedInv and    *)
(* Telling (TInv) the types and what the chains tell of the rows, Ruling   *)
(* (GInv) what the last template left of the matrix, and ThrottleInv how   *)
(* the buckets relate to the failures.                                     *)
(***************************************************************************)
EXTENDS Administration, AuditChainProofs, FiniteSetTheorems

-----------------------------------------------------------------------------
(* The inductive invariant.                                                *)

\* An active partner among the rows, other than row u.
LeaderBut(us, u) ==
  \E v \in Slots \ {u} : us[v].status = "active" /\ us[v].role = "partner"

\* The rows that exist are the first n; the others are as they were never
\* inserted.
Filled(us, gs) ==
  /\ DOMAIN us = Slots /\ DOMAIN gs = Slots
  /\ \E n \in Nat : {u \in Slots : us[u].status # "absent"} = 1 .. n
  /\ \A u \in Slots : /\ us[u].status = "absent" => us[u] = NoUser /\ gs[u] = {}
                      /\ DOMAIN us[u] = Columns

\* A row that save_user leaves: a role, and access that goes with it.
Proper(row, clients) ==
  /\ row.role \in Roles /\ row.status \in {"active", "inactive"}
  /\ IF row.role \in FirmScoped THEN clients = {} ELSE clients # {}

\* What a pending save_user means to leave of its user, and that an active
\* partner will remain.
Prepared(t, us, gs) ==
  LET m == t.more IN
  /\ m.user \in {0} \cup {u \in Slots : us[u].status # "absent"}
  /\ m.old = IF m.user = 0 THEN NoUser ELSE us[m.user]
  /\ m.changed = {c \in Columns : m.old[c] # m.new[c]}
  /\ Proper(m.new, m.wanted)
  /\ (m.new.status = "active" /\ m.new.role = "partner") \/ LeaderBut(us, m.user)
  /\ t.stage = "flushed" => t.had = IF m.user = 0 THEN {} ELSE gs[m.user]

Governed ==
  /\ Filled(users, grants)
  /\ \A u \in Existing : Proper(users[u], grants[u])
  /\ \E u \in Slots : users[u].status = "active" /\ users[u].role = "partner"
  /\ \A s \in Sessions : txn[s].op = "user" => Prepared(txn[s], users, grants)

\* Only the sessions of the world ask for anything.
Alone == DOMAIN txn = Sessions /\ \A s \in Sessions \ world.sessions : txn[s] = Idle

AInv == world \in Worlds /\ Alone /\ (Serial => Governed)

\* While requests do not overlap, one at most is pending.
LEMMA OneSession ==
  ASSUME AInv, Serial, NEW s \in Sessions, NEW r \in Sessions,
         txn[s] # Idle, txn[r] # Idle
  PROVE  s = r
  <1>1. IsFiniteSet(world.sessions)
    BY AdminAssumption DEF AInv
  <1>2. PICK x : world.sessions = {x}
    BY <1>1, FS_Singleton DEF Serial
  <1>3. QED
    BY <1>2 DEF AInv, Alone

LEMMA IdleIsNone == Idle.op # "user"
  BY DEF Idle

\* A step that leaves the users, the grants and the world, and that prepares
\* nothing new for a user, keeps the invariant.
LEMMA Elsewhere ==
  ASSUME AInv, NEW s \in Sessions, UNCHANGED <<world, users, grants>>,
         NEW t, txn' = [txn EXCEPT ![s] = t], t = Idle \/ s \in world.sessions,
         (t.op = "user" /\ Serial) => Prepared(t, users, grants)
  PROVE  AInv'
  <1>1. world' \in Worlds /\ Alone'
    BY DEF AInv, Alone
  <1>2. ASSUME Serial PROVE Governed'
    <2>1. Governed
      BY <1>2 DEF AInv
    <2>2. \A r \in Sessions : txn'[r] = IF r = s THEN t ELSE txn[r]
      BY DEF AInv, Alone
    <2>3. \A r \in Sessions : txn'[r].op = "user" => Prepared(txn'[r], users', grants')
      BY <1>2, <2>1, <2>2 DEF Governed
    <2>4. QED
      BY <2>1, <2>3 DEF Governed, Existing
  <1>3. QED
    BY <1>1, <1>2 DEF AInv, Serial

-----------------------------------------------------------------------------
(* One lemma for each kind of step.                                        *)

\* Who may edit whom leaves an active partner: the actor himself, when the row
\* edited is the last other one.
LEMMA LeaderStays ==
  ASSUME Governed, NEW actor \in Slots, NEW target \in Existing \cup {0}, NEW form \in Forms,
         Admin(actor), MayAssign(actor, target, form), KeepsSelf(actor, target, form)
  PROVE  \/ form.status = "active" /\ form.role = "partner"
         \/ LeaderBut(users, target)
  <1>1. PICK p \in Slots : users[p].status = "active" /\ users[p].role = "partner"
    BY DEF Governed
  <1>2. CASE p # target
    BY <1>1, <1>2 DEF LeaderBut
  <1>3. CASE p = target
    <2>1. p # 0 /\ actor \in Existing
      BY DEF Slots, Admin, Active, Existing
    <2>2. users[actor].role \in {"partner", "manager"}
      BY DEF Admin, FirmScoped
    <2>3. Rank["partner"] <= Rank[users[actor].role]
      BY <1>1, <1>3, <2>1 DEF MayAssign
    <2>4. users[actor].role = "partner"
      BY <2>2, <2>3 DEF Rank
    <2>5. users[actor].status = "active"
      BY DEF Admin, Active
    <2>6. CASE actor = target
      BY <2>4, <2>6 DEF KeepsSelf
    <2>7. CASE actor # target
      BY <2>4, <2>5, <2>7 DEF LeaderBut
    <2>8. QED
      BY <2>6, <2>7
  <1>4. QED
    BY <1>2, <1>3

LEMMA BeginUserSound ==
  ASSUME AInv, NEW s \in Sessions, NEW actor \in Slots, NEW target \in 0 .. MaxUsers,
         NEW form \in Forms, BeginSaveUser(s, actor, target, form)
  PROVE  AInv'
  <1> DEFINE new == [email |-> form.email, role |-> form.role, limit |-> form.limit,
                     status |-> form.status]
             old == IF target = 0 THEN NoUser ELSE users[target]
             changed == {c \in Columns : old[c] # new[c]}
             m == [user |-> target, by |-> actor, old |-> old, new |-> new,
                   changed |-> changed, wanted |-> Wanted(form)]
             ent == UserOf(IF target = 0 THEN NextUser ELSE target)
             locks == IF target = 0 \/ changed = {} THEN {} ELSE {UserOf(target)}
             t == [op |-> "user", ent |-> ent, locks |-> locks, stage |-> "read", more |-> m]
  <1>1. /\ txn' = [txn EXCEPT ![s] = t] /\ s \in world.sessions
        /\ UNCHANGED <<world, users, grants>>
    BY DEF BeginSaveUser, Begin, Asks, directory
  <1>2. ASSUME Serial PROVE Prepared(t, users, grants)
    <2>1. Governed
      BY <1>2 DEF AInv
    <2>2. /\ Admin(actor) /\ target \in Existing \cup {0} /\ MayAssign(actor, target, form)
          /\ KeepsSelf(actor, target, form)
          /\ form.role \notin FirmScoped => form.clients # {}
      BY DEF BeginSaveUser
    <2>3. \/ form.status = "active" /\ form.role = "partner"
          \/ LeaderBut(users, target)
      BY <2>1, <2>2, LeaderStays
    <2>4. Proper(new, Wanted(form))
      BY <2>2, AdminAssumption DEF Proper, Wanted
    <2>5. /\ t.more = m /\ t.stage = "read" /\ m.user = target /\ m.old = old /\ m.new = new
          /\ m.changed = changed /\ m.wanted = Wanted(form)
          /\ new.status = form.status /\ new.role = form.role
      OBVIOUS
    <2>6. target \in {0} \cup {u \in Slots : users[u].status # "absent"}
      BY <2>2 DEF Existing
    <2> HIDE DEF t, m, new, old, changed
    <2>7. changed = {c \in Columns : old[c] # new[c]}
      BY DEF changed
    <2>8. old = IF target = 0 THEN NoUser ELSE users[target]
      BY DEF old
    <2>9. QED
      BY <2>3, <2>4, <2>5, <2>6, <2>7, <2>8 DEF Prepared
  <1> HIDE DEF t
  <1>3. QED
    BY <1>1, <1>2, Elsewhere

LEMMA BeginElsewhereSound ==
  ASSUME AInv, NEW s \in Sessions, NEW op, NEW ent, NEW locks, NEW more, op # "user",
         Begin(s, op, ent, locks, more)
  PROVE  AInv'
  <1> DEFINE t == [op |-> op, ent |-> ent, locks |-> locks, stage |-> "read", more |-> more]
  <1>1. /\ txn' = [txn EXCEPT ![s] = t] /\ s \in world.sessions /\ t.op # "user"
        /\ UNCHANGED <<world, users, grants>>
    BY DEF Begin, Asks, directory
  <1> HIDE DEF t
  <1>2. QED
    BY <1>1, Elsewhere

LEMMA FlushSound ==
  ASSUME AInv, NEW s \in Sessions, Flush(s)
  PROVE  AInv'
  <1>1. PICK tip \in Tips(log[txn[s].ent]) :
          txn' = [txn EXCEPT ![s] =
            [op |-> txn[s].op, ent |-> txn[s].ent, locks |-> txn[s].locks,
             stage |-> "flushed", more |-> txn[s].more, tip |-> tip,
             had |-> IF txn[s].op = "user" /\ txn[s].more.user # 0
                     THEN grants[txn[s].more.user] ELSE {}]]
    BY DEF Flush
  <1> DEFINE t == [op |-> txn[s].op, ent |-> txn[s].ent, locks |-> txn[s].locks,
                   stage |-> "flushed", more |-> txn[s].more, tip |-> tip,
                   had |-> IF txn[s].op = "user" /\ txn[s].more.user # 0
                           THEN grants[txn[s].more.user] ELSE {}]
  <1>2. UNCHANGED <<world, users, grants>> /\ s \in world.sessions
    BY DEF Flush, directory, AInv, Alone
  <1>3. ASSUME Serial, t.op = "user" PROVE Prepared(t, users, grants)
    <2>1. txn[s].op = "user" /\ Prepared(txn[s], users, grants)
      BY <1>3 DEF AInv, Governed
    <2>2. t.more = txn[s].more
          /\ t.had = IF txn[s].more.user # 0 THEN grants[txn[s].more.user] ELSE {}
      BY <2>1
    <2> HIDE DEF t
    <2>3. QED
      BY <2>1, <2>2 DEF Prepared
  <1>4. txn' = [txn EXCEPT ![s] = t]
    BY <1>1
  <1> HIDE DEF t
  <1>5. QED
    BY <1>2, <1>3, <1>4, Elsewhere

\* A new user takes the first row that was never inserted.
LEMMA NextIsFree ==
  ASSUME Filled(users, grants), NEW n \in Nat, Existing = 1 .. n
  PROVE  NextUser = n + 1
  <1>1. Cardinality(1 .. n) = n
    BY FS_Interval
  <1>2. QED
    BY <1>1 DEF NextUser

\* A save_user that commits, while requests do not overlap, finds its user as it
\* read him.
LEMMA UserInHand ==
  ASSUME AInv, Serial, NEW s \in Sessions, CommitUser(s),
         NEW m, m = txn[s].more, NEW u, u = IF m.user = 0 THEN NextUser ELSE m.user
  PROVE  /\ Governed /\ Prepared(txn[s], users, grants)
         /\ \E n \in Nat : /\ Existing = 1 .. n /\ m.user \in {0} \cup 1 .. n
                           /\ u = IF m.user = 0 THEN n + 1 ELSE m.user
         /\ m.user = 0 => u \notin Existing
         /\ m.old = users[u] /\ txn[s].had = grants[u]
  <1>1. txn[s].op = "user" /\ txn[s].stage = "flushed" /\ u \in Slots
    BY DEF CommitUser, Ready
  <1>2. Governed /\ Prepared(txn[s], users, grants) /\ Filled(users, grants)
    BY <1>1 DEF AInv, Governed
  <1>3. PICK n \in Nat : Existing = 1 .. n
    BY <1>2 DEF Filled, Existing
  <1>4. u = IF m.user = 0 THEN n + 1 ELSE m.user
    BY <1>2, <1>3, NextIsFree
  <1>5. m.user \in {0} \cup 1 .. n
    BY <1>2, <1>3 DEF Prepared, Existing
  <1>6. m.user = 0 => u \notin Existing
    BY <1>3, <1>4
  <1>7. m.old = users[u] /\ txn[s].had = grants[u]
    <2>1. CASE m.user = 0
      BY <2>1, <1>1, <1>2, <1>6 DEF Prepared, Filled, Existing
    <2>2. CASE m.user # 0
      BY <2>2, <1>1, <1>2 DEF Prepared
    <2>3. QED
      BY <2>1, <2>2
  <1>8. QED
    BY <1>2, <1>3, <1>4, <1>5, <1>6, <1>7

LEMMA CommitUserSound ==
  ASSUME AInv, NEW s \in Sessions, CommitUser(s)
  PROVE  AInv'
  <1> DEFINE t == txn[s]
             m == t.more
             u == IF m.user = 0 THEN NextUser ELSE m.user
             added == m.wanted \ t.had
  <1>1. /\ t.op = "user" /\ t.stage = "flushed" /\ u \in Slots
        /\ users' = [users EXCEPT ![u] = [c \in DOMAIN NoUser |->
                                            IF c \in m.changed THEN m.new[c] ELSE @[c]]]
        /\ grants' = [grants EXCEPT ![u] = (@ \ (t.had \ m.wanted)) \cup added]
        /\ txn' = [txn EXCEPT ![s] = Idle] /\ world' = world
    BY DEF CommitUser, Ready, Done
  <1>2. world' \in Worlds /\ Alone'
    BY <1>1 DEF AInv, Alone
  <1>3. ASSUME Serial PROVE Governed'
    <2>1. /\ Governed /\ Prepared(t, users, grants)
          /\ \E n \in Nat : /\ Existing = 1 .. n /\ m.user \in {0} \cup 1 .. n
                            /\ u = IF m.user = 0 THEN n + 1 ELSE m.user
          /\ m.user = 0 => u \notin Existing
          /\ m.old = users[u] /\ t.had = grants[u]
      BY <1>3, UserInHand
    <2>2. PICK n \in Nat : /\ Existing = 1 .. n /\ m.user \in {0} \cup 1 .. n
                           /\ u = IF m.user = 0 THEN n + 1 ELSE m.user
      BY <2>1
    <2>3. Filled(users, grants)
      BY <2>1 DEF Governed
    <2>4. /\ \A c \in Columns : m.new[c] = m.old[c] \/ c \in m.changed
          /\ Proper(m.new, m.wanted)
          /\ (m.new.status = "active" /\ m.new.role = "partner") \/ LeaderBut(users, m.user)
      BY <2>1 DEF Prepared
    <2> HIDE DEF m, t, u
    <2>5. DOMAIN users = Slots /\ DOMAIN grants = Slots /\ DOMAIN NoUser = Columns
      BY <2>3 DEF Filled, NoUser, Columns
    <2>6. /\ DOMAIN users'[u] = Columns
          /\ \A c \in Columns : users'[u][c] = m.new[c]
      BY <1>1, <2>1, <2>4, <2>5
    <2>7. grants'[u] = m.wanted
      BY <1>1, <2>1, <2>5
    <2>8. /\ \A v \in Slots \ {u} : users'[v] = users[v] /\ grants'[v] = grants[v]
          /\ DOMAIN users' = Slots /\ DOMAIN grants' = Slots
      BY <1>1, <2>5
    <2>9. users'[u].status = m.new.status /\ users'[u].role = m.new.role
      BY <2>6 DEF Columns
    <2>10. Proper(users'[u], grants'[u])
      BY <2>4, <2>7, <2>9 DEF Proper
    <2>11. users'[u].status # "absent"
      BY <2>10 DEF Proper
    <2>12. Existing' = Existing \cup {u}
      BY <1>1, <2>8, <2>11 DEF Existing
    <2>13. \E k \in Nat : Existing' = 1 .. k
      <3>1. CASE m.user = 0
        <4>1. u = n + 1
          BY <3>1, <2>2
        <4>2. Existing' = 1 .. n + 1
          BY <4>1, <2>2, <2>12
        <4>3. QED
          BY <4>2
      <3>2. CASE m.user # 0
        BY <3>2, <2>2, <2>12
      <3>3. QED
        BY <3>1, <3>2
    <2>14. Filled(users', grants')
      BY <2>3, <2>6, <2>8, <2>11, <2>13 DEF Filled, Existing
    <2>15. \A v \in Existing' : Proper(users'[v], grants'[v])
      BY <2>1, <2>8, <2>10, <2>12 DEF Governed, Existing
    <2>16. \E v \in Slots : users'[v].status = "active" /\ users'[v].role = "partner"
      <3>1. CASE m.new.status = "active" /\ m.new.role = "partner"
        BY <3>1, <1>1, <2>9 DEF u
      <3>2. CASE LeaderBut(users, m.user)
        <4>1. PICK v \in Slots \ {m.user} : users[v].status = "active" /\ users[v].role = "partner"
          BY <3>2 DEF LeaderBut
        <4>2. v # u
          BY <4>1, <2>1, <2>2 DEF Existing
        <4>3. QED
          BY <4>1, <4>2, <2>8
      <3>3. QED
        BY <3>1, <3>2, <2>4
    <2>17. \A r \in Sessions : txn'[r].op # "user"
      <3>1. \A r \in Sessions \ {s} : txn[r] = Idle
        BY <1>1, <1>3, OneSession, IdleIsNone DEF t
      <3>2. QED
        BY <1>1, <3>1, IdleIsNone DEF AInv, Alone
    <2>18. QED
      BY <2>14, <2>15, <2>16, <2>17 DEF Governed
  <1>4. QED
    BY <1>2, <1>3, <1>1 DEF AInv, Serial

\* The steps that end a request and leave the directory alone.
LEMMA EndSound ==
  ASSUME AInv, NEW s \in Sessions, UNCHANGED <<users, grants>>, world' = world,
         txn' = [txn EXCEPT ![s] = Idle]
  PROVE  AInv'
  BY Elsewhere, IdleIsNone

LEMMA LoginSound ==
  ASSUME AInv, LoginNext
  PROVE  AInv'
  <1>1. ASSUME NEW s \in Sessions, NEW ip \in IPs, NEW email \in Emails,
               Check(s, ip, email), UNCHANGED <<directory, config, log>>
        PROVE  AInv'
    <2> DEFINE t == [op |-> "login", ip |-> ip, email |-> email]
    <2>1. s \in world.sessions /\ t.op # "user" /\ UNCHANGED <<world, users, grants>>
      BY <1>1 DEF Check, Asks, directory
    <2>2. txn' = txn \/ txn' = [txn EXCEPT ![s] = t]
      BY <1>1 DEF Check
    <2>3. CASE txn' = txn
      BY <2>1, <2>3 DEF AInv, Alone, Serial, Governed, Existing
    <2> HIDE DEF t
    <2>4. CASE txn' = [txn EXCEPT ![s] = t]
      BY <2>1, <2>4, Elsewhere
    <2>5. QED
      BY <2>2, <2>3, <2>4
  <1>2. ASSUME NEW s \in Sessions, Answer(s)
        PROVE  AInv'
    <2>1. UNCHANGED <<users, grants>> /\ world' = world /\ txn' = [txn EXCEPT ![s] = Idle]
      BY <1>2 DEF Answer, Succeed, Fail, directory
    <2>2. QED
      BY <2>1, EndSound
  <1>3. ASSUME Tick, UNCHANGED <<directory, config, log>>
        PROVE  AInv'
    BY <1>3 DEF Tick, directory, AInv, Alone, Serial, Governed, Existing
  <1>4. QED
    BY <1>1, <1>2, <1>3 DEF LoginNext

-----------------------------------------------------------------------------
(* The invariant holds from the first state on.                            *)

LEMMA NoUserRow == NoUser.status = "absent" /\ DOMAIN NoUser = Columns
  BY DEF NoUser, Columns

LEMMA AInvInit ==
  ASSUME Init
  PROVE  AInv
  <1>1. \A s \in Sessions : txn[s] = Idle
    BY DEF Init, SignInInit
  <1>2. world \in Worlds /\ Alone
    BY <1>1 DEF Init, SignInInit, Alone
  <1>3. \A u \in Slots :
          /\ u \in DOMAIN Seed => /\ users[u] = [c \in Columns |-> Seed[u][c]]
                                 /\ grants[u] = Seed[u].clients
          /\ u \notin DOMAIN Seed => users[u] = NoUser /\ grants[u] = {}
    BY DEF Init, NoUser, Columns
  <1>4. PICK n \in 0 .. MaxUsers : DOMAIN Seed = 1 .. n
    BY AdminAssumption
  <1>5. MaxUsers \in Nat
    BY AdminAssumption
  <1>6. ASSUME NEW u \in DOMAIN Seed
        PROVE  /\ u \in Slots /\ users[u].status = Seed[u].status /\ users[u].role = Seed[u].role
               /\ Proper(users[u], grants[u])
    <2>1. u \in Slots
      BY <1>4, <1>5 DEF Slots
    <2>2. users[u].status = Seed[u].status /\ users[u].role = Seed[u].role
      BY <2>1, <1>3 DEF Columns
    <2>3. /\ Seed[u].role \in Roles /\ Seed[u].status \in {"active", "inactive"}
          /\ Seed[u].role \in FirmScoped <=> Seed[u].clients = {}
      BY AdminAssumption
    <2>4. QED
      BY <2>1, <2>2, <2>3, <1>3 DEF Proper
  <1>7. {u \in Slots : users[u].status # "absent"} = DOMAIN Seed
    <2>1. \A u \in Slots : u \notin DOMAIN Seed => users[u].status = "absent"
      BY <1>3, NoUserRow
    <2>2. \A u \in DOMAIN Seed : u \in Slots /\ users[u].status # "absent"
      BY <1>6 DEF Proper
    <2>3. QED
      BY <2>1, <2>2
  <1>8. Filled(users, grants)
    <2>1. DOMAIN users = Slots /\ DOMAIN grants = Slots
      BY DEF Init
    <2>2. \A u \in Slots : DOMAIN users[u] = Columns
      BY <1>3, NoUserRow
    <2>3. \A u \in Slots : users[u].status = "absent" => users[u] = NoUser /\ grants[u] = {}
      BY <1>3, <1>7
    <2>4. \E k \in Nat : {u \in Slots : users[u].status # "absent"} = 1 .. k
      <3>1. n \in Nat /\ {u \in Slots : users[u].status # "absent"} = 1 .. n
        BY <1>4, <1>5, <1>7
      <3>2. QED
        BY <3>1
    <2>5. QED
      BY <2>1, <2>2, <2>3, <2>4 DEF Filled
  <1>9. \E u \in Slots : users[u].status = "active" /\ users[u].role = "partner"
    <2>1. PICK i \in DOMAIN Seed : Seed[i].role = "partner" /\ Seed[i].status = "active"
      BY AdminAssumption
    <2>2. QED
      BY <2>1, <1>6
  <1>10. \A u \in Existing : Proper(users[u], grants[u])
    BY <1>6, <1>7 DEF Existing
  <1>11. QED
    BY <1>1, <1>2, <1>8, <1>9, <1>10, IdleIsNone DEF AInv, Governed

LEMMA AInvStep ==
  ASSUME AInv, [Next]_vars
  PROVE  AInv'
  <1>1. CASE LoginNext
    BY <1>1, LoginSound
  <1>2. ASSUME NEW s \in Sessions, NEW actor \in Slots, NEW target \in 0 .. MaxUsers,
               NEW form \in Forms, BeginSaveUser(s, actor, target, form)
        PROVE  AInv'
    BY <1>2, BeginUserSound
  <1>3. ASSUME NEW s \in Sessions, NEW actor \in Slots, NEW name \in DOMAIN Templates,
               BeginApplyTemplate(s, actor, name)
        PROVE  AInv'
    BY <1>3, BeginElsewhereSound DEF BeginApplyTemplate
  <1>4. ASSUME NEW s \in Sessions, NEW actor \in Slots, NEW band \in Bands,
               NEW module \in Modules, BeginAddRule(s, actor, band, module)
        PROVE  AInv'
    BY <1>4, BeginElsewhereSound DEF BeginAddRule
  <1>5. ASSUME NEW s \in Sessions, NEW actor \in Slots, NEW i \in 1 .. Len(rules),
               BeginDeleteRule(s, actor, i)
        PROVE  AInv'
    BY <1>5, BeginElsewhereSound DEF BeginDeleteRule
  <1>6. ASSUME NEW s \in Sessions, NEW actor \in Slots, NEW k \in Keys, NEW val,
               \/ BeginSetSetting(s, actor, k, val)
               \/ BeginSetRate(s, actor, k, val)
               \/ BeginDeleteRate(s, actor, k)
        PROVE  AInv'
    BY <1>6, BeginElsewhereSound DEF BeginSetSetting, BeginSetRate, BeginDeleteRate
  <1>7. ASSUME NEW s \in Sessions, Flush(s) PROVE AInv'
    BY <1>7, FlushSound
  <1>8. ASSUME NEW s \in Sessions, Abort(s) PROVE AInv'
    BY <1>8, EndSound DEF Abort, Done, directory
  <1>9. ASSUME NEW s \in Sessions, CommitUser(s) PROVE AInv'
    BY <1>9, CommitUserSound
  <1>10. ASSUME NEW s \in Sessions,
                \/ CommitTemplate(s) \/ CommitAddRule(s) \/ CommitDeleteRule(s)
                \/ CommitValue(s) \/ CommitDeleteRate(s)
         PROVE  AInv'
    <2>1. UNCHANGED <<users, grants>> /\ world' = world /\ txn' = [txn EXCEPT ![s] = Idle]
      BY <1>10 DEF CommitTemplate, CommitAddRule, CommitDeleteRule, CommitValue,
                   CommitDeleteRate, Done, directory
    <2>2. QED
      BY <2>1, EndSound
  <1>11. CASE UNCHANGED vars
    BY <1>11 DEF vars, AInv, Alone, Serial, Governed, Existing
  <1>12. QED
    BY <1>1, <1>2, <1>3, <1>4, <1>5, <1>6, <1>7, <1>8, <1>9, <1>10, <1>11 DEF Next

\* While requests do not overlap, no sequence of edits leaves the firm without
\* an active partner, or a user with access to nothing or with grants that his
\* role does not use (the guards of save_user, and its clearing of grants).
THEOREM AdminsStay == Spec => []AdminsRemain
  <1>1. AInv => AdminsRemain
    <2>1. ASSUME AInv, Serial, NEW u \in Existing
          PROVE  Sees(u) # {} /\ (users[u].role \in FirmScoped => grants[u] = {})
      BY <2>1, AdminAssumption DEF AInv, Governed, Proper, Sees
    <2>2. ASSUME AInv, Serial
          PROVE  \E u \in Existing : Active(u) /\ users[u].role = "partner"
      BY <2>2 DEF AInv, Governed, Existing, Active
    <2>3. QED
      BY <2>1, <2>2 DEF AdminsRemain
  <1>2. QED
    BY <1>1, AInvInit, AInvStep, PTL DEF Spec
-----------------------------------------------------------------------------
(* The audit chains.                                                       *)

\* The entity that the event of a pending request is about is the one whose tip
\* it reads, and the tip is still one.
Aimed(t, us, vs, chains) ==
  /\ t.op = "user" =>
       t.ent = UserOf(IF t.more.user = 0
                      THEN Cardinality({u \in Slots : us[u].status # "absent"}) + 1
                      ELSE t.more.user)
  /\ t.op \in {"template", "add_rule", "delete_rule"} => t.ent = Matrix
  /\ t.op \in {"setting", "rate"} =>
       t.ent = <<t.more.key, IF t.more.row = 0 THEN vs[t.more.key].last + 1 ELSE t.more.row>>
  /\ t.op \notin {"idle", "login"} /\ t.stage = "flushed" => t.tip \in Tips(chains[t.ent])

Chained ==
  /\ \A e \in DOMAIN log : Linear(log[e])
  /\ \A s \in Sessions : Aimed(txn[s], users, values, log)

CInv == AInv /\ DOMAIN log = Entities /\ (Serial => Chained)

LEMMA IdleAims == \A us, vs, chains : Aimed(Idle, us, vs, chains)
  BY DEF Idle, Aimed

\* A step of one session that leaves the rows and the chains alone.
LEMMA Prepares ==
  ASSUME CInv, AInv', NEW s \in Sessions, UNCHANGED <<world, users, values, log>>,
         NEW t, txn' = [txn EXCEPT ![s] = t], Serial => Aimed(t, users, values, log)
  PROVE  CInv'
  <1>1. ASSUME Serial PROVE Chained'
    <2>1. \A r \in Sessions : txn'[r] = IF r = s THEN t ELSE txn[r]
      BY DEF CInv, AInv, Alone
    <2>2. QED
      BY <1>1, <2>1 DEF CInv, Chained
  <1>2. QED
    BY <1>1 DEF CInv, Serial

\* A step that ends a request: the chains keep their form, and no other request
\* is under way.
LEMMA Concludes ==
  ASSUME CInv, AInv', NEW s \in Sessions, txn[s] # Idle, world' = world,
         txn' = [txn EXCEPT ![s] = Idle], DOMAIN log' = DOMAIN log,
         Serial => \A e \in DOMAIN log : Linear(log'[e])
  PROVE  CInv'
  <1>1. ASSUME Serial PROVE Chained'
    <2>1. \A r \in Sessions \ {s} : txn[r] = Idle
      BY <1>1, OneSession DEF CInv
    <2>2. \A r \in Sessions : txn'[r] = Idle
      BY <2>1 DEF CInv, AInv, Alone
    <2>3. QED
      BY <1>1, <2>2, IdleAims DEF Chained
  <1>2. QED
    BY <1>1 DEF CInv, Serial

\* Recording behind the tip that was read.
LEMMA RecordIsLinear ==
  ASSUME CInv, Serial, NEW s \in Sessions, txn[s].op \notin {"idle", "login"},
         txn[s].stage = "flushed", NEW event, Record(s, txn[s].ent, event)
  PROVE  DOMAIN log' = DOMAIN log /\ \A e \in DOMAIN log : Linear(log'[e])
  <1> DEFINE ent == txn[s].ent
  <1>1. log' = [log EXCEPT ![ent] = Extended(log[ent], txn[s].tip, event)]
    BY DEF Record
  <1>2. Chained /\ txn[s].tip \in Tips(log[ent])
    BY DEF CInv, Chained, Aimed
  <1>3. ent \in DOMAIN log => Linear(Extended(log[ent], txn[s].tip, event))
    BY <1>2, ExtendedIsLinear DEF Chained
  <1>4. QED
    BY <1>1, <1>2, <1>3 DEF Chained

LEMMA BeginChained ==
  ASSUME CInv, AInv', NEW s \in Sessions, NEW op, NEW ent, NEW locks, NEW more,
         Begin(s, op, ent, locks, more),
         op = "user" => ent = UserOf(IF more.user = 0 THEN NextUser ELSE more.user),
         op \in {"template", "add_rule", "delete_rule"} => ent = Matrix,
         op \in {"setting", "rate"} =>
           ent = <<more.key, IF more.row = 0 THEN values[more.key].last + 1 ELSE more.row>>
  PROVE  CInv'
  <1> DEFINE t == [op |-> op, ent |-> ent, locks |-> locks, stage |-> "read", more |-> more]
  <1>1. txn' = [txn EXCEPT ![s] = t] /\ UNCHANGED <<world, users, values, log>>
    BY DEF Begin, directory, config
  <1>2. t.op = op /\ t.ent = ent /\ t.more = more /\ t.stage = "read"
    OBVIOUS
  <1> HIDE DEF t
  <1>3. Aimed(t, users, values, log)
    BY <1>2 DEF Aimed, NextUser, Existing
  <1>4. QED
    BY <1>1, <1>3, Prepares

LEMMA FlushChained ==
  ASSUME CInv, AInv', NEW s \in Sessions, Flush(s)
  PROVE  CInv'
  <1>1. PICK tip \in Tips(log[txn[s].ent]) :
          txn' = [txn EXCEPT ![s] =
            [op |-> txn[s].op, ent |-> txn[s].ent, locks |-> txn[s].locks,
             stage |-> "flushed", more |-> txn[s].more, tip |-> tip,
             had |-> IF txn[s].op = "user" /\ txn[s].more.user # 0
                     THEN grants[txn[s].more.user] ELSE {}]]
    BY DEF Flush
  <1> DEFINE t == [op |-> txn[s].op, ent |-> txn[s].ent, locks |-> txn[s].locks,
                   stage |-> "flushed", more |-> txn[s].more, tip |-> tip,
                   had |-> IF txn[s].op = "user" /\ txn[s].more.user # 0
                           THEN grants[txn[s].more.user] ELSE {}]
  <1>2. txn' = [txn EXCEPT ![s] = t] /\ UNCHANGED <<world, users, values, log>>
    BY <1>1 DEF Flush, directory, config
  <1>3. t.op = txn[s].op /\ t.ent = txn[s].ent /\ t.more = txn[s].more /\ t.tip = tip
    OBVIOUS
  <1> HIDE DEF t
  <1>4. Serial => Aimed(t, users, values, log)
    BY <1>1, <1>3 DEF CInv, Chained, Aimed
  <1>5. QED
    BY <1>2, <1>4, Prepares

\* A commit records behind the tip of its own request, or not at all.
LEMMA CommitChained ==
  ASSUME CInv, AInv', NEW s \in Sessions,
         \/ CommitUser(s) \/ CommitTemplate(s) \/ CommitAddRule(s) \/ CommitDeleteRule(s)
         \/ CommitValue(s) \/ CommitDeleteRate(s)
  PROVE  CInv'
  <1> DEFINE t == txn[s]
             m == t.more
             u == IF m.user = 0 THEN NextUser ELSE m.user
  <1>1. /\ t.op \in {"user", "template", "add_rule", "delete_rule", "setting", "rate",
                     "delete_rate"}
        /\ t.stage = "flushed" /\ world' = world /\ txn' = [txn EXCEPT ![s] = Idle]
    BY DEF CommitUser, CommitTemplate, CommitAddRule, CommitDeleteRule, CommitValue,
           CommitDeleteRate, Ready, Done
  <1>2. t # Idle
    BY <1>1 DEF Idle
  <1>3. Serial => log' = log \/ \E event : Record(s, t.ent, event)
    <2> SUFFICES ASSUME Serial PROVE log' = log \/ \E event : Record(s, t.ent, event)
      OBVIOUS
    <2>1. Aimed(t, users, values, log)
      BY DEF CInv, Chained
    <2>2. CASE CommitUser(s)
      <3>1. t.op = "user" /\ (log' = log \/ \E event : Record(s, UserOf(u), event))
        BY <2>2 DEF CommitUser, Ready
      <3>2. t.ent = UserOf(u)
        BY <2>1, <3>1 DEF Aimed, NextUser, Existing
      <3>3. QED
        BY <3>1, <3>2
    <2>3. CASE CommitTemplate(s) \/ CommitAddRule(s) \/ CommitDeleteRule(s)
      <3>1. /\ t.op \in {"template", "add_rule", "delete_rule"}
            /\ \E event : Record(s, Matrix, event)
        BY <2>3 DEF CommitTemplate, CommitAddRule, CommitDeleteRule, Ready
      <3>2. QED
        BY <2>1, <3>1 DEF Aimed
    <2>4. CASE CommitValue(s)
      <3> DEFINE ent == <<m.key, IF m.row = 0 THEN Stored(m.key, m).row ELSE m.row>>
      <3>1. t.op \in {"setting", "rate"} /\ (log' = log \/ \E event : Record(s, ent, event))
        BY <2>4 DEF CommitValue, Ready
      <3>2. m.row = 0 => Stored(m.key, m).row = values[m.key].last + 1
        BY DEF Stored
      <3>3. t.ent = ent
        BY <2>1, <3>1, <3>2 DEF Aimed
      <3>4. QED
        BY <3>1, <3>3
    <2>5. CASE CommitDeleteRate(s)
      BY <2>5 DEF CommitDeleteRate
    <2>6. QED
      BY <2>2, <2>3, <2>4, <2>5
  <1>4. DOMAIN log' = DOMAIN log
    BY DEF CommitUser, CommitTemplate, CommitAddRule, CommitDeleteRule, CommitValue,
           CommitDeleteRate, Record
  <1>5. ASSUME Serial PROVE \A e \in DOMAIN log : Linear(log'[e])
    <2>1. CASE log' = log
      BY <1>5, <2>1 DEF CInv, Chained
    <2>2. ASSUME NEW event, Record(s, t.ent, event)
          PROVE  \A e \in DOMAIN log : Linear(log'[e])
      BY <1>1, <1>5, <2>2, RecordIsLinear
    <2>3. QED
      BY <1>3, <1>5, <2>1, <2>2
  <1>6. QED
    BY <1>1, <1>2, <1>4, <1>5, Concludes

LEMMA CInvInit ==
  ASSUME Init
  PROVE  CInv
  <1>1. AInv
    BY AInvInit
  <1>2. \A s \in Sessions : txn[s] = Idle
    BY DEF Init, SignInInit
  <1>3. DOMAIN log = Entities /\ \A e \in Entities : log[e] = <<>>
    BY DEF Init
  <1>4. QED
    BY <1>1, <1>2, <1>3, IdleAims, EmptyIsLinear DEF CInv, Chained

LEMMA CInvStep ==
  ASSUME CInv, [Next]_vars
  PROVE  CInv'
  <1>1. AInv'
    BY AInvStep DEF CInv
  <1>2. CASE LoginNext
    <2>1. UNCHANGED <<users, values, log>>
      BY <1>2 DEF LoginNext, Answer, directory, config
    <2>2. ASSUME NEW s \in Sessions, NEW ip \in IPs, NEW email \in Emails, Check(s, ip, email)
          PROVE  CInv'
      <3> DEFINE t == [op |-> "login", ip |-> ip, email |-> email]
      <3>1. world' = world /\ (txn' = txn \/ txn' = [txn EXCEPT ![s] = t])
        BY <2>2 DEF Check
      <3>2. Aimed(t, users, values, log)
        BY DEF Aimed
      <3> HIDE DEF t
      <3>3. CASE txn' = txn
        BY <1>1, <2>1, <3>1, <3>3 DEF CInv, Chained, Serial
      <3>4. CASE txn' = [txn EXCEPT ![s] = t]
        BY <1>1, <2>1, <3>1, <3>2, <3>4, Prepares
      <3>5. QED
        BY <3>1, <3>3, <3>4
    <2>3. ASSUME NEW s \in Sessions, Answer(s)
          PROVE  CInv'
      <3>1. world' = world /\ txn' = [txn EXCEPT ![s] = Idle]
        BY <2>3 DEF Answer, Succeed, Fail
      <3>2. QED
        BY <1>1, <2>1, <3>1, IdleAims, Prepares
    <2>4. CASE Tick
      BY <1>1, <2>1, <2>4 DEF Tick, CInv, Chained, Serial
    <2>5. QED
      BY <1>2, <2>2, <2>3, <2>4 DEF LoginNext
  <1>3. ASSUME NEW s \in Sessions, NEW actor \in Slots, NEW target \in 0 .. MaxUsers,
               NEW form \in Forms, BeginSaveUser(s, actor, target, form)
        PROVE  CInv'
    BY <1>1, <1>3, BeginChained DEF BeginSaveUser
  <1>4. ASSUME NEW s \in Sessions, NEW actor \in Slots, NEW name \in DOMAIN Templates,
               BeginApplyTemplate(s, actor, name)
        PROVE  CInv'
    BY <1>1, <1>4, BeginChained DEF BeginApplyTemplate
  <1>5. ASSUME NEW s \in Sessions, NEW actor \in Slots, NEW band \in Bands,
               NEW module \in Modules, BeginAddRule(s, actor, band, module)
        PROVE  CInv'
    BY <1>1, <1>5, BeginChained DEF BeginAddRule
  <1>6. ASSUME NEW s \in Sessions, NEW actor \in Slots, NEW i \in 1 .. Len(rules),
               BeginDeleteRule(s, actor, i)
        PROVE  CInv'
    BY <1>1, <1>6, BeginChained DEF BeginDeleteRule
  <1>7. ASSUME NEW s \in Sessions, NEW actor \in Slots, NEW k \in Keys, NEW val,
               BeginSetSetting(s, actor, k, val)
        PROVE  CInv'
    BY <1>1, <1>7, BeginChained DEF BeginSetSetting, EntityOf
  <1>8. ASSUME NEW s \in Sessions, NEW actor \in Slots, NEW k \in Keys, NEW val,
               BeginSetRate(s, actor, k, val)
        PROVE  CInv'
    BY <1>1, <1>8, BeginChained DEF BeginSetRate, EntityOf
  <1>9. ASSUME NEW s \in Sessions, NEW actor \in Slots, NEW k \in Keys,
               BeginDeleteRate(s, actor, k)
        PROVE  CInv'
    BY <1>1, <1>9, BeginChained DEF BeginDeleteRate
  <1>10. ASSUME NEW s \in Sessions, Flush(s) PROVE CInv'
    BY <1>1, <1>10, FlushChained
  <1>11. ASSUME NEW s \in Sessions, Abort(s) PROVE CInv'
    BY <1>1, <1>11, IdleAims, Prepares DEF Abort, Done, directory, config
  <1>12. ASSUME NEW s \in Sessions,
                \/ CommitUser(s) \/ CommitTemplate(s) \/ CommitAddRule(s)
                \/ CommitDeleteRule(s) \/ CommitValue(s) \/ CommitDeleteRate(s)
         PROVE  CInv'
    BY <1>1, <1>12, CommitChained
  <1>13. CASE UNCHANGED vars
    BY <1>1, <1>13 DEF vars, CInv, Chained, Serial
  <1>14. QED
    BY <1>2, <1>3, <1>4, <1>5, <1>6, <1>7, <1>8, <1>9, <1>10, <1>11, <1>12, <1>13 DEF Next

\* While requests do not overlap, every audit chain verifies: each event points
\* back to the one before it (tip_hash read within the request that appends).
THEOREM TrailsVerify == Spec => []ChainsVerify
  <1>1. CInv => ChainsVerify
    BY LinearVerifies DEF CInv, Chained, ChainsVerify
  <1>2. QED
    BY <1>1, CInvInit, CInvStep, PTL DEF Spec

-----------------------------------------------------------------------------
(* Types, whatever overlaps.                                               *)

RuleRows ==
  [min : Amounts \cup {None}, max : Amounts \cup {None}, role : Roles \cup {None},
   module : Modules, live : BOOLEAN]

\* A row that exists has its role and email.
UsersTyped(us, gs) ==
  /\ DOMAIN us = Slots /\ DOMAIN gs = Slots
  /\ \A u \in Slots :
       /\ DOMAIN us[u] = Columns
       /\ us[u].status \in {"absent", "active", "inactive"}
       /\ us[u].status # "absent" => us[u].role \in Roles /\ us[u].email # None
       /\ gs[u] \subseteq Clients

ValuesTyped(vs) ==
  /\ DOMAIN vs = Keys
  /\ \A k \in Keys :
       /\ vs[k] = [row |-> vs[k].row, val |-> vs[k].val, last |-> vs[k].last]
       /\ vs[k].row \in {0, vs[k].last} /\ vs[k].last \in 0 .. MaxRows
       /\ k \in SettingKeys /\ vs[k].row # 0 => vs[k].val \in Allowed[k]

\* What a pending request means to write fits its column; a new user brings all
\* of his columns, and a user that is edited stays in the directory.
Meant(t, us) ==
  /\ t.op = "user" =>
       /\ t.more.user \in {0} \cup {u \in Slots : us[u].status # "absent"}
       /\ t.more.new.status \in {"active", "inactive"}
       /\ t.more.new.role \in Roles /\ t.more.new.email # None
       /\ t.more.user = 0 => {"email", "role", "status"} \subseteq t.more.changed
       /\ t.more.wanted \subseteq Clients
  /\ t.op = "template" => t.more.name \in DOMAIN Templates
  /\ t.op = "add_rule" => t.more.rule \in RuleRows
  /\ t.op = "setting" => t.more.key \in SettingKeys /\ t.more.to \in Allowed[t.more.key]
  /\ t.op \in {"rate", "delete_rate"} => t.more.key \in RateKeys

TypedInv ==
  /\ world \in Worlds /\ DOMAIN txn = Sessions /\ DOMAIN log = Entities
  /\ UsersTyped(users, grants)
  /\ rules \in Seq(RuleRows)
  /\ ValuesTyped(values)
  /\ \A s \in Sessions : Meant(txn[s], users)

LEMMA IdleMeans == \A us : Meant(Idle, us)
  BY DEF Idle, Meant

\* A step of one session that leaves the rows typed and removes no user.
LEMMA TypedStep ==
  ASSUME TypedInv, NEW s \in Sessions, NEW t, txn' = [txn EXCEPT ![s] = t],
         world' = world, DOMAIN log' = DOMAIN log,
         UsersTyped(users', grants'), rules' \in Seq(RuleRows), ValuesTyped(values'),
         \A u \in Slots : users[u].status # "absent" => users'[u].status # "absent",
         Meant(t, users')
  PROVE  TypedInv'
  <1>1. \A r \in Sessions : txn'[r] = IF r = s THEN t ELSE txn[r]
    BY DEF TypedInv
  <1>2. ASSUME NEW r \in Sessions PROVE Meant(txn'[r], users')
    <2>1. CASE r = s
      BY <1>1, <2>1
    <2>2. CASE r # s
      <3>1. txn'[r] = txn[r] /\ Meant(txn[r], users)
        BY <1>1, <2>2 DEF TypedInv
      <3>2. QED
        BY <3>1 DEF Meant
    <2>3. QED
      BY <2>1, <2>2
  <1>3. DOMAIN txn' = Sessions
    BY DEF TypedInv
  <1>4. QED
    BY <1>2, <1>3 DEF TypedInv

LEMMA BeginTyped ==
  ASSUME TypedInv, NEW s \in Sessions, NEW op, NEW ent, NEW locks, NEW more,
         Begin(s, op, ent, locks, more),
         \A t : t.op = op /\ t.more = more => Meant(t, users)
  PROVE  TypedInv'
  <1> DEFINE t == [op |-> op, ent |-> ent, locks |-> locks, stage |-> "read", more |-> more]
  <1>1. /\ txn' = [txn EXCEPT ![s] = t]
        /\ UNCHANGED <<world, users, grants, rules, values, log>>
    BY DEF Begin, directory, config
  <1>2. Meant(t, users)
    OBVIOUS
  <1> HIDE DEF t
  <1>3. QED
    BY <1>1, <1>2, TypedStep DEF TypedInv

LEMMA SaveUserTyped ==
  ASSUME TypedInv, NEW s \in Sessions, NEW actor \in Slots, NEW target \in 0 .. MaxUsers,
         NEW form \in Forms, BeginSaveUser(s, actor, target, form)
  PROVE  TypedInv'
  <1> DEFINE new == [email |-> form.email, role |-> form.role, limit |-> form.limit,
                     status |-> form.status]
             old == IF target = 0 THEN NoUser ELSE users[target]
             changed == {c \in Columns : old[c] # new[c]}
             m == [user |-> target, by |-> actor, old |-> old, new |-> new,
                   changed |-> changed, wanted |-> Wanted(form)]
             ent == UserOf(IF target = 0 THEN NextUser ELSE target)
             locks == IF target = 0 \/ changed = {} THEN {} ELSE {UserOf(target)}
  <1>1. Begin(s, "user", ent, locks, m) /\ target \in Existing \cup {0}
    BY DEF BeginSaveUser
  <1>2. /\ form.role \in Roles /\ form.status \in {"active", "inactive"}
        /\ form.clients \subseteq Clients /\ form.email # None
    BY AdminAssumption
  <1>3. /\ new.role = form.role /\ new.status = form.status /\ new.email = form.email
        /\ m.user = target /\ m.new = new /\ m.changed = changed /\ m.wanted = Wanted(form)
    OBVIOUS
  <1>4. Wanted(form) \subseteq Clients
    BY <1>2 DEF Wanted
  <1>5. target = 0 => {"email", "role", "status"} \subseteq changed
    <2>1. None \notin Roles
      BY MatrixAssumption
    <2>2. target = 0 => old.email = None /\ old.role = None /\ old.status = "absent"
      BY DEF NoUser
    <2>3. QED
      BY <1>2, <1>3, <2>1, <2>2 DEF Columns
  <1> HIDE DEF m, new, changed
  <1>6. \A t : t.op = "user" /\ t.more = m => Meant(t, users)
    BY <1>1, <1>2, <1>3, <1>4, <1>5 DEF Meant, Existing
  <1>7. QED
    BY <1>1, <1>6, BeginTyped

LEMMA BandIsRow ==
  ASSUME NEW band, band.min \in Amounts \cup {None}, band.max \in Amounts \cup {None},
         band.role \in Roles \cup {None}, NEW module \in Modules
  PROVE  Rule(band, module) \in RuleRows
  BY DEF Rule, RuleRows

LEMMA TemplateRows ==
  ASSUME NEW name \in DOMAIN Templates
  PROVE  Seeded(name) \in Seq(RuleRows)
  <1> DEFINE bands == Templates[name]
             S == [min : Amounts \cup {None}, max : Amounts \cup {None}, role : Roles \cup {None}]
  <1>1. /\ Band(None, None, "manager") \in S /\ Band(None, 3, "manager") \in S
        /\ Band(4, None, "partner") \in S /\ Band(None, 1, "manager") \in S
        /\ Band(2, 5, "partner") \in S /\ Band(6, None, "partner") \in S
    BY DEF Band, Amounts, Roles, Rank
  <1> HIDE DEF S
  <1>2. /\ Templates["starter"] \in Seq(S) /\ Templates["small"] \in Seq(S)
        /\ Templates["growing"] \in Seq(S)
    BY <1>1 DEF Templates
  <1>3. name \in {"starter", "small", "growing"}
    BY DEF Templates
  <1>4. bands \in Seq(S)
    BY <1>2, <1>3
  <1> HIDE DEF bands
  <1>5. Len(bands) \in Nat /\ DOMAIN bands = 1 .. Len(bands)
        /\ \A i \in DOMAIN bands : bands[i] \in S
    BY <1>4, LenProperties, ElementOfSeq
  <1>6. \A i \in DOMAIN bands : Rule(bands[i], "eclaim") \in RuleRows
    BY <1>5, BandIsRow DEF S, Modules
  <1>7. Seeded(name) \in [1 .. Len(bands) -> RuleRows]
    BY <1>5, <1>6 DEF Seeded, bands
  <1>8. QED
    BY <1>5, <1>7, SeqDef

LEMMA RemovedRows ==
  ASSUME rules \in Seq(RuleRows), NEW ids
  PROVE  /\ Removed(ids) \in Seq(RuleRows) /\ Len(Removed(ids)) = Len(rules)
         /\ DOMAIN Removed(ids) = DOMAIN rules
  <1>1. Len(rules) \in Nat /\ DOMAIN rules = 1 .. Len(rules)
        /\ \A i \in DOMAIN rules : rules[i] \in RuleRows
    BY LenProperties, ElementOfSeq
  <1>2. \A i \in DOMAIN rules : [rules[i] EXCEPT !.live = FALSE] \in RuleRows
    BY <1>1 DEF RuleRows
  <1>3. Removed(ids) \in [1 .. Len(rules) -> RuleRows]
    BY <1>1, <1>2 DEF Removed
  <1>4. Removed(ids) \in Seq(RuleRows)
    BY <1>1, <1>3, SeqDef
  <1>5. QED
    BY <1>1, <1>3, <1>4, LenProperties

LEMMA CommitUserTyped ==
  ASSUME TypedInv, NEW s \in Sessions, CommitUser(s)
  PROVE  TypedInv'
  <1> DEFINE t == txn[s]
             m == t.more
             u == IF m.user = 0 THEN NextUser ELSE m.user
             added == m.wanted \ t.had
  <1>1. /\ t.op = "user" /\ u \in Slots
        /\ users' = [users EXCEPT ![u] = [c \in DOMAIN NoUser |->
                                            IF c \in m.changed THEN m.new[c] ELSE @[c]]]
        /\ grants' = [grants EXCEPT ![u] = (@ \ (t.had \ m.wanted)) \cup added]
        /\ txn' = [txn EXCEPT ![s] = Idle] /\ world' = world
        /\ UNCHANGED <<rules, values>>
    BY DEF CommitUser, Ready, Done, config
  <1>2. DOMAIN log' = DOMAIN log
    BY DEF CommitUser, Record
  <1>3. /\ m.user \in {0} \cup {v \in Slots : users[v].status # "absent"}
        /\ m.new.status \in {"active", "inactive"}
        /\ m.new.role \in Roles /\ m.new.email # None
        /\ m.user = 0 => {"email", "role", "status"} \subseteq m.changed
        /\ m.wanted \subseteq Clients
    BY <1>1 DEF TypedInv, Meant
  <1>4. UsersTyped(users, grants)
    BY DEF TypedInv
  <1>5. m.user # 0 => users[u].status # "absent"
    BY <1>3
  <1> HIDE DEF t, m, u
  <1>6. /\ DOMAIN users' = Slots /\ DOMAIN grants' = Slots
        /\ \A v \in Slots \ {u} : users'[v] = users[v] /\ grants'[v] = grants[v]
        /\ users'[u] = [c \in Columns |-> IF c \in m.changed THEN m.new[c] ELSE users[u][c]]
        /\ grants'[u] = (grants[u] \ (t.had \ m.wanted)) \cup added
    BY <1>1, <1>4, NoUserRow DEF UsersTyped
  <1>7. /\ users'[u].status = IF "status" \in m.changed THEN m.new.status ELSE users[u].status
        /\ users'[u].role = IF "role" \in m.changed THEN m.new.role ELSE users[u].role
        /\ users'[u].email = IF "email" \in m.changed THEN m.new.email ELSE users[u].email
        /\ DOMAIN users'[u] = Columns
    BY <1>6 DEF Columns
  <1>8. /\ users'[u].status \in {"active", "inactive"}
        /\ users'[u].role \in Roles /\ users'[u].email # None
    BY <1>1, <1>3, <1>4, <1>5, <1>7 DEF UsersTyped
  <1>9. grants'[u] \subseteq Clients
    BY <1>1, <1>3, <1>4, <1>6 DEF UsersTyped
  <1>10. UsersTyped(users', grants')
    BY <1>4, <1>6, <1>7, <1>8, <1>9 DEF UsersTyped
  <1>11. QED
    BY <1>1, <1>2, <1>6, <1>8, <1>10, IdleMeans, TypedStep DEF TypedInv

LEMMA CommitRulesTyped ==
  ASSUME TypedInv, NEW s \in Sessions,
         CommitTemplate(s) \/ CommitAddRule(s) \/ CommitDeleteRule(s)
  PROVE  TypedInv'
  <1>1. /\ UNCHANGED <<users, grants, values>> /\ world' = world
        /\ txn' = [txn EXCEPT ![s] = Idle] /\ DOMAIN log' = DOMAIN log
    BY DEF CommitTemplate, CommitAddRule, CommitDeleteRule, Done, directory, Record
  <1>2. rules \in Seq(RuleRows) /\ Meant(txn[s], users)
    BY DEF TypedInv
  <1>3. CASE CommitTemplate(s)
    <2>1. /\ txn[s].op = "template"
          /\ rules' = Removed(txn[s].more.seen) \o Seeded(txn[s].more.name)
      BY <1>3 DEF CommitTemplate, Ready
    <2>2. rules' \in Seq(RuleRows)
      BY <1>2, <2>1, RemovedRows, TemplateRows, ConcatProperties DEF Meant
    <2>3. QED
      BY <1>1, <2>2, IdleMeans, TypedStep DEF TypedInv
  <1>4. CASE CommitAddRule(s)
    <2>1. txn[s].op = "add_rule" /\ rules' = Append(rules, txn[s].more.rule)
      BY <1>4 DEF CommitAddRule, Ready
    <2>2. rules' \in Seq(RuleRows)
      BY <1>2, <2>1, AppendProperties DEF Meant
    <2>3. QED
      BY <1>1, <2>2, IdleMeans, TypedStep DEF TypedInv
  <1>5. CASE CommitDeleteRule(s)
    <2>1. rules' = Removed({txn[s].more.rule})
      BY <1>5 DEF CommitDeleteRule
    <2>2. rules' \in Seq(RuleRows)
      BY <1>2, <2>1, RemovedRows
    <2>3. QED
      BY <1>1, <2>2, IdleMeans, TypedStep DEF TypedInv
  <1>6. QED
    BY <1>3, <1>4, <1>5

LEMMA CommitValuesTyped ==
  ASSUME TypedInv, NEW s \in Sessions, CommitValue(s) \/ CommitDeleteRate(s)
  PROVE  TypedInv'
  <1> DEFINE t == txn[s]
             m == t.more
  <1>1. /\ UNCHANGED <<users, grants, rules>> /\ world' = world
        /\ txn' = [txn EXCEPT ![s] = Idle] /\ DOMAIN log' = DOMAIN log
    BY DEF CommitValue, CommitDeleteRate, Done, directory, Record
  <1>2. /\ ValuesTyped(values) /\ Meant(t, users)
    BY DEF TypedInv
  <1>3. CASE CommitValue(s)
    <2>1. /\ t.op \in {"setting", "rate"} /\ Writable(m.key, m)
          /\ values' = [values EXCEPT ![m.key] = Stored(m.key, m)]
      BY <1>3 DEF CommitValue, Ready
    <2>2. m.key \in Keys /\ (m.key \in SettingKeys => m.to \in Allowed[m.key])
      BY <1>2, <2>1, AdminAssumption DEF Meant, Keys
    <2> HIDE DEF m, t
    <2>3. /\ Stored(m.key, m).row \in {0, Stored(m.key, m).last}
          /\ Stored(m.key, m).last \in 0 .. MaxRows
          /\ m.key \in SettingKeys /\ Stored(m.key, m).row # 0
               => Stored(m.key, m).val \in Allowed[m.key]
          /\ Stored(m.key, m) = [row |-> Stored(m.key, m).row, val |-> Stored(m.key, m).val,
                                 last |-> Stored(m.key, m).last]
      <3>1. MaxRows \in Nat
        BY AdminAssumption
      <3>2. /\ values[m.key] = [row |-> values[m.key].row, val |-> values[m.key].val,
                                last |-> values[m.key].last]
            /\ values[m.key].row \in {0, values[m.key].last}
            /\ values[m.key].last \in 0 .. MaxRows
            /\ m.key \in SettingKeys /\ values[m.key].row # 0
                 => values[m.key].val \in Allowed[m.key]
        BY <1>2, <2>2 DEF ValuesTyped
      <3>3. CASE m.row = 0
        BY <2>1, <2>2, <3>1, <3>2, <3>3 DEF Stored, Writable
      <3>4. CASE m.row # 0 /\ m.wrote
        <4>1. Stored(m.key, m) = [row |-> values[m.key].row, val |-> m.to,
                                  last |-> values[m.key].last]
          BY <3>2, <3>4 DEF Stored
        <4>2. QED
          BY <2>2, <3>2, <4>1
      <3>5. CASE m.row # 0 /\ ~m.wrote
        <4>1. Stored(m.key, m) = values[m.key]
          BY <3>5 DEF Stored
        <4>2. QED
          BY <3>2, <4>1
      <3>6. QED
        BY <3>3, <3>4, <3>5
    <2>4. ValuesTyped(values')
      BY <1>2, <2>1, <2>2, <2>3 DEF ValuesTyped
    <2>5. QED
      BY <1>1, <2>4, IdleMeans, TypedStep DEF TypedInv
  <1>4. CASE CommitDeleteRate(s)
    <2>1. /\ t.op = "delete_rate"
          /\ values' = [values EXCEPT ![m.key] =
                          IF @.row = m.row THEN [row |-> 0, val |-> None, last |-> @.last] ELSE @]
      BY <1>4 DEF CommitDeleteRate, Ready
    <2> HIDE DEF m, t
    <2>2. ValuesTyped(values')
      BY <1>2, <2>1 DEF ValuesTyped
    <2>3. QED
      BY <1>1, <2>2, IdleMeans, TypedStep DEF TypedInv
  <1>5. QED
    BY <1>3, <1>4

LEMMA LoginTyped ==
  ASSUME TypedInv, LoginNext
  PROVE  TypedInv'
  <1>1. UNCHANGED <<users, grants, rules, values, log>>
    BY DEF LoginNext, Answer, directory, config
  <1>2. ASSUME NEW s \in Sessions, NEW ip \in IPs, NEW email \in Emails, Check(s, ip, email)
        PROVE  TypedInv'
    <2> DEFINE t == [op |-> "login", ip |-> ip, email |-> email]
    <2>1. world' = world /\ (txn' = txn \/ txn' = [txn EXCEPT ![s] = t])
      BY <1>2 DEF Check
    <2>2. Meant(t, users)
      BY DEF Meant
    <2> HIDE DEF t
    <2>3. CASE txn' = txn
      BY <1>1, <2>1, <2>3 DEF TypedInv
    <2>4. CASE txn' = [txn EXCEPT ![s] = t]
      BY <1>1, <2>1, <2>2, <2>4, TypedStep DEF TypedInv
    <2>5. QED
      BY <2>1, <2>3, <2>4
  <1>3. ASSUME NEW s \in Sessions, Answer(s)
        PROVE  TypedInv'
    <2>1. world' = world /\ txn' = [txn EXCEPT ![s] = Idle]
      BY <1>3 DEF Answer, Succeed, Fail
    <2>2. QED
      BY <1>1, <2>1, IdleMeans, TypedStep DEF TypedInv
  <1>4. CASE Tick
    BY <1>1, <1>4 DEF Tick, TypedInv
  <1>5. QED
    BY <1>2, <1>3, <1>4 DEF LoginNext

LEMMA TypedInit ==
  ASSUME Init
  PROVE  TypedInv
  <1>1. /\ world \in Worlds /\ DOMAIN txn = Sessions /\ DOMAIN log = Entities
        /\ \A s \in Sessions : txn[s] = Idle
        /\ rules = <<>> /\ values = [k \in Keys |-> NoRow]
    BY DEF Init, SignInInit
  <1>2. ValuesTyped(values)
    BY <1>1, AdminAssumption DEF ValuesTyped, NoRow
  <1>3. UsersTyped(users, grants)
    <2>1. \A u \in Slots :
            /\ u \in DOMAIN Seed => /\ users[u] = [c \in Columns |-> Seed[u][c]]
                                   /\ grants[u] = Seed[u].clients
            /\ u \notin DOMAIN Seed => users[u] = NoUser /\ grants[u] = {}
      BY DEF Init, NoUser, Columns
    <2>2. \A i \in DOMAIN Seed :
            /\ Seed[i].role \in Roles /\ Seed[i].status \in {"active", "inactive"}
            /\ Seed[i].clients \subseteq Clients /\ Seed[i].email # None
      BY AdminAssumption
    <2>3. DOMAIN users = Slots /\ DOMAIN grants = Slots
      BY DEF Init
    <2>4. ASSUME NEW u \in Slots, u \in DOMAIN Seed
          PROVE  /\ DOMAIN users[u] = Columns /\ users[u].status = Seed[u].status
                 /\ users[u].role = Seed[u].role /\ users[u].email = Seed[u].email
      BY <2>1, <2>4 DEF Columns
    <2>5. ASSUME NEW u \in Slots, u \notin DOMAIN Seed
          PROVE  DOMAIN users[u] = Columns /\ users[u].status = "absent" /\ grants[u] = {}
      BY <2>1, <2>5, NoUserRow
    <2>6. QED
      BY <2>1, <2>2, <2>3, <2>4, <2>5 DEF UsersTyped
  <1>4. rules \in Seq(RuleRows)
    BY <1>1, EmptySeq
  <1>5. QED
    BY <1>1, <1>2, <1>3, <1>4, IdleMeans DEF TypedInv

LEMMA TypedNext ==
  ASSUME TypedInv, [Next]_vars
  PROVE  TypedInv'
  <1>1. CASE LoginNext
    BY <1>1, LoginTyped
  <1>2. ASSUME NEW s \in Sessions, NEW actor \in Slots, NEW target \in 0 .. MaxUsers,
               NEW form \in Forms, BeginSaveUser(s, actor, target, form)
        PROVE  TypedInv'
    BY <1>2, SaveUserTyped
  <1>3. ASSUME NEW s \in Sessions, NEW actor \in Slots, NEW name \in DOMAIN Templates,
               BeginApplyTemplate(s, actor, name)
        PROVE  TypedInv'
    <2> DEFINE m == [by |-> actor, name |-> name, seen |-> LiveRules]
    <2>1. Begin(s, "template", Matrix, {RuleOf(i) : i \in LiveRules}, m)
      BY <1>3 DEF BeginApplyTemplate
    <2>2. \A t : t.op = "template" /\ t.more = m => Meant(t, users)
      BY DEF Meant
    <2> HIDE DEF m
    <2>3. QED
      BY <2>1, <2>2, BeginTyped
  <1>4. ASSUME NEW s \in Sessions, NEW actor \in Slots, NEW band \in Bands,
               NEW module \in Modules, BeginAddRule(s, actor, band, module)
        PROVE  TypedInv'
    <2> DEFINE m == [by |-> actor, rule |-> Rule(band, module)]
    <2>1. Begin(s, "add_rule", Matrix, {}, m)
      BY <1>4 DEF BeginAddRule
    <2>2. m.rule \in RuleRows
      BY BandIsRow, AdminAssumption
    <2> HIDE DEF m
    <2>3. \A t : t.op = "add_rule" /\ t.more = m => Meant(t, users)
      BY <2>2 DEF Meant
    <2>4. QED
      BY <2>1, <2>3, BeginTyped
  <1>5. ASSUME NEW s \in Sessions, NEW actor \in Slots, NEW i \in 1 .. Len(rules),
               BeginDeleteRule(s, actor, i)
        PROVE  TypedInv'
    <2> DEFINE m == [by |-> actor, rule |-> i]
    <2>1. Begin(s, "delete_rule", Matrix, {RuleOf(i)}, m)
      BY <1>5 DEF BeginDeleteRule
    <2>2. \A t : t.op = "delete_rule" /\ t.more = m => Meant(t, users)
      BY DEF Meant
    <2> HIDE DEF m
    <2>3. QED
      BY <2>1, <2>2, BeginTyped
  <1>6. ASSUME NEW s \in Sessions, NEW actor \in Slots, NEW k \in Keys, NEW val,
               \/ BeginSetSetting(s, actor, k, val)
               \/ BeginSetRate(s, actor, k, val)
               \/ BeginDeleteRate(s, actor, k)
        PROVE  TypedInv'
    <2>1. ASSUME BeginSetSetting(s, actor, k, val)
          PROVE  \E ent, locks, more :
                   /\ Begin(s, "setting", ent, locks, more)
                   /\ \A t : t.op = "setting" /\ t.more = more => Meant(t, users)
      <3> DEFINE m == [by |-> actor, key |-> k, row |-> values[k].row, from |-> Effective(k),
                       to |-> val, wrote |-> values[k].row = 0 \/ values[k].val # val]
                 locks == IF values[k].row # 0 /\ values[k].val # val THEN {EntityOf(k)} ELSE {}
      <3>1. /\ Begin(s, "setting", EntityOf(k), locks, m)
            /\ k \in SettingKeys /\ val \in Allowed[k]
        BY <2>1 DEF BeginSetSetting, Offered
      <3>2. m.key = k /\ m.to = val
        OBVIOUS
      <3> HIDE DEF m
      <3>3. \A t : t.op = "setting" /\ t.more = m => Meant(t, users)
        BY <3>1, <3>2 DEF Meant
      <3>4. QED
        BY <3>1, <3>3
    <2>2. ASSUME BeginSetRate(s, actor, k, val)
          PROVE  \E ent, locks, more :
                   /\ Begin(s, "rate", ent, locks, more)
                   /\ \A t : t.op = "rate" /\ t.more = more => Meant(t, users)
      <3> DEFINE m == [by |-> actor, key |-> k, row |-> values[k].row,
                       from |-> IF values[k].row = 0 THEN None ELSE values[k].val, to |-> val,
                       wrote |-> values[k].row = 0 \/ values[k].val # val]
                 locks == IF values[k].row # 0 /\ values[k].val # val THEN {EntityOf(k)} ELSE {}
      <3>1. Begin(s, "rate", EntityOf(k), locks, m) /\ k \in RateKeys
        BY <2>2 DEF BeginSetRate
      <3>2. m.key = k
        OBVIOUS
      <3> HIDE DEF m
      <3>3. \A t : t.op = "rate" /\ t.more = m => Meant(t, users)
        BY <3>1, <3>2 DEF Meant
      <3>4. QED
        BY <3>1, <3>3
    <2>3. ASSUME BeginDeleteRate(s, actor, k)
          PROVE  \E ent, locks, more :
                   /\ Begin(s, "delete_rate", ent, locks, more)
                   /\ \A t : t.op = "delete_rate" /\ t.more = more => Meant(t, users)
      <3> DEFINE m == [by |-> actor, key |-> k, row |-> values[k].row, from |-> values[k].val]
      <3>1. Begin(s, "delete_rate", EntityOf(k), {}, m) /\ k \in RateKeys
        BY <2>3 DEF BeginDeleteRate
      <3>2. m.key = k
        OBVIOUS
      <3> HIDE DEF m
      <3>3. \A t : t.op = "delete_rate" /\ t.more = m => Meant(t, users)
        BY <3>1, <3>2 DEF Meant
      <3>4. QED
        BY <3>1, <3>3
    <2>4. QED
      BY <1>6, <2>1, <2>2, <2>3, BeginTyped
  <1>7. ASSUME NEW s \in Sessions, Flush(s) PROVE TypedInv'
    <2>1. PICK tip \in Tips(log[txn[s].ent]) :
            txn' = [txn EXCEPT ![s] =
              [op |-> txn[s].op, ent |-> txn[s].ent, locks |-> txn[s].locks,
               stage |-> "flushed", more |-> txn[s].more, tip |-> tip,
               had |-> IF txn[s].op = "user" /\ txn[s].more.user # 0
                       THEN grants[txn[s].more.user] ELSE {}]]
      BY <1>7 DEF Flush
    <2> DEFINE t == [op |-> txn[s].op, ent |-> txn[s].ent, locks |-> txn[s].locks,
                     stage |-> "flushed", more |-> txn[s].more, tip |-> tip,
                     had |-> IF txn[s].op = "user" /\ txn[s].more.user # 0
                             THEN grants[txn[s].more.user] ELSE {}]
    <2>2. /\ txn' = [txn EXCEPT ![s] = t]
          /\ UNCHANGED <<world, users, grants, rules, values, log>>
      BY <1>7, <2>1 DEF Flush, directory, config
    <2>3. t.op = txn[s].op /\ t.more = txn[s].more
      OBVIOUS
    <2> HIDE DEF t
    <2>4. Meant(t, users)
      BY <2>3 DEF TypedInv, Meant
    <2>5. QED
      BY <2>2, <2>4, TypedStep DEF TypedInv
  <1>8. ASSUME NEW s \in Sessions, Abort(s) PROVE TypedInv'
    <2>1. /\ txn' = [txn EXCEPT ![s] = Idle]
          /\ UNCHANGED <<world, users, grants, rules, values, log>>
      BY <1>8 DEF Abort, Done, directory, config
    <2>2. QED
      BY <2>1, IdleMeans, TypedStep DEF TypedInv
  <1>9. ASSUME NEW s \in Sessions, CommitUser(s) PROVE TypedInv'
    BY <1>9, CommitUserTyped
  <1>10. ASSUME NEW s \in Sessions,
                CommitTemplate(s) \/ CommitAddRule(s) \/ CommitDeleteRule(s)
         PROVE  TypedInv'
    BY <1>10, CommitRulesTyped
  <1>11. ASSUME NEW s \in Sessions, CommitValue(s) \/ CommitDeleteRate(s)
         PROVE  TypedInv'
    BY <1>11, CommitValuesTyped
  <1>12. CASE UNCHANGED vars
    BY <1>12 DEF vars, TypedInv
  <1>13. QED
    BY <1>1, <1>2, <1>3, <1>4, <1>5, <1>6, <1>7, <1>8, <1>9, <1>10, <1>11, <1>12 DEF Next

\* Whatever requests overlap, every row keeps the types of its columns: a user
\* of the directory has a role and an email, a setting is one of its choices,
\* and a key has its newest row or none.
THEOREM DirectoryTyped == Spec => []TypeOK
  <1>1. TypedInv => TypeOK
    <2> SUFFICES ASSUME TypedInv PROVE TypeOK
      OBVIOUS
    <2>1. \A u \in Slots :
            /\ users[u].status \in {"absent", "active", "inactive"}
            /\ Active(u) => users[u].role \in Roles /\ users[u].email # None
            /\ grants[u] \subseteq Clients
      BY DEF TypedInv, UsersTyped, Active
    <2>2. \A i \in DOMAIN rules : rules[i].live \in BOOLEAN /\ rules[i].module \in Modules
      <3>1. \A i \in DOMAIN rules : rules[i] \in RuleRows
        BY ElementOfSeq, LenProperties DEF TypedInv
      <3>2. QED
        BY <3>1 DEF RuleRows
    <2>3. \A k \in Keys : values[k].row \in {0, values[k].last} /\ values[k].last \in 0 .. MaxRows
      BY DEF TypedInv, ValuesTyped
    <2>4. \A k \in SettingKeys : Effective(k) \in Allowed[k]
      BY AdminAssumption DEF TypedInv, ValuesTyped, Effective, Keys
    <2>5. QED
      BY <2>1, <2>2, <2>3, <2>4 DEF TypedInv, TypeOK
  <1>2. QED
    BY <1>1, TypedInit, TypedNext, PTL DEF Spec

-----------------------------------------------------------------------------
(* What the audit trail tells.                                             *)

\* What a whole chain last said of a column.
Told(chain, c, otherwise) == Said(chain, Len(chain) + 1, c, otherwise)

\* A chain as it is stored: each hash is the history of some events.
Written(chain) ==
  /\ chain \in Seq(Recorded(chain))
  /\ \A i \in DOMAIN chain : \E n \in Nat : History(chain[i], n)

\* Each event of the chain names as the old value what the ones before it said.
Continues(chain, first) ==
  \A i \in DOMAIN chain : \A c \in DOMAIN Payload(chain[i]).from :
    Payload(chain[i]).from[c] = Said(chain, i, c, first[c])

\* A pending request is about an entity and has read a tip that was one; its
\* event will name every column that it writes.
Drafted(t) ==
  /\ t.op = "idle" => t = Idle
  /\ t.op \notin {"idle", "login"} =>
       /\ t.ent \in Entities
       /\ t.stage = "flushed" => \E n \in Nat : History(t.tip, n)
  /\ t.op = "user" => t.more.changed \subseteq Columns
  /\ t.op \in {"template", "add_rule", "delete_rule"} => t.ent = Matrix
  /\ t.op = "rate" => t.more.row \in 0 .. MaxRows
  /\ t.op = "delete_rate" => t.ent \in RateKeys \X (1 .. MaxRows)
  /\ t.op = "setting" =>
       /\ t.more.row \in {0, 1}
       /\ t.more.row = 0 => t.more.from = Default[t.more.key]
       /\ t.more.row # 0 => (t.more.wrote <=> t.more.from # t.more.to)

\* The columns of every user are as his chain last said them.
ColumnsTold(us, chains) ==
  \A u \in Slots, c \in Columns :
    us[u][c] = Told(chains[UserOf(u)], c, FirstRow(u)[c])

InForce(vs, k) == IF vs[k].row = 0 THEN Default[k] ELSE vs[k].val

\* Every setting is as the chain of its only row last said it.
SettingsTold(vs, chains) ==
  \A k \in SettingKeys : /\ vs[k].row = vs[k].last /\ vs[k].row \in {0, 1}
                         /\ InForce(vs, k) = Told(chains[<<k, 1>>], "val", Default[k])

GrantsTold(gs, chains) ==
  \A u \in Slots : /\ gs[u] = Told(chains[UserOf(u)], "grants", FirstRow(u).grants)
                   /\ Continues(chains[UserOf(u)], FirstRow(u))

\* A row that was not inserted yet has no event.
ValuesTold(vs, chains) ==
  \A k \in Keys : \A row \in 1 .. MaxRows :
    /\ Continues(chains[<<k, row>>], FirstValue(k))
    /\ row > vs[k].last => chains[<<k, row>>] = <<>>
    /\ k \in RateKeys => Told(chains[<<k, row>>], "val", None) =
                           IF vs[k].row = row THEN vs[k].val ELSE None

\* What a pending request has read of a row is what the row holds.
Current(t, vs) ==
  /\ t.op \in {"setting", "rate", "delete_rate"} =>
       /\ t.more.row = vs[t.more.key].row
       /\ t.more.from = IF vs[t.more.key].row = 0 THEN FirstValue(t.more.key).val
                        ELSE vs[t.more.key].val
  /\ t.op \in {"setting", "rate"} =>
       (t.more.wrote <=> vs[t.more.key].row = 0 \/ vs[t.more.key].val # t.more.to)
  /\ t.op = "delete_rate" => t.more.row # 0 /\ t.ent = <<t.more.key, t.more.row>>

Telling ==
  /\ \A e \in Entities : Written(log[e])
  /\ \A s \in Sessions : Drafted(txn[s])
  /\ ColumnsTold(users, log)
  /\ SettingsTold(values, log)
  /\ Serial => /\ GrantsTold(grants, log) /\ ValuesTold(values, log)
               /\ \A s \in Sessions : Current(txn[s], values)

\* A set of natural numbers has a least member.
LEMMA LeastOf ==
  ASSUME NEW S, S \subseteq Nat, S # {}
  PROVE  \E n \in S : \A k \in S : n <= k
  <1> DEFINE R == OpToRel(<, Nat)
  <1>1. IsWellFoundedOn(R, Nat)
    BY NatLessThanWellFounded
  <1>2. PICK n \in S : \A k \in S : ~ (<<k, n>> \in R)
    BY <1>1, WFMin
  <1>3. ASSUME NEW k \in S
        PROVE  n <= k
    <2>1. k \in Nat /\ n \in Nat
      OBVIOUS
    <2>2. k < n => <<k, n>> \in R
      BY <2>1, Zenon DEF OpToRel
    <2>3. ~ (k < n)
      BY <1>2, <2>2
    <2>4. QED
      BY <2>1, <2>3
  <1>4. QED
    BY <1>3

\* The last of a set of positions is one of them, and none is after it.
LEMMA LastOf ==
  ASSUME NEW n \in Nat, NEW S \in SUBSET (1 .. n), S # {}
  PROVE  Max(S) \in S /\ \A x \in S : x <= Max(S)
  <1> DEFINE T == {i \in 0 .. n : n - i \in S}
  <1>1. T # {} /\ T \subseteq Nat
    <2>1. PICK x \in S : TRUE
      OBVIOUS
    <2>2. n - x \in 0 .. n /\ n - (n - x) \in S
      <3>1. n - x \in 0 .. n /\ n - (n - x) = x
        OBVIOUS
      <3>2. QED
        BY <3>1
    <2>3. n - x \in T
      BY <2>2
    <2>4. T \subseteq Nat
      OBVIOUS
    <2>5. QED
      BY <2>3, <2>4
  <1> HIDE DEF T
  <1>2. PICK m \in T : \A i \in T : m <= i
    BY <1>1, LeastOf
  <1>3. m \in 0 .. n /\ n - m \in S
    BY <1>2 DEF T
  <1>4. ASSUME NEW y \in S PROVE n - m >= y
    <2>1. n - y \in T
      BY DEF T
    <2>2. QED
      BY <1>2, <1>3, <2>1
  <1>5. QED
    BY <1>3, <1>4 DEF Max

\* A chain without an event says nothing.
LEMMA NothingSaid ==
  /\ Written(<<>>) /\ \A first : Continues(<<>>, first)
  /\ \A c, otherwise : Told(<<>>, c, otherwise) = otherwise
  <1>1. DOMAIN <<>> = {}
    OBVIOUS
  <1>2. <<>> \in Seq(Recorded(<<>>))
    BY EmptySeq
  <1>3. QED
    BY <1>1, <1>2 DEF Written, Continues, Told, Said

\* What an event appended to a chain changes of what the chain says: before it
\* nothing, and after it the columns that it names.
LEMMA SaidAppended ==
  ASSUME NEW chain, NEW h, chain \in Seq(Recorded(chain)), NEW c, NEW otherwise
  PROVE  /\ \A i \in 1 .. Len(chain) + 1 :
              Said(Append(chain, h), i, c, otherwise) = Said(chain, i, c, otherwise)
         /\ Told(Append(chain, h), c, otherwise) =
              IF c \in DOMAIN Payload(h).to THEN Payload(h).to[c] ELSE Told(chain, c, otherwise)
  <1> DEFINE n == Len(chain)
             g == Append(chain, h)
             B(i) == {j \in DOMAIN chain : j < i /\ c \in DOMAIN Payload(chain[j]).to}
             C(i) == {j \in DOMAIN g : j < i /\ c \in DOMAIN Payload(g[j]).to}
  <1>1. n \in Nat /\ DOMAIN chain = 1 .. n
    BY LenProperties
  <1>2. Len(g) = n + 1 /\ DOMAIN g = 1 .. n + 1 /\ g[n + 1] = h /\ \A j \in 1 .. n : g[j] = chain[j]
    <2>1. chain \in Seq(Recorded(chain) \cup {h})
      BY SeqMonotonic
    <2>2. QED
      BY <1>1, <2>1, AppendProperties, LenProperties
  <1> HIDE DEF g, n
  <1>3. \A i : /\ Said(chain, i, c, otherwise) =
                   IF B(i) = {} THEN otherwise ELSE Payload(chain[Max(B(i))]).to[c]
               /\ Said(g, i, c, otherwise) =
                   IF C(i) = {} THEN otherwise ELSE Payload(g[Max(C(i))]).to[c]
    BY DEF Said
  <1>4. ASSUME NEW i \in 1 .. n + 1
        PROVE  Said(g, i, c, otherwise) = Said(chain, i, c, otherwise)
    <2>1. C(i) = B(i) /\ B(i) \in SUBSET (1 .. n)
      BY <1>1, <1>2
    <2>2. B(i) # {} => Max(B(i)) \in 1 .. n
      <3> HIDE DEF B
      <3>1. QED
        BY <1>1, <2>1, LastOf
    <2> HIDE DEF B, C
    <2>3. B(i) # {} => g[Max(B(i))] = chain[Max(B(i))]
      BY <1>2, <2>2
    <2>4. QED
      BY <1>3, <2>1, <2>3
  <1>5. Said(g, n + 2, c, otherwise) =
          IF c \in DOMAIN Payload(h).to THEN Payload(h).to[c] ELSE Said(chain, n + 1, c, otherwise)
    <2>1. C(n + 2) \in SUBSET (1 .. n + 1)
      BY <1>2
    <2>2. CASE c \in DOMAIN Payload(h).to
      <3>1. n + 1 \in C(n + 2)
        BY <1>1, <1>2, <2>2
      <3> HIDE DEF C
      <3>2. Max(C(n + 2)) \in 1 .. n + 1 /\ n + 1 <= Max(C(n + 2))
        <4>1. n + 1 \in Nat /\ C(n + 2) # {}
          BY <1>1, <3>1
        <4>2. QED
          BY <2>1, <3>1, <4>1, LastOf
      <3>3. Max(C(n + 2)) = n + 1
        BY <1>1, <3>2
      <3>4. QED
        BY <1>2, <1>3, <2>2, <3>1, <3>3
    <2>3. CASE c \notin DOMAIN Payload(h).to
      <3>1. C(n + 2) = C(n + 1)
        BY <1>1, <1>2, <2>3
      <3>2. Said(g, n + 2, c, otherwise) = Said(g, n + 1, c, otherwise)
        BY <1>3, <3>1
      <3>3. QED
        BY <1>1, <1>4, <2>3, <3>2
    <2>4. QED
      BY <2>2, <2>3
  <1>6. Len(g) + 1 = n + 2
    BY <1>1, <1>2
  <1>7. QED
    BY <1>4, <1>5, <1>6 DEF Told, g, n

\* The new chain says what the event says, and else what the old one said.
Grows(old, new, event) ==
  /\ Written(new) /\ new # <<>>
  /\ Len(old) \in Nat /\ DOMAIN old = 1 .. Len(old) /\ DOMAIN new = 1 .. Len(old) + 1
  /\ \A i \in 1 .. Len(old) : new[i] = old[i]
  /\ Payload(new[Len(old) + 1]) = event
  /\ \A c, otherwise :
       Told(new, c, otherwise) =
         IF c \in DOMAIN event.to THEN event.to[c] ELSE Told(old, c, otherwise)
  /\ \A first : /\ Continues(old, first)
                /\ \A c \in DOMAIN event.from : event.from[c] = Told(old, c, first[c])
                => Continues(new, first)

\* An event recorded behind a tip of the chain makes the chain grow by it.
LEMMA RecordTells ==
  ASSUME NEW chain, Written(chain), NEW tip, NEW n \in Nat, History(tip, n), NEW event,
         NEW longer, longer = Extended(chain, tip, event)
  PROVE  Grows(chain, longer, event)
  <1> DEFINE h == ChainHash(tip, event)
  <1>1. /\ History(h, n + 1) /\ n + 1 \in Nat
    BY HashPointsBack
  <1>2. Payload(h) = event
    <2> DEFINE S == {tip[j] : j \in 1 .. n} \cup {event}
    <2>1. tip \in Seq(S) /\ Len(tip) = n /\ event \in S
      BY SeqMonotonic DEF History
    <2> HIDE DEF S
    <2>2. Len(Append(tip, event)) = n + 1 /\ Append(tip, event)[n + 1] = event
      BY <2>1, AppendProperties
    <2>3. QED
      BY <2>2 DEF ChainHash, Payload, Last
  <1> HIDE DEF h
  <1>3. longer = Append(chain, h)
    BY DEF Extended, h
  <1>4. chain \in Seq(Recorded(chain)) /\ Len(chain) \in Nat /\ DOMAIN chain = 1 .. Len(chain)
    BY LenProperties DEF Written
  <1>5. /\ Len(longer) = Len(chain) + 1 /\ DOMAIN longer = 1 .. Len(chain) + 1
        /\ longer \in Seq(Recorded(chain) \cup {h})
        /\ longer[Len(chain) + 1] = h /\ \A j \in 1 .. Len(chain) : longer[j] = chain[j]
    <2>1. chain \in Seq(Recorded(chain) \cup {h})
      BY <1>4, SeqMonotonic
    <2>2. QED
      BY <1>3, <1>4, <2>1, AppendProperties, LenProperties
  <1>6. Written(longer)
    <2>1. longer \in [1 .. Len(chain) + 1 -> Recorded(longer)]
      <3>1. longer \in [1 .. Len(chain) + 1 -> Recorded(chain) \cup {h}]
        BY <1>4, <1>5, LenProperties
      <3>2. QED
        BY <1>5, <3>1 DEF Recorded
    <2>2. longer \in Seq(Recorded(longer))
      BY <1>4, <2>1, SeqDef
    <2>3. ASSUME NEW i \in DOMAIN longer PROVE \E k \in Nat : History(longer[i], k)
      <3>1. CASE i \in 1 .. Len(chain)
        BY <1>4, <1>5, <3>1 DEF Written
      <3>2. CASE i = Len(chain) + 1
        BY <1>1, <1>5, <3>2
      <3>3. QED
        BY <1>4, <1>5, <3>1, <3>2
    <2>4. QED
      BY <2>2, <2>3 DEF Written
  <1>7. longer # <<>>
    BY <1>4, <1>5, EmptySeq
  <1>8. \A c, otherwise :
          /\ \A i \in 1 .. Len(chain) + 1 : Said(longer, i, c, otherwise) = Said(chain, i, c, otherwise)
          /\ Told(longer, c, otherwise) =
               IF c \in DOMAIN event.to THEN event.to[c] ELSE Told(chain, c, otherwise)
    BY <1>2, <1>3, <1>4, SaidAppended
  <1>9. ASSUME NEW first, Continues(chain, first),
               \A c \in DOMAIN event.from : event.from[c] = Told(chain, c, first[c])
        PROVE  Continues(longer, first)
    <2>1. ASSUME NEW i \in DOMAIN longer, NEW c \in DOMAIN Payload(longer[i]).from
          PROVE  Payload(longer[i]).from[c] = Said(longer, i, c, first[c])
      <3>1. i \in 1 .. Len(chain) + 1 /\ Said(longer, i, c, first[c]) = Said(chain, i, c, first[c])
        BY <1>5, <1>8
      <3>2. CASE i \in 1 .. Len(chain)
        BY <1>4, <1>5, <1>9, <2>1, <3>1, <3>2 DEF Continues
      <3>3. CASE i = Len(chain) + 1
        BY <1>2, <1>5, <1>9, <2>1, <3>1, <3>3 DEF Told
      <3>4. QED
        BY <1>4, <3>1, <3>2, <3>3
    <2>2. QED
      BY <2>1 DEF Continues
  <1>10. QED
    BY <1>2, <1>4, <1>5, <1>6, <1>7, <1>8, <1>9 DEF Grows

TInv == TypedInv /\ CInv /\ Telling

\* Entities of different kinds, and of different rows, are different.
LEMMA EntitiesApart ==
  /\ \A u \in Slots : UserOf(u) \in Entities /\ UserOf(u) # Matrix
  /\ Matrix \in Entities
  /\ \A k \in Keys, row \in 1 .. MaxRows :
       /\ <<k, row>> \in Entities /\ <<k, row>> # Matrix
       /\ \A u \in Slots : <<k, row>> # UserOf(u)
  /\ \A u, v \in Slots : UserOf(u) = UserOf(v) => u = v
  /\ 1 \in 1 .. MaxRows
  <1>1. "user" \notin Keys /\ "matrix" \notin Keys
    BY AdminAssumption
  <1>2. MaxRows \in Nat \ {0}
    BY AdminAssumption
  <1>3. QED
    BY <1>1, <1>2 DEF Entities, UserOf, Matrix

LEMMA IdleDrafts == Drafted(Idle) /\ \A vs : Current(Idle, vs)
  BY DEF Idle, Drafted, Current

\* A step of one session that leaves the rows and the chains alone.
LEMMA TellingKept ==
  ASSUME TInv, TypedInv', CInv', NEW s \in Sessions,
         UNCHANGED <<world, users, grants, values, log>>,
         NEW t, txn' = [txn EXCEPT ![s] = t], Drafted(t), Serial => Current(t, values)
  PROVE  TInv'
  <1>1. \A r \in Sessions : txn'[r] = IF r = s THEN t ELSE txn[r]
    BY DEF TInv, TypedInv
  <1>2. \A r \in Sessions : Drafted(txn'[r])
    BY <1>1 DEF TInv, Telling
  <1>3. Serial => \A r \in Sessions : Current(txn'[r], values)
    BY <1>1 DEF TInv, Telling
  <1>4. Serial' <=> Serial
    BY DEF Serial
  <1>5. Telling'
    BY <1>2, <1>3, <1>4 DEF TInv, Telling
  <1>6. QED
    BY <1>5 DEF TInv

\* A step that ends a request: no other one is under way when they do not overlap.
LEMMA TellingEnds ==
  ASSUME TInv, TypedInv', CInv', NEW s \in Sessions, txn[s] # Idle, world' = world,
         txn' = [txn EXCEPT ![s] = Idle],
         \A e \in Entities : Written(log'[e]),
         ColumnsTold(users', log'), SettingsTold(values', log'),
         Serial => GrantsTold(grants', log') /\ ValuesTold(values', log')
  PROVE  TInv'
  <1>1. \A r \in Sessions : txn'[r] = IF r = s THEN Idle ELSE txn[r]
    BY DEF TInv, TypedInv
  <1>2. \A r \in Sessions : Drafted(txn'[r])
    BY <1>1, IdleDrafts DEF TInv, Telling
  <1>3. Serial => \A r \in Sessions : Current(txn'[r], values')
    <2>1. ASSUME Serial, NEW r \in Sessions PROVE txn'[r] = Idle
      BY <1>1, <2>1, OneSession DEF TInv, CInv
    <2>2. QED
      BY <2>1, IdleDrafts
  <1>4. Serial' <=> Serial
    BY DEF Serial
  <1>5. Telling'
    BY <1>2, <1>3, <1>4 DEF Telling
  <1>6. QED
    BY <1>5 DEF TInv

LEMMA BeginTells ==
  ASSUME TInv, TypedInv', CInv', NEW s \in Sessions,
         NEW op, NEW ent, NEW locks, NEW more, Begin(s, op, ent, locks, more),
         \A t : t.op = op /\ t.ent = ent /\ t.more = more /\ t.stage = "read" =>
                  Drafted(t) /\ (Serial => Current(t, values))
  PROVE  TInv'
  <1> DEFINE t == [op |-> op, ent |-> ent, locks |-> locks, stage |-> "read", more |-> more]
  <1>1. /\ txn' = [txn EXCEPT ![s] = t]
        /\ UNCHANGED <<world, users, grants, values, log>>
    BY DEF Begin, directory, config
  <1>2. t.op = op /\ t.ent = ent /\ t.more = more /\ t.stage = "read"
    OBVIOUS
  <1> HIDE DEF t
  <1>3. QED
    BY <1>1, <1>2, TellingKept

LEMMA SaveUserTells ==
  ASSUME TInv, TypedInv', CInv', NEW s \in Sessions, NEW actor \in Slots,
         NEW target \in 0 .. MaxUsers, NEW form \in Forms, BeginSaveUser(s, actor, target, form)
  PROVE  TInv'
  <1> DEFINE new == [email |-> form.email, role |-> form.role, limit |-> form.limit,
                     status |-> form.status]
             old == IF target = 0 THEN NoUser ELSE users[target]
             changed == {c \in Columns : old[c] # new[c]}
             m == [user |-> target, by |-> actor, old |-> old, new |-> new,
                   changed |-> changed, wanted |-> Wanted(form)]
             ent == UserOf(IF target = 0 THEN NextUser ELSE target)
             locks == IF target = 0 \/ changed = {} THEN {} ELSE {UserOf(target)}
  <1>1. /\ Begin(s, "user", ent, locks, m) /\ target \in Existing \cup {0}
        /\ target = 0 => NextUser \in Slots
    BY DEF BeginSaveUser
  <1>2. ent \in Entities
    BY <1>1, EntitiesApart DEF Existing
  <1>3. m.changed = changed /\ changed \subseteq Columns
    OBVIOUS
  <1> HIDE DEF m, ent, changed
  <1>4. \A t : t.op = "user" /\ t.ent = ent /\ t.more = m /\ t.stage = "read" =>
                 Drafted(t) /\ (Serial => Current(t, values))
    BY <1>2, <1>3 DEF Drafted, Current
  <1>5. QED
    BY <1>1, <1>4, BeginTells

LEMMA BeginRuleTells ==
  ASSUME TInv, TypedInv', CInv', NEW s \in Sessions, NEW op, NEW locks, NEW more,
         op \in {"template", "add_rule", "delete_rule"}, Begin(s, op, Matrix, locks, more)
  PROVE  TInv'
  <1>1. \A t : t.op = op /\ t.ent = Matrix /\ t.more = more /\ t.stage = "read" =>
                 Drafted(t) /\ (Serial => Current(t, values))
    BY EntitiesApart DEF Drafted, Current
  <1>2. QED
    BY <1>1, BeginTells

\* A key's entity is that of its row, or of the next one.
LEMMA EntityIsRow ==
  ASSUME TInv, NEW k \in Keys, values[k].row # 0 \/ values[k].last < MaxRows
  PROVE  /\ EntityOf(k) \in {k} \X (1 .. MaxRows) /\ EntityOf(k) \in Entities
         /\ values[k].row # 0 => EntityOf(k) = <<k, values[k].row>>
         /\ values[k].row \in 0 .. MaxRows
  <1>1. /\ values[k].row \in {0, values[k].last} /\ values[k].last \in 0 .. MaxRows
        /\ MaxRows \in Nat
    BY AdminAssumption DEF TInv, TypedInv, ValuesTyped
  <1>2. EntityOf(k) \in {k} \X (1 .. MaxRows)
    BY <1>1 DEF EntityOf
  <1>3. QED
    BY <1>1, <1>2, EntitiesApart DEF EntityOf

LEMMA SetSettingTells ==
  ASSUME TInv, TypedInv', CInv', NEW s \in Sessions, NEW actor \in Slots,
         NEW k \in Keys, NEW val, BeginSetSetting(s, actor, k, val)
  PROVE  TInv'
  <1> DEFINE m == [by |-> actor, key |-> k, row |-> values[k].row, from |-> Effective(k),
                   to |-> val, wrote |-> values[k].row = 0 \/ values[k].val # val]
             locks == IF values[k].row # 0 /\ values[k].val # val THEN {EntityOf(k)} ELSE {}
  <1>1. Begin(s, "setting", EntityOf(k), locks, m) /\ k \in SettingKeys
    BY DEF BeginSetSetting
  <1>2. /\ m.key = k /\ m.row = values[k].row /\ m.from = Effective(k) /\ m.to = val
        /\ m.wrote = (values[k].row = 0 \/ values[k].val # val)
    OBVIOUS
  <1> HIDE DEF m
  <1>3. values[k].row = values[k].last /\ values[k].row \in {0, 1}
    <2>1. SettingsTold(values, log)
      BY DEF TInv, Telling
    <2>2. QED
      BY <1>1, <2>1 DEF SettingsTold
  <1>4. EntityOf(k) \in Entities
    BY <1>3, EntityIsRow, AdminAssumption
  <1>5. FirstValue(k).val = Default[k]
    BY <1>1 DEF FirstValue
  <1>6. \A t : t.op = "setting" /\ t.ent = EntityOf(k) /\ t.more = m /\ t.stage = "read" =>
                 Drafted(t) /\ (Serial => Current(t, values))
    <2>1. ASSUME NEW t, t.op = "setting", t.ent = EntityOf(k), t.more = m, t.stage = "read"
          PROVE  Drafted(t)
      <3>1. m.row \in {0, 1} /\ (m.row = 0 => m.from = Default[k])
        BY <1>2, <1>3 DEF Effective
      <3>2. m.row # 0 => (m.wrote <=> m.from # m.to)
        BY <1>2 DEF Effective
      <3>3. QED
        BY <1>2, <1>4, <2>1, <3>1, <3>2 DEF Drafted
    <2>2. ASSUME NEW t, t.op = "setting", t.more = m
          PROVE  Current(t, values)
      BY <1>2, <1>5, <2>2 DEF Current, Effective
    <2>3. QED
      BY <2>1, <2>2
  <1>7. QED
    BY <1>1, <1>6, BeginTells

LEMMA SetRateTells ==
  ASSUME TInv, TypedInv', CInv', NEW s \in Sessions, NEW actor \in Slots,
         NEW k \in Keys, NEW val, BeginSetRate(s, actor, k, val)
  PROVE  TInv'
  <1> DEFINE m == [by |-> actor, key |-> k, row |-> values[k].row,
                   from |-> IF values[k].row = 0 THEN None ELSE values[k].val, to |-> val,
                   wrote |-> values[k].row = 0 \/ values[k].val # val]
             locks == IF values[k].row # 0 /\ values[k].val # val THEN {EntityOf(k)} ELSE {}
  <1>1. /\ Begin(s, "rate", EntityOf(k), locks, m) /\ k \in RateKeys
        /\ values[k].last < MaxRows \/ values[k].row # 0
    BY DEF BeginSetRate
  <1>2. /\ m.key = k /\ m.row = values[k].row /\ m.to = val
        /\ m.from = IF values[k].row = 0 THEN None ELSE values[k].val
        /\ m.wrote = (values[k].row = 0 \/ values[k].val # val)
    OBVIOUS
  <1> HIDE DEF m
  <1>3. EntityOf(k) \in Entities /\ values[k].row \in 0 .. MaxRows
    BY <1>1, EntityIsRow
  <1>4. FirstValue(k).val = None
    BY <1>1, AdminAssumption DEF FirstValue
  <1>5. \A t : t.op = "rate" /\ t.ent = EntityOf(k) /\ t.more = m /\ t.stage = "read" =>
                 Drafted(t) /\ (Serial => Current(t, values))
    BY <1>2, <1>3, <1>4 DEF Drafted, Current
  <1>6. QED
    BY <1>1, <1>5, BeginTells

LEMMA DeleteRateTells ==
  ASSUME TInv, TypedInv', CInv', NEW s \in Sessions, NEW actor \in Slots,
         NEW k \in Keys, BeginDeleteRate(s, actor, k)
  PROVE  TInv'
  <1> DEFINE m == [by |-> actor, key |-> k, row |-> values[k].row, from |-> values[k].val]
  <1>1. Begin(s, "delete_rate", EntityOf(k), {}, m) /\ k \in RateKeys /\ values[k].row # 0
    BY DEF BeginDeleteRate
  <1>2. m.key = k /\ m.row = values[k].row /\ m.from = values[k].val
    OBVIOUS
  <1> HIDE DEF m
  <1>3. /\ EntityOf(k) \in Entities /\ EntityOf(k) = <<k, values[k].row>>
        /\ EntityOf(k) \in RateKeys \X (1 .. MaxRows)
    BY <1>1, EntityIsRow
  <1>4. \A t : t.op = "delete_rate" /\ t.ent = EntityOf(k) /\ t.more = m /\ t.stage = "read" =>
                 Drafted(t) /\ (Serial => Current(t, values))
    BY <1>1, <1>2, <1>3 DEF Drafted, Current
  <1>5. QED
    BY <1>1, <1>4, BeginTells

\* A tip that a request reads is the history of some events.
LEMMA TipIsHistory ==
  ASSUME NEW chain, Written(chain), NEW tip \in Tips(chain)
  PROVE  \E n \in Nat : History(tip, n)
  <1>1. CASE chain = <<>>
    <2>1. History(Genesis, 0)
      BY EmptySeq DEF History, Genesis
    <2>2. QED
      BY <1>1, <2>1 DEF Tips
  <1>2. CASE chain # <<>>
    BY <1>2 DEF Tips, Recorded, Written
  <1>3. QED
    BY <1>1, <1>2

LEMMA FlushTells ==
  ASSUME TInv, TypedInv', CInv', NEW s \in Sessions, Flush(s)
  PROVE  TInv'
  <1>1. PICK tip \in Tips(log[txn[s].ent]) :
          txn' = [txn EXCEPT ![s] =
            [op |-> txn[s].op, ent |-> txn[s].ent, locks |-> txn[s].locks,
             stage |-> "flushed", more |-> txn[s].more, tip |-> tip,
             had |-> IF txn[s].op = "user" /\ txn[s].more.user # 0
                     THEN grants[txn[s].more.user] ELSE {}]]
    BY DEF Flush
  <1> DEFINE t == [op |-> txn[s].op, ent |-> txn[s].ent, locks |-> txn[s].locks,
                   stage |-> "flushed", more |-> txn[s].more, tip |-> tip,
                   had |-> IF txn[s].op = "user" /\ txn[s].more.user # 0
                           THEN grants[txn[s].more.user] ELSE {}]
  <1>2. txn' = [txn EXCEPT ![s] = t] /\ UNCHANGED <<world, users, grants, values, log>>
    BY <1>1 DEF Flush, directory, config
  <1>3. t.op = txn[s].op /\ t.ent = txn[s].ent /\ t.more = txn[s].more /\ t.tip = tip
    OBVIOUS
  <1> HIDE DEF t
  <1>4. Drafted(txn[s]) /\ txn[s].op \notin {"idle", "login"}
    BY DEF TInv, Telling, Flush, Drafted
  <1>5. \E n \in Nat : History(tip, n)
    BY <1>1, <1>4, TipIsHistory DEF TInv, Telling, Drafted
  <1>6. Drafted(t)
    BY <1>3, <1>4, <1>5 DEF Drafted
  <1>7. Serial => Current(t, values)
    BY <1>3 DEF TInv, Telling, Current
  <1>8. QED
    BY <1>2, <1>6, <1>7, TellingKept

\* Recording one event: the chain of its entity gets longer, and no other one.
LEMMA OneChainGrows ==
  ASSUME TInv, NEW s \in Sessions, txn[s].op \notin {"idle", "login"}, txn[s].stage = "flushed",
         NEW ent \in Entities, NEW event, Record(s, ent, event)
  PROVE  /\ \A e \in Entities \ {ent} : log'[e] = log[e]
         /\ \A e \in Entities : Written(log'[e])
         /\ Grows(log[ent], log'[ent], event)
  <1>1. PICK n \in Nat : History(txn[s].tip, n)
    BY DEF TInv, Telling, Drafted
  <1>2. /\ DOMAIN log = Entities
        /\ \A e \in Entities : Written(log[e])
    BY DEF TInv, TypedInv, Telling
  <1>3. /\ \A e \in Entities \ {ent} : log'[e] = log[e]
        /\ log'[ent] = Extended(log[ent], txn[s].tip, event)
    BY <1>2 DEF Record
  <1>4. Grows(log[ent], log'[ent], event)
    BY <1>1, <1>2, <1>3, RecordTells
  <1>5. QED
    BY <1>2, <1>3, <1>4 DEF Grows

\* The chains of settings and rates tell what they told while they stay.
LEMMA ValuesStill ==
  ASSUME NEW vs, NEW old, NEW new, ValuesTold(vs, old),
         \A k \in Keys, row \in 1 .. MaxRows : new[<<k, row>>] = old[<<k, row>>]
  PROVE  ValuesTold(vs, new)
  <1>1. ASSUME NEW k \in Keys, NEW row \in 1 .. MaxRows
        PROVE  /\ Continues(new[<<k, row>>], FirstValue(k))
               /\ row > vs[k].last => new[<<k, row>>] = <<>>
               /\ k \in RateKeys => Told(new[<<k, row>>], "val", None) =
                                      IF vs[k].row = row THEN vs[k].val ELSE None
    <2>1. new[<<k, row>>] = old[<<k, row>>]
      OBVIOUS
    <2>2. /\ Continues(old[<<k, row>>], FirstValue(k))
          /\ row > vs[k].last => old[<<k, row>>] = <<>>
          /\ k \in RateKeys => Told(old[<<k, row>>], "val", None) =
                                 IF vs[k].row = row THEN vs[k].val ELSE None
      BY DEF ValuesTold
    <2>3. QED
      BY <2>1, <2>2
  <1>2. QED
    BY <1>1 DEF ValuesTold

\* A write that touches neither the chains of the users nor those of the keys.
LEMMA TellingElsewhere ==
  ASSUME TInv, UNCHANGED <<users, grants, values>>, \A e \in Entities \ {Matrix} : log'[e] = log[e]
  PROVE  /\ ColumnsTold(users', log') /\ SettingsTold(values', log')
         /\ Serial => GrantsTold(grants', log') /\ ValuesTold(values', log')
  <1>1. \A u \in Slots : log'[UserOf(u)] = log[UserOf(u)]
    BY EntitiesApart
  <1>2. \A k \in Keys, row \in 1 .. MaxRows : log'[<<k, row>>] = log[<<k, row>>]
    BY EntitiesApart
  <1>3. ColumnsTold(users', log')
    BY <1>1 DEF TInv, Telling, ColumnsTold
  <1>4. SettingsTold(values', log')
    BY <1>2, EntitiesApart DEF TInv, Telling, SettingsTold, InForce, Keys
  <1>5. Serial => GrantsTold(grants', log')
    BY <1>1 DEF TInv, Telling, GrantsTold
  <1>6. ASSUME Serial PROVE ValuesTold(values', log')
    <2>1. ValuesTold(values, log)
      BY <1>6 DEF TInv, Telling
    <2>2. QED
      BY <1>2, <2>1, ValuesStill
  <1>7. QED
    BY <1>3, <1>4, <1>5, <1>6

LEMMA CommitRuleTells ==
  ASSUME TInv, TypedInv', CInv', NEW s \in Sessions,
         CommitTemplate(s) \/ CommitAddRule(s) \/ CommitDeleteRule(s)
  PROVE  TInv'
  <1>1. /\ txn[s].op \notin {"idle", "login"} /\ txn[s].stage = "flushed"
        /\ UNCHANGED <<users, grants, values>> /\ world' = world
        /\ txn' = [txn EXCEPT ![s] = Idle]
        /\ \E event : Record(s, Matrix, event)
    BY DEF CommitTemplate, CommitAddRule, CommitDeleteRule, Ready, Done, directory
  <1>2. txn[s] # Idle
    BY <1>1 DEF Idle
  <1>3. /\ \A e \in Entities \ {Matrix} : log'[e] = log[e]
        /\ \A e \in Entities : Written(log'[e])
    BY <1>1, EntitiesApart, OneChainGrows
  <1>4. QED
    BY <1>1, <1>2, <1>3, TellingElsewhere, TellingEnds

\* The event of save_user names every column that it writes, and the grants when
\* they change.
LEMMA CommitUserTells ==
  ASSUME TInv, TypedInv', CInv', NEW s \in Sessions, CommitUser(s)
  PROVE  TInv'
  <1> DEFINE t == txn[s]
             m == t.more
             u == IF m.user = 0 THEN NextUser ELSE m.user
             added == m.wanted \ t.had
             named == Detailed(m, t.had)
             was == [c \in named |-> IF c = "grants" THEN t.had ELSE m.old[c]]
             is == [c \in named |-> IF c = "grants" THEN m.wanted ELSE m.new[c]]
             event == Event(IF m.user = 0 THEN "user_created" ELSE "user_updated", m.by, was, is)
  <1>1. /\ t.op = "user" /\ t.stage = "flushed" /\ u \in Slots
        /\ users' = [users EXCEPT ![u] = [c \in DOMAIN NoUser |->
                                            IF c \in m.changed THEN m.new[c] ELSE @[c]]]
        /\ grants' = [grants EXCEPT ![u] = (@ \ (t.had \ m.wanted)) \cup added]
        /\ IF named = {} THEN UNCHANGED log ELSE Record(s, UserOf(u), event)
        /\ txn' = [txn EXCEPT ![s] = Idle] /\ world' = world /\ values' = values
    BY DEF CommitUser, Ready, Done, config
  <1>2. m.changed \subseteq Columns
    BY <1>1 DEF TInv, Telling, Drafted
  <1>3. Serial => m.old = users[u] /\ t.had = grants[u]
    BY UserInHand DEF TInv, CInv
  <1>4. event.from = was /\ event.to = is
    BY DEF Event
  <1>5. named = m.changed \cup IF t.had # m.wanted THEN {"grants"} ELSE {}
    BY DEF Detailed
  <1>6. /\ DOMAIN was = named /\ DOMAIN is = named
        /\ \A c \in named : /\ was[c] = IF c = "grants" THEN t.had ELSE m.old[c]
                            /\ is[c] = IF c = "grants" THEN m.wanted ELSE m.new[c]
    OBVIOUS
  <1>7. "grants" \notin Columns
    BY DEF Columns
  <1>8. UsersTyped(users, grants)
    BY DEF TInv, TypedInv
  <1>9. t # Idle
    <2>1. t.op = "user"
      BY <1>1
    <2>2. Idle.op = "idle"
      BY DEF Idle
    <2>3. QED
      BY <2>1, <2>2
  <1> HIDE DEF was, is, named, event, u, m, t
  <1>10. /\ \A v \in Slots \ {u} : users'[v] = users[v] /\ grants'[v] = grants[v]
         /\ users'[u] = [c \in Columns |-> IF c \in m.changed THEN m.new[c] ELSE users[u][c]]
         /\ grants'[u] = (grants[u] \ (t.had \ m.wanted)) \cup added
    BY <1>1, <1>8, NoUserRow DEF UsersTyped
  <1>11. UserOf(u) \in Entities
    BY <1>1, EntitiesApart
  <1>12. /\ \A e \in Entities \ {UserOf(u)} : log'[e] = log[e]
         /\ \A e \in Entities : Written(log'[e])
         /\ \A c, otherwise :
              Told(log'[UserOf(u)], c, otherwise) =
                IF c \in named THEN is[c] ELSE Told(log[UserOf(u)], c, otherwise)
         /\ \A first : /\ Continues(log[UserOf(u)], first)
                       /\ \A c \in named : was[c] = Told(log[UserOf(u)], c, first[c])
                       => Continues(log'[UserOf(u)], first)
    <2>1. CASE named = {}
      BY <1>1, <2>1 DEF TInv, Telling
    <2>2. CASE named # {}
      <3>1. Record(s, UserOf(u), event) /\ txn[s].op \notin {"idle", "login"}
            /\ txn[s].stage = "flushed"
        BY <1>1, <2>2 DEF t
      <3>2. /\ \A e \in Entities \ {UserOf(u)} : log'[e] = log[e]
            /\ \A e \in Entities : Written(log'[e])
            /\ Grows(log[UserOf(u)], log'[UserOf(u)], event)
        BY <1>11, <3>1, OneChainGrows
      <3>3. QED
        BY <1>4, <1>6, <3>2 DEF Grows
    <2>3. QED
      BY <2>1, <2>2
  <1>13. \A v \in Slots \ {u} : log'[UserOf(v)] = log[UserOf(v)]
    BY <1>1, <1>12, EntitiesApart
  <1>14. \A k \in Keys, row \in 1 .. MaxRows : log'[<<k, row>>] = log[<<k, row>>]
    BY <1>1, <1>12, EntitiesApart
  <1>15. ColumnsTold(users', log')
    <2>1. ASSUME NEW c \in Columns
          PROVE  users'[u][c] = Told(log'[UserOf(u)], c, FirstRow(u)[c])
      <3>1. users[u][c] = Told(log[UserOf(u)], c, FirstRow(u)[c])
        BY <1>1 DEF TInv, Telling, ColumnsTold
      <3>2. c # "grants" /\ (c \in named <=> c \in m.changed)
        BY <1>5, <1>7
      <3>3. QED
        BY <1>6, <1>10, <1>12, <3>1, <3>2
    <2>2. ASSUME NEW v \in Slots \ {u}, NEW c \in Columns
          PROVE  users'[v][c] = Told(log'[UserOf(v)], c, FirstRow(v)[c])
      BY <1>10, <1>13 DEF TInv, Telling, ColumnsTold
    <2>3. QED
      BY <2>1, <2>2 DEF ColumnsTold
  <1>16. SettingsTold(values', log')
    BY <1>1, <1>14, EntitiesApart DEF TInv, Telling, SettingsTold, InForce, Keys
  <1>17. ASSUME Serial PROVE GrantsTold(grants', log')
    <2>1. /\ grants[u] = Told(log[UserOf(u)], "grants", FirstRow(u).grants)
          /\ Continues(log[UserOf(u)], FirstRow(u))
      BY <1>1, <1>17 DEF TInv, Telling, GrantsTold
    <2>2. grants'[u] = m.wanted
      BY <1>3, <1>10, <1>17
    <2>3. "grants" \in named <=> t.had # m.wanted
      BY <1>2, <1>5, <1>7
    <2>4. grants'[u] = Told(log'[UserOf(u)], "grants", FirstRow(u).grants)
      BY <1>3, <1>6, <1>12, <1>17, <2>1, <2>2, <2>3
    <2>5. ASSUME NEW c \in named
          PROVE  was[c] = Told(log[UserOf(u)], c, FirstRow(u)[c])
      <3>1. CASE c = "grants"
        BY <1>3, <1>6, <1>17, <2>1, <3>1
      <3>2. CASE c # "grants"
        <4>1. c \in Columns
          BY <1>2, <1>5, <3>2
        <4>2. users[u][c] = Told(log[UserOf(u)], c, FirstRow(u)[c])
          BY <1>1, <4>1 DEF TInv, Telling, ColumnsTold
        <4>3. QED
          BY <1>3, <1>6, <1>17, <3>2, <4>2
      <3>3. QED
        BY <3>1, <3>2
    <2>6. Continues(log'[UserOf(u)], FirstRow(u))
      BY <1>12, <2>1, <2>5
    <2>7. ASSUME NEW v \in Slots \ {u}
          PROVE  /\ grants'[v] = Told(log'[UserOf(v)], "grants", FirstRow(v).grants)
                 /\ Continues(log'[UserOf(v)], FirstRow(v))
      BY <1>10, <1>13, <1>17 DEF TInv, Telling, GrantsTold
    <2>8. QED
      BY <2>4, <2>6, <2>7 DEF GrantsTold
  <1>18. ASSUME Serial PROVE ValuesTold(values', log')
    <2>1. ValuesTold(values, log)
      BY <1>18 DEF TInv, Telling
    <2>2. QED
      BY <1>1, <1>14, <2>1, ValuesStill
  <1>19. QED
    BY <1>1, <1>9, <1>12, <1>15, <1>16, <1>17, <1>18, TellingEnds DEF t

\* What changes when the row of one key is written and one event about it, or
\* none, is recorded.
LEMMA KeyTells ==
  ASSUME TInv, TypedInv', CInv', NEW s \in Sessions, txn[s].op \notin {"idle", "login"},
         world' = world, txn' = [txn EXCEPT ![s] = Idle], UNCHANGED <<users, grants>>,
         NEW k \in Keys, NEW row \in 1 .. MaxRows,
         \A q \in Keys \ {k} : values'[q] = values[q],
         \A e \in Entities \ {<<k, row>>} : log'[e] = log[e],
         \A e \in Entities : Written(log'[e]),
         k \in SettingKeys =>
           /\ values'[k].row = values'[k].last /\ values'[k].row \in {0, 1}
           /\ InForce(values', k) = Told(log'[<<k, 1>>], "val", Default[k]),
         Serial => \A r \in 1 .. MaxRows :
           /\ Continues(log'[<<k, r>>], FirstValue(k))
           /\ r > values'[k].last => log'[<<k, r>>] = <<>>
           /\ k \in RateKeys => Told(log'[<<k, r>>], "val", None) =
                                  IF values'[k].row = r THEN values'[k].val ELSE None
  PROVE  TInv'
  <1>1. \A u \in Slots : log'[UserOf(u)] = log[UserOf(u)]
    BY EntitiesApart
  <1>2. \A q \in Keys \ {k}, r \in 1 .. MaxRows : log'[<<q, r>>] = log[<<q, r>>]
    BY EntitiesApart
  <1>3. ColumnsTold(users', log')
    BY <1>1 DEF TInv, Telling, ColumnsTold
  <1>4. SettingsTold(values', log')
    <2>1. ASSUME NEW q \in SettingKeys
          PROVE  /\ values'[q].row = values'[q].last /\ values'[q].row \in {0, 1}
                 /\ InForce(values', q) = Told(log'[<<q, 1>>], "val", Default[q])
      <3>1. CASE q = k
        BY <3>1
      <3>2. CASE q # k
        <4>1. values'[q] = values[q] /\ log'[<<q, 1>>] = log[<<q, 1>>]
          BY <1>2, <3>2, EntitiesApart DEF Keys
        <4>2. SettingsTold(values, log)
          BY DEF TInv, Telling
        <4>3. QED
          BY <4>1, <4>2 DEF SettingsTold, InForce
      <3>3. QED
        BY <3>1, <3>2
    <2>2. QED
      BY <2>1 DEF SettingsTold
  <1>5. Serial => GrantsTold(grants', log')
    BY <1>1 DEF TInv, Telling, GrantsTold
  <1>6. ASSUME Serial PROVE ValuesTold(values', log')
    <2>1. ASSUME NEW q \in Keys \ {k}, NEW r \in 1 .. MaxRows
          PROVE  /\ Continues(log'[<<q, r>>], FirstValue(q))
                 /\ r > values'[q].last => log'[<<q, r>>] = <<>>
                 /\ q \in RateKeys => Told(log'[<<q, r>>], "val", None) =
                                        IF values'[q].row = r THEN values'[q].val ELSE None
      BY <1>2, <1>6 DEF TInv, Telling, ValuesTold
    <2>2. ASSUME NEW r \in 1 .. MaxRows
          PROVE  /\ Continues(log'[<<k, r>>], FirstValue(k))
                 /\ r > values'[k].last => log'[<<k, r>>] = <<>>
                 /\ k \in RateKeys => Told(log'[<<k, r>>], "val", None) =
                                        IF values'[k].row = r THEN values'[k].val ELSE None
      BY <1>6
    <2>3. ASSUME NEW q \in Keys, NEW r \in 1 .. MaxRows
          PROVE  /\ Continues(log'[<<q, r>>], FirstValue(q))
                 /\ r > values'[q].last => log'[<<q, r>>] = <<>>
                 /\ q \in RateKeys => Told(log'[<<q, r>>], "val", None) =
                                        IF values'[q].row = r THEN values'[q].val ELSE None
      <3>1. CASE q = k
        BY <2>2, <3>1, Zenon
      <3>2. CASE q # k
        BY <2>1, <3>2
      <3>3. QED
        BY <3>1, <3>2
    <2>4. QED
      BY <2>3 DEF ValuesTold
  <1>7. txn[s] # Idle
    BY DEF Idle
  <1>8. QED
    BY <1>3, <1>4, <1>5, <1>6, <1>7, TellingEnds

LEMMA OneColumn == \A x : DOMAIN [val |-> x] = {"val"} /\ [val |-> x]["val"] = x
  OBVIOUS

LEMMA CommitValueTells ==
  ASSUME TInv, TypedInv', CInv', NEW s \in Sessions, CommitValue(s)
  PROVE  TInv'
  <1> DEFINE t == txn[s]
             m == t.more
             k == m.key
             row == IF m.row = 0 THEN Stored(k, m).row ELSE m.row
             event == Event(t.op, m.by, [val |-> m.from], [val |-> m.to])
  <1>1. /\ t.op \in {"setting", "rate"} /\ t.stage = "flushed" /\ Writable(k, m)
        /\ values' = [values EXCEPT ![k] = Stored(k, m)]
        /\ IF Noted(t.op, m) THEN Record(s, <<k, row>>, event) ELSE UNCHANGED log
        /\ txn' = [txn EXCEPT ![s] = Idle] /\ world' = world /\ UNCHANGED <<users, grants>>
    BY DEF CommitValue, Ready, Done, directory
  <1>2. /\ t.op = "setting" => k \in SettingKeys
        /\ t.op = "rate" => k \in RateKeys
        /\ k \in Keys /\ (k \in SettingKeys <=> t.op = "setting")
        /\ (k \in RateKeys <=> t.op = "rate")
    <2>1. Meant(t, users)
      BY DEF TInv, TypedInv
    <2>2. QED
      BY <1>1, <2>1, AdminAssumption DEF Meant, Keys
  <1>3. Drafted(t) /\ (Serial => Current(t, values))
    BY DEF TInv, Telling
  <1>4. event.from = [val |-> m.from] /\ event.to = [val |-> m.to]
    BY DEF Event
  <1>5. Noted(t.op, m) <=> t.op = "rate" \/ m.from # m.to
    BY DEF Noted
  <1> HIDE DEF event, k, m, t
  <1>6. /\ values[k] = [row |-> values[k].row, val |-> values[k].val, last |-> values[k].last]
        /\ values[k].row \in {0, values[k].last} /\ values[k].last \in 0 .. MaxRows
        /\ DOMAIN values = Keys /\ MaxRows \in Nat
    BY <1>2, AdminAssumption DEF TInv, TypedInv, ValuesTyped
  <1>7. /\ m.row = 0 => /\ values[k].row = 0 /\ values[k].last < MaxRows
                        /\ row = values[k].last + 1
                        /\ values'[k] = [row |-> values[k].last + 1, val |-> m.to,
                                         last |-> values[k].last + 1]
        /\ m.row # 0 => /\ row = m.row
                        /\ m.wrote => /\ values[k].row = m.row
                                      /\ values'[k] = [row |-> values[k].row, val |-> m.to,
                                                       last |-> values[k].last]
                        /\ ~m.wrote => values'[k] = values[k]
        /\ \A q \in Keys \ {k} : values'[q] = values[q]
    <2>1. values'[k] = Stored(k, m)
      BY <1>1, <1>2, <1>6
    <2>2. m.row = 0 => Stored(k, m) = [row |-> values[k].last + 1, val |-> m.to,
                                        last |-> values[k].last + 1]
      BY DEF Stored
    <2>3. /\ m.row # 0 /\ m.wrote => Stored(k, m) = [row |-> values[k].row, val |-> m.to,
                                                     last |-> values[k].last]
          /\ m.row # 0 /\ ~m.wrote => Stored(k, m) = values[k]
      BY <1>6 DEF Stored
    <2>4. QED
      BY <1>1, <1>6, <2>1, <2>2, <2>3 DEF Writable
  <1>8. row \in 1 .. MaxRows /\ <<k, row>> \in Entities
    <2>1. row \in 1 .. MaxRows
      <3>1. m.row \in 0 .. MaxRows
        BY <1>1, <1>3, <1>6, EntitiesApart DEF Drafted, m
      <3>2. QED
        BY <1>6, <1>7, <3>1
    <2>2. QED
      BY <1>2, <2>1, EntitiesApart
  <1> HIDE DEF row
  <1>9. /\ \A e \in Entities \ {<<k, row>>} : log'[e] = log[e]
        /\ \A e \in Entities : Written(log'[e])
        /\ ~Noted(t.op, m) => log'[<<k, row>>] = log[<<k, row>>]
        /\ Noted(t.op, m) =>
             /\ \A otherwise : Told(log'[<<k, row>>], "val", otherwise) = m.to
             /\ \A first : Continues(log[<<k, row>>], first)
                           /\ m.from = Told(log[<<k, row>>], "val", first["val"])
                           => Continues(log'[<<k, row>>], first)
    <2>1. CASE ~Noted(t.op, m)
      BY <1>1, <2>1 DEF TInv, Telling
    <2>2. CASE Noted(t.op, m)
      <3>1. /\ Record(s, <<k, row>>, event) /\ txn[s].op \notin {"idle", "login"}
            /\ txn[s].stage = "flushed"
        BY <1>1, <2>2 DEF t
      <3>2. /\ \A e \in Entities \ {<<k, row>>} : log'[e] = log[e]
            /\ \A e \in Entities : Written(log'[e])
            /\ Grows(log[<<k, row>>], log'[<<k, row>>], event)
        BY <1>8, <3>1, OneChainGrows
      <3>3. /\ DOMAIN event.to = {"val"} /\ event.to["val"] = m.to
            /\ DOMAIN event.from = {"val"} /\ event.from["val"] = m.from
        BY <1>4, OneColumn
      <3>4. \A otherwise : Told(log'[<<k, row>>], "val", otherwise) = m.to
        BY <3>2, <3>3 DEF Grows
      <3>5. ASSUME NEW first, Continues(log[<<k, row>>], first),
                   m.from = Told(log[<<k, row>>], "val", first["val"])
            PROVE  Continues(log'[<<k, row>>], first)
        <4>1. \A c \in DOMAIN event.from : event.from[c] = Told(log[<<k, row>>], c, first[c])
          BY <3>3, <3>5
        <4>2. QED
          BY <3>2, <3>5, <4>1 DEF Grows
      <3>6. QED
        BY <2>2, <3>2, <3>4, <3>5
    <2>3. QED
      BY <2>1, <2>2
  <1>10. ASSUME k \in SettingKeys
         PROVE  /\ values'[k].row = values'[k].last /\ values'[k].row \in {0, 1}
                /\ InForce(values', k) = Told(log'[<<k, 1>>], "val", Default[k])
    <2>1. /\ values[k].row = values[k].last /\ values[k].row \in {0, 1}
          /\ InForce(values, k) = Told(log[<<k, 1>>], "val", Default[k])
      <3>1. SettingsTold(values, log)
        BY DEF TInv, Telling
      <3>2. QED
        BY <1>10, <3>1 DEF SettingsTold
    <2>2. /\ t.op = "setting" /\ m.row \in {0, 1}
          /\ m.row = 0 => m.from = Default[k]
          /\ m.row # 0 => (m.wrote <=> m.from # m.to)
      BY <1>2, <1>3, <1>10 DEF Drafted, k, m
    <2>3. row = 1
      BY <1>7, <2>1, <2>2
    <2>4. InForce(values', k) = Told(log'[<<k, 1>>], "val", Default[k])
      <3>1. CASE m.row = 0
        <4>1. InForce(values', k) = m.to /\ InForce(values, k) = m.from
          BY <1>6, <1>7, <2>1, <2>2, <3>1 DEF InForce
        <4>2. QED
          BY <1>5, <1>9, <2>1, <2>2, <2>3, <4>1
      <3>2. CASE m.row # 0 /\ m.wrote
        <4>1. InForce(values', k) = m.to
          BY <1>7, <2>2, <3>2 DEF InForce
        <4>2. QED
          BY <1>5, <1>9, <2>2, <2>3, <3>2, <4>1
      <3>3. CASE m.row # 0 /\ ~m.wrote
        <4>1. InForce(values', k) = InForce(values, k)
          BY <1>7, <3>3 DEF InForce
        <4>2. QED
          BY <1>5, <1>9, <2>1, <2>2, <2>3, <3>3, <4>1
      <3>4. QED
        BY <3>1, <3>2, <3>3
    <2>5. values'[k].row = values'[k].last /\ values'[k].row \in {0, 1}
      <3>1. CASE m.row = 0
        BY <1>7, <2>1, <3>1
      <3>2. CASE m.row # 0
        BY <1>7, <2>1, <3>2
      <3>3. QED
        BY <3>1, <3>2
    <2>6. QED
      BY <2>4, <2>5
  <1>11. ASSUME Serial, NEW r \in 1 .. MaxRows
         PROVE  /\ Continues(log'[<<k, r>>], FirstValue(k))
                /\ r > values'[k].last => log'[<<k, r>>] = <<>>
                /\ k \in RateKeys => Told(log'[<<k, r>>], "val", None) =
                                       IF values'[k].row = r THEN values'[k].val ELSE None
    <2>1. \A q \in 1 .. MaxRows :
            /\ Continues(log[<<k, q>>], FirstValue(k))
            /\ q > values[k].last => log[<<k, q>>] = <<>>
            /\ k \in RateKeys => Told(log[<<k, q>>], "val", None) =
                                   IF values[k].row = q THEN values[k].val ELSE None
      <3>1. ValuesTold(values, log)
        BY <1>11 DEF TInv, Telling
      <3>2. QED
        BY <1>2, <3>1 DEF ValuesTold
    <2>2. /\ m.row = values[k].row
          /\ m.from = IF values[k].row = 0 THEN FirstValue(k).val ELSE values[k].val
          /\ m.wrote <=> values[k].row = 0 \/ values[k].val # m.to
      BY <1>1, <1>3, <1>11 DEF Current, k, m
    <2>3. /\ row = IF values[k].row = 0 THEN values[k].last + 1 ELSE values[k].row
          /\ values'[k].row = row /\ values'[k].val = m.to
          /\ values'[k].last = IF values[k].row = 0 THEN values[k].last + 1 ELSE values[k].last
      <3>1. CASE values[k].row = 0
        BY <1>7, <2>2, <3>1
      <3>2. CASE values[k].row # 0 /\ values[k].val # m.to
        BY <1>7, <2>2, <3>2
      <3>3. CASE values[k].row # 0 /\ values[k].val = m.to
        BY <1>7, <2>2, <3>3
      <3>4. QED
        BY <3>1, <3>2, <3>3
    <2>4. CASE r # row
      <3>1. log'[<<k, r>>] = log[<<k, r>>]
        BY <1>2, <1>9, <2>4, EntitiesApart
      <3>2. values[k].row # r /\ (r > values'[k].last => r > values[k].last)
        BY <1>6, <2>3, <2>4
      <3>3. QED
        BY <2>1, <2>3, <2>4, <3>1, <3>2
    <2>5. CASE r = row
      <3>1. ~(r > values'[k].last)
        BY <1>6, <2>3, <2>5
      <3>2. Continues(log'[<<k, r>>], FirstValue(k))
        <4>1. CASE ~Noted(t.op, m)
          BY <1>9, <2>1, <2>5, <4>1
        <4>2. CASE Noted(t.op, m)
          <5>1. m.from = Told(log[<<k, row>>], "val", FirstValue(k)["val"])
            <6>1. CASE values[k].row = 0
              <7>1. log[<<k, row>>] = <<>>
                BY <1>6, <1>8, <2>1, <2>3, <6>1
              <7>2. Told(<<>>, "val", FirstValue(k)["val"]) = FirstValue(k)["val"]
                BY NothingSaid
              <7>3. QED
                BY <2>2, <6>1, <7>1, <7>2
            <6>2. CASE values[k].row # 0 /\ k \in RateKeys
              <7>1. FirstValue(k)["val"] = None
                BY <6>2, AdminAssumption DEF FirstValue
              <7>2. QED
                BY <1>8, <2>1, <2>2, <2>3, <6>2, <7>1
            <6>3. CASE values[k].row # 0 /\ k \in SettingKeys
              <7>1. FirstValue(k)["val"] = Default[k]
                BY <6>3 DEF FirstValue
              <7>2. SettingsTold(values, log)
                BY DEF TInv, Telling
              <7>3. /\ values[k].row \in {0, 1}
                    /\ InForce(values, k) = Told(log[<<k, 1>>], "val", Default[k])
                BY <6>3, <7>2 DEF SettingsTold
              <7>4. QED
                BY <2>2, <2>3, <6>3, <7>1, <7>3 DEF InForce
            <6>4. QED
              BY <1>2, <6>1, <6>2, <6>3 DEF Keys
          <5>2. QED
            BY <1>8, <1>9, <2>1, <2>5, <4>2, <5>1
        <4>3. QED
          BY <4>1, <4>2
      <3>3. k \in RateKeys => Told(log'[<<k, r>>], "val", None) = m.to
        BY <1>2, <1>5, <1>9, <2>5
      <3>4. QED
        BY <2>3, <2>5, <3>1, <3>2, <3>3
    <2>6. QED
      BY <2>4, <2>5
  <1>12. txn[s].op \notin {"idle", "login"}
    BY <1>1 DEF t
  <1>13. QED
    BY <1>1, <1>2, <1>7, <1>8, <1>9, <1>10, <1>11, <1>12, KeyTells

LEMMA CommitDeleteTells ==
  ASSUME TInv, TypedInv', CInv', NEW s \in Sessions, CommitDeleteRate(s)
  PROVE  TInv'
  <1> DEFINE t == txn[s]
             m == t.more
             event == Event("delete_rate", m.by, [val |-> m.from], [val |-> None])
  <1>1. /\ t.op = "delete_rate" /\ t.stage = "flushed"
        /\ values' = [values EXCEPT ![m.key] =
                        IF @.row = m.row THEN [row |-> 0, val |-> None, last |-> @.last] ELSE @]
        /\ Record(s, t.ent, event)
        /\ txn' = [txn EXCEPT ![s] = Idle] /\ world' = world /\ UNCHANGED <<users, grants>>
    BY DEF CommitDeleteRate, Ready, Done, directory
  <1>2. t.ent \in RateKeys \X (1 .. MaxRows) /\ m.key \in RateKeys
    BY <1>1 DEF TInv, TypedInv, Telling, Drafted, Meant
  <1>3. event.from = [val |-> m.from] /\ event.to = [val |-> None]
    BY DEF Event
  <1>4. Serial => Current(t, values)
    BY DEF TInv, Telling
  <1> HIDE DEF event, m, t
  <1>5. PICK k \in RateKeys, row \in 1 .. MaxRows : t.ent = <<k, row>>
    BY <1>2
  <1>6. k \in Keys /\ k \notin SettingKeys /\ m.key \in Keys /\ m.key \notin SettingKeys
        /\ <<k, row>> \in Entities
    BY <1>2, EntitiesApart, AdminAssumption DEF Keys
  <1>7. /\ DOMAIN values = Keys
        /\ \A q \in Keys : /\ values[q].row \in {0, values[q].last}
                           /\ values[q].last \in 0 .. MaxRows
    BY DEF TInv, TypedInv, ValuesTyped
  <1>8. /\ \A q \in Keys \ {m.key} : values'[q] = values[q]
        /\ values'[m.key] = IF values[m.key].row = m.row
                            THEN [row |-> 0, val |-> None, last |-> values[m.key].last]
                            ELSE values[m.key]
    BY <1>1, <1>6, <1>7
  <1>9. txn[s].op \notin {"idle", "login"} /\ txn[s].stage = "flushed" /\ txn[s] # Idle
    BY <1>1 DEF t, Idle
  <1>10. /\ \A e \in Entities \ {<<k, row>>} : log'[e] = log[e]
         /\ \A e \in Entities : Written(log'[e])
         /\ Grows(log[<<k, row>>], log'[<<k, row>>], event)
    BY <1>1, <1>5, <1>6, <1>9, OneChainGrows
  <1>11. /\ DOMAIN event.to = {"val"} /\ event.to["val"] = None
         /\ DOMAIN event.from = {"val"} /\ event.from["val"] = m.from
    BY <1>3, OneColumn
  <1>12. \A u \in Slots : log'[UserOf(u)] = log[UserOf(u)]
    BY <1>10, EntitiesApart DEF Keys
  <1>13. ColumnsTold(users', log')
    BY <1>1, <1>12 DEF TInv, Telling, ColumnsTold
  <1>14. SettingsTold(values', log')
    <2>1. ASSUME NEW q \in SettingKeys
          PROVE  values'[q] = values[q] /\ log'[<<q, 1>>] = log[<<q, 1>>]
      <3>1. q \in Keys /\ q # k /\ q # m.key
        BY <1>6 DEF Keys
      <3>2. <<q, 1>> \in Entities \ {<<k, row>>}
        BY <3>1, EntitiesApart
      <3>3. QED
        BY <1>8, <1>10, <3>1, <3>2
    <2>2. SettingsTold(values, log)
      BY DEF TInv, Telling
    <2>3. QED
      BY <2>1, <2>2 DEF SettingsTold, InForce
  <1>15. Serial => GrantsTold(grants', log')
    BY <1>1, <1>12 DEF TInv, Telling, GrantsTold
  <1>16. ASSUME Serial PROVE ValuesTold(values', log')
    <2>1. /\ k = m.key /\ row = m.row /\ m.row = values[k].row /\ m.row # 0
          /\ m.from = values[k].val
      BY <1>1, <1>4, <1>5, <1>16 DEF Current, m
    <2>2. ValuesTold(values, log)
      BY <1>16 DEF TInv, Telling
    <2>3. ASSUME NEW q \in Keys, NEW r \in 1 .. MaxRows
          PROVE  /\ Continues(log'[<<q, r>>], FirstValue(q))
                 /\ r > values'[q].last => log'[<<q, r>>] = <<>>
                 /\ q \in RateKeys => Told(log'[<<q, r>>], "val", None) =
                                        IF values'[q].row = r THEN values'[q].val ELSE None
      <3>1. /\ Continues(log[<<q, r>>], FirstValue(q))
            /\ r > values[q].last => log[<<q, r>>] = <<>>
            /\ q \in RateKeys => Told(log[<<q, r>>], "val", None) =
                                   IF values[q].row = r THEN values[q].val ELSE None
        BY <2>2 DEF ValuesTold
      <3>2. CASE q # k
        <4>1. <<q, r>> \in Entities \ {<<k, row>>}
          BY <3>2, EntitiesApart
        <4>2. values'[q] = values[q] /\ log'[<<q, r>>] = log[<<q, r>>]
          BY <1>8, <1>10, <2>1, <3>2, <4>1
        <4>3. QED
          BY <3>1, <4>2
      <3>3. CASE q = k
        <4>1. values'[k] = [row |-> 0, val |-> None, last |-> values[k].last]
          BY <1>8, <2>1
        <4>2. CASE r # row
          <5>1. <<q, r>> \in Entities \ {<<k, row>>}
            BY <4>2, EntitiesApart
          <5>2. log'[<<q, r>>] = log[<<q, r>>]
            BY <1>10, <5>1
          <5>3. QED
            BY <2>1, <3>1, <3>3, <4>1, <4>2, <5>2
        <4>3. CASE r = row
          <5>1. ~(r > values[k].last)
            BY <1>6, <1>7, <2>1, <4>3
          <5>2. Told(log'[<<k, row>>], "val", None) = None
            BY <1>10, <1>11 DEF Grows
          <5>3. FirstValue(k)["val"] = None
            BY <1>6 DEF FirstValue
          <5>4. m.from = Told(log[<<k, row>>], "val", FirstValue(k)["val"])
            BY <2>1, <3>1, <3>3, <4>3, <5>3
          <5>5. Continues(log[<<k, row>>], FirstValue(k))
            BY <3>1, <3>3, <4>3
          <5>6. Continues(log'[<<k, row>>], FirstValue(k))
            <6>1. \A c \in DOMAIN event.from : event.from[c] = Told(log[<<k, row>>], c, FirstValue(k)[c])
              BY <1>11, <5>4
            <6>2. QED
              BY <1>10, <5>5, <6>1 DEF Grows
          <5>7. QED
            BY <3>3, <4>1, <4>3, <5>1, <5>2, <5>6
        <4>4. QED
          BY <4>2, <4>3
      <3>4. QED
        BY <3>2, <3>3
    <2>4. QED
      BY <2>3 DEF ValuesTold
  <1>17. QED
    BY <1>1, <1>9, <1>10, <1>13, <1>14, <1>15, <1>16, TellingEnds DEF t

\* The row of a user before his first event.
LEMMA FirstRowIs ==
  ASSUME NEW u \in Slots
  PROVE  /\ \A c \in Columns : FirstRow(u)[c] = IF u \in DOMAIN Seed THEN Seed[u][c] ELSE NoUser[c]
         /\ FirstRow(u).grants = IF u \in DOMAIN Seed THEN Seed[u].clients ELSE {}
  <1>1. "grants" \notin Columns
    BY DEF Columns
  <1>2. QED
    BY <1>1 DEF FirstRow

LEMMA TellingInit ==
  ASSUME Init
  PROVE  TInv
  <1>1. TypedInv /\ CInv
    BY TypedInit, CInvInit
  <1>2. /\ \A s \in Sessions : txn[s] = Idle
        /\ \A e \in Entities : log[e] = <<>>
        /\ values = [k \in Keys |-> NoRow]
    BY DEF Init, SignInInit
  <1>3. /\ \A u \in Slots : log[UserOf(u)] = <<>>
        /\ \A k \in Keys, row \in 1 .. MaxRows : log[<<k, row>>] = <<>>
    BY <1>2, EntitiesApart
  <1>4. ASSUME NEW u \in Slots
        PROVE  /\ \A c \in Columns : users[u][c] = FirstRow(u)[c]
               /\ grants[u] = FirstRow(u).grants
    <2>1. /\ users[u] = IF u \in DOMAIN Seed THEN [c \in DOMAIN NoUser |-> Seed[u][c]] ELSE NoUser
          /\ grants[u] = IF u \in DOMAIN Seed THEN Seed[u].clients ELSE {}
      BY DEF Init
    <2>2. QED
      BY <2>1, FirstRowIs, NoUserRow
  <1>5. ColumnsTold(users, log)
    BY <1>3, <1>4, NothingSaid DEF ColumnsTold
  <1>6. SettingsTold(values, log)
    <2>1. NoRow.row = 0 /\ NoRow.last = 0
      BY DEF NoRow
    <2>2. ASSUME NEW k \in SettingKeys
          PROVE  /\ values[k].row = 0 /\ values[k].last = 0
                 /\ InForce(values, k) = Told(log[<<k, 1>>], "val", Default[k])
      <3>1. values[k] = NoRow /\ log[<<k, 1>>] = <<>>
        BY <1>2, <1>3, EntitiesApart DEF Keys
      <3>2. Told(log[<<k, 1>>], "val", Default[k]) = Default[k]
        BY <3>1, NothingSaid
      <3>3. InForce(values, k) = Default[k]
        BY <2>1, <3>1 DEF InForce
      <3>4. QED
        BY <2>1, <3>1, <3>2, <3>3
    <2>3. QED
      BY <2>2 DEF SettingsTold
  <1>7. GrantsTold(grants, log)
    BY <1>3, <1>4, NothingSaid DEF GrantsTold
  <1>8. ValuesTold(values, log)
    <2>1. ASSUME NEW k \in Keys, NEW row \in 1 .. MaxRows
          PROVE  /\ values[k].row # row /\ log[<<k, row>>] = <<>>
      BY <1>2, <1>3, AdminAssumption DEF NoRow
    <2>2. QED
      BY <2>1, NothingSaid DEF ValuesTold
  <1>9. Telling
    BY <1>2, <1>5, <1>6, <1>7, <1>8, IdleDrafts, NothingSaid DEF Telling
  <1>10. QED
    BY <1>1, <1>9 DEF TInv

LEMMA LoginTells ==
  ASSUME TInv, TypedInv', CInv', LoginNext
  PROVE  TInv'
  <1>1. UNCHANGED <<users, grants, values, log>>
    BY DEF LoginNext, Answer, directory, config
  <1>2. ASSUME NEW s \in Sessions, NEW ip \in IPs, NEW email \in Emails, Check(s, ip, email)
        PROVE  TInv'
    <2> DEFINE t == [op |-> "login", ip |-> ip, email |-> email]
    <2>1. world' = world /\ (txn' = txn \/ txn' = [txn EXCEPT ![s] = t])
      BY <1>2 DEF Check
    <2>2. Drafted(t) /\ Current(t, values)
      BY DEF Drafted, Current
    <2> HIDE DEF t
    <2>3. CASE txn' = txn
      BY <1>1, <2>1, <2>3 DEF TInv, Telling, Serial
    <2>4. CASE txn' = [txn EXCEPT ![s] = t]
      BY <1>1, <2>1, <2>2, <2>4, TellingKept
    <2>5. QED
      BY <2>1, <2>3, <2>4
  <1>3. ASSUME NEW s \in Sessions, Answer(s)
        PROVE  TInv'
    <2>1. world' = world /\ txn' = [txn EXCEPT ![s] = Idle]
      BY <1>3 DEF Answer, Succeed, Fail
    <2>2. QED
      BY <1>1, <2>1, IdleDrafts, TellingKept
  <1>4. CASE Tick
    BY <1>1, <1>4 DEF Tick, TInv, Telling, Serial
  <1>5. QED
    BY <1>2, <1>3, <1>4 DEF LoginNext

LEMMA TellingNext ==
  ASSUME TInv, [Next]_vars
  PROVE  TInv'
  <1>0. TypedInv' /\ CInv'
    BY TypedNext, CInvStep DEF TInv
  <1>1. CASE LoginNext
    BY <1>0, <1>1, LoginTells
  <1>2. ASSUME NEW s \in Sessions, NEW actor \in Slots, NEW target \in 0 .. MaxUsers,
               NEW form \in Forms, BeginSaveUser(s, actor, target, form)
        PROVE  TInv'
    BY <1>0, <1>2, SaveUserTells
  <1>3. ASSUME NEW s \in Sessions, NEW actor \in Slots, NEW name \in DOMAIN Templates,
               BeginApplyTemplate(s, actor, name)
        PROVE  TInv'
    BY <1>0, <1>3, BeginRuleTells DEF BeginApplyTemplate
  <1>4. ASSUME NEW s \in Sessions, NEW actor \in Slots, NEW band \in Bands,
               NEW module \in Modules, BeginAddRule(s, actor, band, module)
        PROVE  TInv'
    BY <1>0, <1>4, BeginRuleTells DEF BeginAddRule
  <1>5. ASSUME NEW s \in Sessions, NEW actor \in Slots, NEW i \in 1 .. Len(rules),
               BeginDeleteRule(s, actor, i)
        PROVE  TInv'
    BY <1>0, <1>5, BeginRuleTells DEF BeginDeleteRule
  <1>6. ASSUME NEW s \in Sessions, NEW actor \in Slots, NEW k \in Keys, NEW val,
               \/ BeginSetSetting(s, actor, k, val)
               \/ BeginSetRate(s, actor, k, val)
               \/ BeginDeleteRate(s, actor, k)
        PROVE  TInv'
    BY <1>0, <1>6, SetSettingTells, SetRateTells, DeleteRateTells
  <1>7. ASSUME NEW s \in Sessions, Flush(s) PROVE TInv'
    BY <1>0, <1>7, FlushTells
  <1>8. ASSUME NEW s \in Sessions, Abort(s) PROVE TInv'
    <2>1. /\ txn' = [txn EXCEPT ![s] = Idle]
          /\ UNCHANGED <<world, users, grants, values, log>>
      BY <1>8 DEF Abort, Done, directory, config
    <2>2. QED
      BY <1>0, <2>1, IdleDrafts, TellingKept
  <1>9. ASSUME NEW s \in Sessions, CommitUser(s) PROVE TInv'
    BY <1>0, <1>9, CommitUserTells
  <1>10. ASSUME NEW s \in Sessions,
                CommitTemplate(s) \/ CommitAddRule(s) \/ CommitDeleteRule(s)
         PROVE  TInv'
    BY <1>0, <1>10, CommitRuleTells
  <1>11. ASSUME NEW s \in Sessions, CommitValue(s) \/ CommitDeleteRate(s)
         PROVE  TInv'
    BY <1>0, <1>11, CommitValueTells, CommitDeleteTells
  <1>12. CASE UNCHANGED vars
    BY <1>0, <1>12 DEF vars, TInv, Telling, Serial
  <1>13. QED
    BY <1>1, <1>2, <1>3, <1>4, <1>5, <1>6, <1>7, <1>8, <1>9, <1>10, <1>11, <1>12 DEF Next

\* The audit trail tells the present state: whatever requests overlap, the events
\* of a user and of a setting, read in the order of the commits, leave every
\* column at its value; while requests do not overlap, so do those of grants and
\* rates, every chain verifies, and each event continues the one before it.
THEOREM TrailStaysTrue == Spec => []TrailTells
  <1>1. TInv => TrailTells
    <2> SUFFICES ASSUME TInv PROVE TrailTells
      OBVIOUS
    <2>1. \A u \in Existing, c \in Columns :
            users[u][c] = ToldLast(UserOf(u), c, FirstRow(u)[c])
      BY DEF TInv, Telling, ColumnsTold, Told, ToldLast, Existing
    <2>2. \A k \in SettingKeys : Effective(k) = ToldLast(<<k, 1>>, "val", Default[k])
      BY DEF TInv, Telling, SettingsTold, InForce, Effective, Told, ToldLast
    <2>3. ChainsVerify
      BY LinearVerifies DEF TInv, CInv, Chained, ChainsVerify
    <2>4. ASSUME Serial, NEW u \in Existing
          PROVE  /\ grants[u] = ToldLast(UserOf(u), "grants", FirstRow(u).grants)
                 /\ Continuous(UserOf(u), FirstRow(u))
      <3>1. GrantsTold(grants, log) /\ u \in Slots
        BY <2>4 DEF TInv, Telling, Existing
      <3>2. QED
        BY <3>1 DEF GrantsTold, Continues, Continuous, Told, ToldLast
    <2>5. ASSUME Serial, NEW k \in Keys, NEW row \in 1 .. values[k].last
          PROVE  /\ Continuous(<<k, row>>, FirstValue(k))
                 /\ k \in RateKeys => ToldLast(<<k, row>>, "val", None) =
                                        IF values[k].row = row THEN values[k].val ELSE None
      <3>1. ValuesTold(values, log)
        BY <2>5 DEF TInv, Telling
      <3>2. row \in 1 .. MaxRows
        BY AdminAssumption DEF TInv, TypedInv, ValuesTyped
      <3>3. /\ Continues(log[<<k, row>>], FirstValue(k))
            /\ k \in RateKeys => Told(log[<<k, row>>], "val", None) =
                                   IF values[k].row = row THEN values[k].val ELSE None
        BY <3>1, <3>2 DEF ValuesTold
      <3>4. QED
        BY <3>3 DEF Continues, Continuous, Told, ToldLast
    <2>6. QED
      BY <2>1, <2>2, <2>3, <2>4, <2>5 DEF TrailTells
  <1>2. QED
    BY <1>1, TellingInit, TellingNext, PTL DEF Spec

-----------------------------------------------------------------------------
(* The approval matrix of a template.                                      *)

LiveOf(rs) == {i \in DOMAIN rs : rs[i].live}

Happened(chain, what) == {i \in DOMAIN chain : Payload(chain[i]).what = what}

\* The live rules are rows of the template that was applied last, all of them
\* unless one was deleted; everything that was there before it is dead.
FromTemplate(rs, chain, name, n) ==
  /\ Len(rs) = n + Len(Templates[name])
  /\ LiveOf(rs) \subseteq n + 1 .. Len(rs)
  /\ \A i \in LiveOf(rs) : rs[i] = Rule(Templates[name][i - n], "eclaim")
  /\ Happened(chain, "rule_deleted") = {} => LiveOf(rs) = n + 1 .. Len(rs)

Ruled(rs, chain) ==
  Happened(chain, "rule_added") = {} =>
    \/ LiveOf(rs) = {} /\ Happened(chain, "template") = {}
    \/ \E name \in DOMAIN Templates, n \in Nat : FromTemplate(rs, chain, name, n)

\* A pending template has seen every live rule.
Seeing(t, rs) == t.op = "template" => t.more.seen = LiveOf(rs)

Ruling == Ruled(rules, log[Matrix]) /\ \A s \in Sessions : Seeing(txn[s], rules)

GInv == TInv /\ (Serial => Ruling)

LEMMA IdleSees == \A rs : Seeing(Idle, rs)
  BY DEF Idle, Seeing

\* What happened so far, and the event that was just recorded.
LEMMA HappenedMore ==
  ASSUME NEW old, NEW new, NEW event, Grows(old, new, event), NEW what
  PROVE  Happened(new, what) =
           Happened(old, what) \cup IF event.what = what THEN {Len(old) + 1} ELSE {}
  <1>1. /\ Len(old) \in Nat /\ DOMAIN old = 1 .. Len(old) /\ DOMAIN new = 1 .. Len(old) + 1
        /\ \A i \in 1 .. Len(old) : new[i] = old[i]
        /\ Payload(new[Len(old) + 1]) = event
    BY DEF Grows
  <1>2. QED
    BY <1>1 DEF Happened

\* A step of one session that leaves the rules and their chain alone.
LEMMA RulingKept ==
  ASSUME GInv, TInv', NEW s \in Sessions, UNCHANGED <<world, rules>>, log'[Matrix] = log[Matrix],
         NEW t, txn' = [txn EXCEPT ![s] = t], Serial => Seeing(t, rules)
  PROVE  GInv'
  <1>1. \A r \in Sessions : txn'[r] = IF r = s THEN t ELSE txn[r]
    BY DEF GInv, TInv, TypedInv
  <1>2. Serial' <=> Serial
    BY DEF Serial
  <1>3. ASSUME Serial PROVE Ruling'
    <2>1. Ruled(rules, log[Matrix]) /\ \A r \in Sessions : Seeing(txn[r], rules)
      BY <1>3 DEF GInv, Ruling
    <2>2. Ruled(rules', log'[Matrix])
      BY <2>1
    <2>3. \A r \in Sessions : Seeing(txn'[r], rules')
      BY <1>1, <1>3, <2>1
    <2>4. QED
      BY <2>2, <2>3 DEF Ruling
  <1>4. QED
    BY <1>2, <1>3 DEF GInv

\* A commit that leaves the matrix in order.
LEMMA RulingEnds ==
  ASSUME GInv, TInv', NEW s \in Sessions, txn[s] # Idle, world' = world,
         txn' = [txn EXCEPT ![s] = Idle], Serial => Ruled(rules', log'[Matrix])
  PROVE  GInv'
  <1>1. \A r \in Sessions : txn'[r] = IF r = s THEN Idle ELSE txn[r]
    BY DEF GInv, TInv, TypedInv
  <1>2. Serial' <=> Serial
    BY DEF Serial
  <1>3. ASSUME Serial PROVE Ruling'
    <2>1. ASSUME NEW r \in Sessions PROVE txn'[r] = Idle
      BY <1>1, <1>3, OneSession DEF GInv, TInv, CInv
    <2>2. QED
      BY <1>3, <2>1, IdleSees DEF Ruling
  <1>4. QED
    BY <1>2, <1>3 DEF GInv

LEMMA BeginRules ==
  ASSUME GInv, TInv', NEW s \in Sessions, NEW op, NEW ent, NEW locks, NEW more,
         Begin(s, op, ent, locks, more), op = "template" => more.seen = LiveOf(rules)
  PROVE  GInv'
  <1> DEFINE t == [op |-> op, ent |-> ent, locks |-> locks, stage |-> "read", more |-> more]
  <1>1. txn' = [txn EXCEPT ![s] = t] /\ UNCHANGED <<world, rules, log>>
    BY DEF Begin, config
  <1>2. Seeing(t, rules)
    BY DEF Seeing
  <1> HIDE DEF t
  <1>3. QED
    BY <1>1, <1>2, RulingKept

\* The matrix's chain gets longer by the event that a request records.
LEMMA MatrixGrows ==
  ASSUME TInv, NEW s \in Sessions, txn[s].op \notin {"idle", "login"}, txn[s].stage = "flushed",
         NEW event, Record(s, Matrix, event)
  PROVE  \A what : Happened(log'[Matrix], what) =
                     Happened(log[Matrix], what)
                       \cup IF event.what = what THEN {Len(log[Matrix]) + 1} ELSE {}
  <1>1. Grows(log[Matrix], log'[Matrix], event)
    BY EntitiesApart, OneChainGrows
  <1>2. QED
    BY <1>1, HappenedMore

LEMMA TemplateIsList ==
  ASSUME NEW name \in DOMAIN Templates
  PROVE  /\ Len(Templates[name]) \in 1 .. 3
         /\ DOMAIN Templates[name] = 1 .. Len(Templates[name])
         /\ Len(Seeded(name)) = Len(Templates[name])
         /\ DOMAIN Seeded(name) = 1 .. Len(Templates[name])
         /\ \A i \in 1 .. Len(Templates[name]) :
              Seeded(name)[i] = Rule(Templates[name][i], "eclaim") /\ Seeded(name)[i].live
  <1>1. name \in {"starter", "small", "growing"}
    BY DEF Templates
  <1>2. Len(Templates[name]) \in 1 .. 3 /\ DOMAIN Templates[name] = 1 .. Len(Templates[name])
    <2>1. CASE name = "starter"
      BY <2>1 DEF Templates
    <2>2. CASE name = "small"
      BY <2>2 DEF Templates
    <2>3. CASE name = "growing"
      BY <2>3 DEF Templates
    <2>4. QED
      BY <1>1, <2>1, <2>2, <2>3
  <1>3. DOMAIN Seeded(name) = 1 .. Len(Templates[name])
        /\ \A i \in 1 .. Len(Templates[name]) : Seeded(name)[i] = Rule(Templates[name][i], "eclaim")
    BY <1>2 DEF Seeded
  <1>4. Len(Seeded(name)) = Len(Templates[name])
    BY <1>2, <1>3, TemplateRows, LenProperties
  <1>5. QED
    BY <1>2, <1>3, <1>4 DEF Rule

\* Applying a template ends every rule that was there and adds its own.
LEMMA CommitTemplateRules ==
  ASSUME GInv, TInv', NEW s \in Sessions, CommitTemplate(s)
  PROVE  GInv'
  <1> DEFINE m == txn[s].more
             n == Len(rules)
             T == Templates[m.name]
             rs == Removed(m.seen) \o Seeded(m.name)
             event == Event("template", m.by, None, m.name)
  <1>1. /\ txn[s].op = "template" /\ txn[s].stage = "flushed" /\ rules' = rs
        /\ Record(s, Matrix, event) /\ txn' = [txn EXCEPT ![s] = Idle] /\ world' = world
    BY DEF CommitTemplate, Ready, Done
  <1>2. txn[s] # Idle
    BY <1>1 DEF Idle
  <1>3. m.name \in DOMAIN Templates /\ rules \in Seq(RuleRows)
    BY <1>1 DEF GInv, TInv, TypedInv, Meant
  <1>4. ASSUME Serial PROVE Ruled(rules', log'[Matrix])
    <2>1. m.seen = LiveOf(rules)
      BY <1>1, <1>4 DEF GInv, Ruling, Seeing
    <2>2. /\ n \in Nat /\ DOMAIN rules = 1 .. n
          /\ Removed(m.seen) \in Seq(RuleRows) /\ Len(Removed(m.seen)) = n
          /\ DOMAIN Removed(m.seen) = 1 .. n
      BY <1>3, RemovedRows, LenProperties
    <2>3. /\ Len(T) \in 1 .. 3 /\ Len(Seeded(m.name)) = Len(T)
          /\ Seeded(m.name) \in Seq(RuleRows)
          /\ \A i \in 1 .. Len(T) :
               Seeded(m.name)[i] = Rule(T[i], "eclaim") /\ Seeded(m.name)[i].live
      BY <1>3, TemplateIsList, TemplateRows
    <2> HIDE DEF T, n
    <2>4. /\ Len(rs) = n + Len(T) /\ DOMAIN rs = 1 .. n + Len(T)
          /\ \A i \in 1 .. n + Len(T) :
               rs[i] = IF i <= n THEN Removed(m.seen)[i] ELSE Seeded(m.name)[i - n]
      <3> DEFINE R == Removed(m.seen)
                 Q == Seeded(m.name)
      <3>1. /\ R \in Seq(RuleRows) /\ Len(R) = n /\ Q \in Seq(RuleRows) /\ Len(Q) = Len(T)
            /\ rs = R \o Q
        BY <2>2, <2>3
      <3> HIDE DEF R, Q, rs
      <3>2. /\ R \o Q \in Seq(RuleRows) /\ Len(R \o Q) = Len(R) + Len(Q)
            /\ \A i \in 1 .. Len(R) + Len(Q) :
                 (R \o Q)[i] = IF i <= Len(R) THEN R[i] ELSE Q[i - Len(R)]
        BY <3>1, ConcatProperties, Zenon
      <3>3. /\ rs \in Seq(RuleRows) /\ Len(rs) = n + Len(T)
            /\ \A i \in 1 .. n + Len(T) : rs[i] = IF i <= n THEN R[i] ELSE Q[i - n]
        BY <3>1, <3>2
      <3>4. DOMAIN rs = 1 .. n + Len(T)
        BY <3>3, LenProperties
      <3>5. QED
        BY <3>3, <3>4 DEF R, Q
    <2>5. \A i \in 1 .. n : ~Removed(m.seen)[i].live
      BY <1>3, <2>1, <2>2, ElementOfSeq DEF Removed, LiveOf, RuleRows
    <2> HIDE DEF rs
    <2>6. \A i \in n + 1 .. n + Len(T) : rs[i] = Rule(T[i - n], "eclaim") /\ rs[i].live
      <3>1. ASSUME NEW i \in n + 1 .. n + Len(T)
            PROVE  rs[i] = Rule(T[i - n], "eclaim") /\ rs[i].live
        <4>1. i - n \in 1 .. Len(T) /\ i \in 1 .. n + Len(T) /\ ~(i <= n)
          BY <2>2, <2>3
        <4>2. QED
          BY <2>3, <2>4, <4>1
      <3>2. QED
        BY <3>1
    <2>7. LiveOf(rs) = n + 1 .. n + Len(T)
      <3>1. \A i \in DOMAIN rs : rs[i].live <=> i \in n + 1 .. n + Len(T)
        <4>1. ASSUME NEW i \in DOMAIN rs PROVE rs[i].live <=> i \in n + 1 .. n + Len(T)
          <5>1. CASE i <= n
            <6>1. i \in 1 .. n /\ ~(i \in n + 1 .. n + Len(T))
              <7>1. n \in Nat /\ i \in 1 .. n + Len(T) /\ Len(T) \in Nat
                BY <2>2, <2>3, <2>4
              <7>2. QED
                BY <5>1, <7>1
            <6>2. rs[i] = Removed(m.seen)[i]
              BY <2>4, <5>1
            <6>3. QED
              BY <2>5, <6>1, <6>2
          <5>2. CASE ~(i <= n)
            BY <2>2, <2>3, <2>4, <2>6, <5>2
          <5>3. QED
            BY <5>1, <5>2
        <4>2. QED
          BY <4>1
      <3>2. n + 1 .. n + Len(T) \subseteq DOMAIN rs
        BY <2>2, <2>3, <2>4
      <3>3. QED
        BY <3>1, <3>2 DEF LiveOf
    <2>8. FromTemplate(rs, log'[Matrix], m.name, n)
      BY <2>4, <2>6, <2>7 DEF FromTemplate, T
    <2>9. QED
      BY <1>1, <1>3, <2>2, <2>8 DEF Ruled
  <1>5. QED
    BY <1>1, <1>2, <1>4, RulingEnds

LEMMA CommitAddRules ==
  ASSUME GInv, TInv', NEW s \in Sessions, CommitAddRule(s)
  PROVE  GInv'
  <1> DEFINE m == txn[s].more
             event == Event("rule_added", m.by, None, m.rule)
  <1>1. /\ txn[s].op = "add_rule" /\ txn[s].stage = "flushed"
        /\ Record(s, Matrix, event) /\ txn' = [txn EXCEPT ![s] = Idle] /\ world' = world
    BY DEF CommitAddRule, Ready, Done
  <1>2. txn[s] # Idle
    BY <1>1 DEF Idle
  <1>3. event.what = "rule_added"
    BY DEF Event
  <1> HIDE DEF event
  <1>4. Happened(log'[Matrix], "rule_added") # {}
    <2>1. Happened(log'[Matrix], "rule_added") =
            Happened(log[Matrix], "rule_added") \cup {Len(log[Matrix]) + 1}
      BY <1>1, <1>3, MatrixGrows DEF GInv
    <2>2. QED
      BY <2>1
  <1>5. QED
    BY <1>1, <1>2, <1>4, RulingEnds DEF Ruled

LEMMA CommitDeleteRules ==
  ASSUME GInv, TInv', NEW s \in Sessions, CommitDeleteRule(s)
  PROVE  GInv'
  <1> DEFINE m == txn[s].more
             rs == Removed({m.rule})
             event == Event("rule_deleted", m.by, [rules[m.rule] EXCEPT !.live = TRUE], None)
  <1>1. /\ txn[s].op = "delete_rule" /\ txn[s].stage = "flushed" /\ rules' = rs
        /\ Record(s, Matrix, event) /\ txn' = [txn EXCEPT ![s] = Idle] /\ world' = world
    BY DEF CommitDeleteRule, Ready, Done
  <1>2. txn[s] # Idle /\ event.what = "rule_deleted"
    BY <1>1 DEF Idle, Event
  <1> HIDE DEF event
  <1>3. \A what : Happened(log'[Matrix], what) =
                    Happened(log[Matrix], what)
                      \cup IF event.what = what THEN {Len(log[Matrix]) + 1} ELSE {}
    BY <1>1, MatrixGrows DEF GInv
  <1>4. rules \in Seq(RuleRows)
    BY DEF GInv, TInv, TypedInv
  <1>5. /\ Len(rs) = Len(rules) /\ DOMAIN rs = DOMAIN rules
        /\ \A i \in DOMAIN rules : rules[i] \in RuleRows
    BY <1>4, RemovedRows, ElementOfSeq, LenProperties
  <1>6. LiveOf(rs) \subseteq LiveOf(rules) /\ \A i \in LiveOf(rs) : rs[i] = rules[i]
    BY <1>5 DEF LiveOf, Removed, RuleRows
  <1> HIDE DEF rs
  <1>7. ASSUME Serial, Happened(log'[Matrix], "rule_added") = {}
        PROVE  \/ LiveOf(rs) = {} /\ Happened(log'[Matrix], "template") = {}
               \/ \E name \in DOMAIN Templates, n \in Nat :
                    FromTemplate(rs, log'[Matrix], name, n)
    <2>1. Happened(log[Matrix], "rule_added") = {} /\ Ruled(rules, log[Matrix])
      BY <1>3, <1>7 DEF GInv, Ruling
    <2>2. CASE LiveOf(rules) = {} /\ Happened(log[Matrix], "template") = {}
      <3>1. Happened(log'[Matrix], "template") = {}
        BY <1>2, <1>3, <2>2
      <3>2. QED
        BY <1>6, <2>2, <3>1
    <2>3. CASE \E name \in DOMAIN Templates, n \in Nat :
                 FromTemplate(rules, log[Matrix], name, n)
      <3>1. PICK name \in DOMAIN Templates, n \in Nat : FromTemplate(rules, log[Matrix], name, n)
        BY <2>3
      <3>2. Happened(log'[Matrix], "rule_deleted") # {}
        <4>1. Happened(log'[Matrix], "rule_deleted") =
                Happened(log[Matrix], "rule_deleted") \cup {Len(log[Matrix]) + 1}
          BY <1>2, <1>3
        <4>2. QED
          BY <4>1
      <3>3. FromTemplate(rs, log'[Matrix], name, n)
        BY <1>5, <1>6, <3>1, <3>2 DEF FromTemplate
      <3>4. QED
        BY <3>3
    <2>4. QED
      BY <2>1, <2>2, <2>3 DEF Ruled
  <1>8. Serial => Ruled(rules', log'[Matrix])
    BY <1>1, <1>7 DEF Ruled
  <1>9. QED
    BY <1>1, <1>2, <1>8, RulingEnds

\* The other commits record in other chains.
LEMMA CommitElsewhereRules ==
  ASSUME GInv, TInv', NEW s \in Sessions, CommitUser(s) \/ CommitValue(s) \/ CommitDeleteRate(s)
  PROVE  GInv'
  <1>1. UNCHANGED <<world, rules>> /\ txn' = [txn EXCEPT ![s] = Idle]
    BY DEF CommitUser, CommitValue, CommitDeleteRate, Done, config
  <1>2. log' = log \/ \E ent, event : ent # Matrix /\ Record(s, ent, event)
    <2>1. CASE CommitUser(s)
      BY <2>1, EntitiesApart DEF CommitUser
    <2>2. CASE CommitValue(s)
      <3>1. txn[s].more.key \in Keys
        BY <2>2 DEF CommitValue, Ready, GInv, TInv, TypedInv, Meant, Keys
      <3>2. \A row : <<txn[s].more.key, row>> # Matrix
        BY <3>1, AdminAssumption DEF Matrix
      <3>3. QED
        BY <2>2, <3>2 DEF CommitValue
    <2>3. CASE CommitDeleteRate(s)
      <3>1. txn[s].ent \in RateKeys \X (1 .. MaxRows)
        BY <2>3 DEF CommitDeleteRate, Ready, GInv, TInv, Telling, Drafted
      <3>2. txn[s].ent # Matrix
        BY <3>1, EntitiesApart DEF Keys
      <3>3. QED
        BY <2>3, <3>2 DEF CommitDeleteRate
    <2>4. QED
      BY <2>1, <2>2, <2>3
  <1>3. log'[Matrix] = log[Matrix]
    <2>1. CASE log' = log
      BY <2>1
    <2>2. ASSUME NEW ent, NEW event, ent # Matrix, Record(s, ent, event)
          PROVE  log'[Matrix] = log[Matrix]
      <3>1. Matrix \in DOMAIN log
        BY EntitiesApart DEF GInv, TInv, TypedInv
      <3>2. QED
        BY <2>2, <3>1 DEF Record
    <2>3. QED
      BY <1>2, <2>1, <2>2
  <1>4. QED
    BY <1>1, <1>3, IdleSees, RulingKept

LEMMA RulingInit ==
  ASSUME Init
  PROVE  GInv
  <1>1. TInv
    BY TellingInit
  <1>2. /\ \A s \in Sessions : txn[s] = Idle
        /\ log[Matrix] = <<>> /\ rules = <<>>
    BY EntitiesApart DEF Init, SignInInit
  <1>3. LiveOf(rules) = {} /\ Happened(log[Matrix], "template") = {}
    BY <1>2 DEF LiveOf, Happened
  <1>4. QED
    BY <1>1, <1>2, <1>3, IdleSees DEF GInv, Ruling, Ruled

LEMMA RulingNext ==
  ASSUME GInv, [Next]_vars
  PROVE  GInv'
  <1>0. TInv'
    BY TellingNext DEF GInv
  <1>1. CASE LoginNext
    <2>1. UNCHANGED <<rules, log>>
      BY <1>1 DEF LoginNext, Answer, config
    <2>2. ASSUME NEW s \in Sessions, NEW ip \in IPs, NEW email \in Emails, Check(s, ip, email)
          PROVE  GInv'
      <3> DEFINE t == [op |-> "login", ip |-> ip, email |-> email]
      <3>1. world' = world /\ (txn' = txn \/ txn' = [txn EXCEPT ![s] = t])
        BY <2>2 DEF Check
      <3>2. Seeing(t, rules)
        BY DEF Seeing
      <3> HIDE DEF t
      <3>3. CASE txn' = txn
        BY <1>0, <2>1, <3>1, <3>3 DEF GInv, Ruling, Serial
      <3>4. CASE txn' = [txn EXCEPT ![s] = t]
        BY <1>0, <2>1, <3>1, <3>2, <3>4, RulingKept
      <3>5. QED
        BY <3>1, <3>3, <3>4
    <2>3. ASSUME NEW s \in Sessions, Answer(s)
          PROVE  GInv'
      <3>1. world' = world /\ txn' = [txn EXCEPT ![s] = Idle]
        BY <2>3 DEF Answer, Succeed, Fail
      <3>2. QED
        BY <1>0, <2>1, <3>1, IdleSees, RulingKept
    <2>4. CASE Tick
      BY <1>0, <2>1, <2>4 DEF Tick, GInv, Ruling, Serial
    <2>5. QED
      BY <1>1, <2>2, <2>3, <2>4 DEF LoginNext
  <1>2. ASSUME NEW s \in Sessions, NEW actor \in Slots, NEW target \in 0 .. MaxUsers,
               NEW form \in Forms, BeginSaveUser(s, actor, target, form)
        PROVE  GInv'
    BY <1>0, <1>2, BeginRules DEF BeginSaveUser
  <1>3. ASSUME NEW s \in Sessions, NEW actor \in Slots, NEW name \in DOMAIN Templates,
               BeginApplyTemplate(s, actor, name)
        PROVE  GInv'
    BY <1>0, <1>3, BeginRules DEF BeginApplyTemplate, LiveRules, LiveOf
  <1>4. ASSUME NEW s \in Sessions, NEW actor \in Slots, NEW band \in Bands,
               NEW module \in Modules, BeginAddRule(s, actor, band, module)
        PROVE  GInv'
    BY <1>0, <1>4, BeginRules DEF BeginAddRule
  <1>5. ASSUME NEW s \in Sessions, NEW actor \in Slots, NEW i \in 1 .. Len(rules),
               BeginDeleteRule(s, actor, i)
        PROVE  GInv'
    BY <1>0, <1>5, BeginRules DEF BeginDeleteRule
  <1>6. ASSUME NEW s \in Sessions, NEW actor \in Slots, NEW k \in Keys, NEW val,
               \/ BeginSetSetting(s, actor, k, val)
               \/ BeginSetRate(s, actor, k, val)
               \/ BeginDeleteRate(s, actor, k)
        PROVE  GInv'
    BY <1>0, <1>6, BeginRules DEF BeginSetSetting, BeginSetRate, BeginDeleteRate
  <1>7. ASSUME NEW s \in Sessions, Flush(s) PROVE GInv'
    <2>1. PICK tip \in Tips(log[txn[s].ent]) :
            txn' = [txn EXCEPT ![s] =
              [op |-> txn[s].op, ent |-> txn[s].ent, locks |-> txn[s].locks,
               stage |-> "flushed", more |-> txn[s].more, tip |-> tip,
               had |-> IF txn[s].op = "user" /\ txn[s].more.user # 0
                       THEN grants[txn[s].more.user] ELSE {}]]
      BY <1>7 DEF Flush
    <2> DEFINE t == [op |-> txn[s].op, ent |-> txn[s].ent, locks |-> txn[s].locks,
                     stage |-> "flushed", more |-> txn[s].more, tip |-> tip,
                     had |-> IF txn[s].op = "user" /\ txn[s].more.user # 0
                             THEN grants[txn[s].more.user] ELSE {}]
    <2>2. txn' = [txn EXCEPT ![s] = t] /\ UNCHANGED <<world, rules, log>>
      BY <1>7, <2>1 DEF Flush, config
    <2>3. t.op = txn[s].op /\ t.more = txn[s].more
      OBVIOUS
    <2> HIDE DEF t
    <2>4. Serial => Seeing(t, rules)
      BY <2>3 DEF GInv, Ruling, Seeing
    <2>5. QED
      BY <1>0, <2>2, <2>4, RulingKept
  <1>8. ASSUME NEW s \in Sessions, Abort(s) PROVE GInv'
    <2>1. txn' = [txn EXCEPT ![s] = Idle] /\ UNCHANGED <<world, rules, log>>
      BY <1>8 DEF Abort, Done, config
    <2>2. QED
      BY <1>0, <2>1, IdleSees, RulingKept
  <1>9. ASSUME NEW s \in Sessions, CommitUser(s) \/ CommitValue(s) \/ CommitDeleteRate(s)
        PROVE  GInv'
    BY <1>0, <1>9, CommitElsewhereRules
  <1>10. ASSUME NEW s \in Sessions,
                CommitTemplate(s) \/ CommitAddRule(s) \/ CommitDeleteRule(s)
         PROVE  GInv'
    BY <1>0, <1>10, CommitTemplateRules, CommitAddRules, CommitDeleteRules
  <1>11. CASE UNCHANGED vars
    BY <1>0, <1>11 DEF vars, GInv, Ruling, Serial
  <1>12. QED
    BY <1>1, <1>2, <1>3, <1>4, <1>5, <1>6, <1>7, <1>8, <1>9, <1>10, <1>11 DEF Next

\* The bands of a template follow each other without a gap: every amount lies in
\* one, a larger amount in the same or a later one, which asks for no less.
LEMMA TemplateBands ==
  ASSUME NEW name \in DOMAIN Templates, NEW T, T = Templates[name]
  PROVE  /\ \A i \in 1 .. Len(T) : T[i].role \in Roles
         /\ \A a \in Amounts : \E i \in 1 .. Len(T) : InBand(T[i], a)
         /\ \A a, b \in Amounts : \A i, j \in 1 .. Len(T) :
              a <= b /\ InBand(T[i], a) /\ InBand(T[j], b) =>
                i <= j /\ Rank[T[i].role] <= Rank[T[j].role]
  <1>1. name \in {"starter", "small", "growing"}
    BY DEF Templates
  <1>2. \A n \in 0 .. 6 : None # n
    BY MatrixAssumption DEF Amounts
  <1>3. "manager" \in Roles /\ "partner" \in Roles /\ Rank["manager"] = 2 /\ Rank["partner"] = 3
    BY DEF Roles, Rank
  <1>4. CASE name = "starter"
    <2>1. Len(T) = 1 /\ T[1] = Band(None, None, "manager")
      BY <1>4 DEF Templates
    <2>2. T[1].min = None /\ T[1].max = None /\ T[1].role = "manager"
      BY <2>1 DEF Band
    <2>3. \A a \in Amounts : InBand(T[1], a)
      BY <2>2 DEF InBand
    <2>4. QED
      BY <1>3, <2>1, <2>2, <2>3
  <1>5. CASE name = "small"
    <2>1. Len(T) = 2 /\ T[1] = Band(None, 3, "manager") /\ T[2] = Band(4, None, "partner")
      BY <1>5 DEF Templates
    <2>2. /\ T[1].min = None /\ T[1].max = 3 /\ T[1].role = "manager"
          /\ T[2].min = 4 /\ T[2].max = None /\ T[2].role = "partner"
      BY <2>1 DEF Band
    <2>3. \A a \in Amounts : /\ InBand(T[1], a) <=> a <= 3
                             /\ InBand(T[2], a) <=> a >= 4
      BY <1>2, <2>2 DEF InBand
    <2>4. \A a \in Amounts : a <= 3 \/ a >= 4
      BY DEF Amounts
    <2>5. \A i \in 1 .. Len(T) : i = 1 \/ i = 2
      BY <2>1
    <2>6. \A i \in 1 .. Len(T) : T[i].role \in Roles
      BY <1>3, <2>2, <2>5
    <2>7. \A a \in Amounts : \E i \in 1 .. Len(T) : InBand(T[i], a)
      BY <2>1, <2>3, <2>4
    <2>8. ASSUME NEW a \in Amounts, NEW b \in Amounts, NEW i \in 1 .. Len(T),
                 NEW j \in 1 .. Len(T), a <= b, InBand(T[i], a), InBand(T[j], b)
          PROVE  i <= j /\ Rank[T[i].role] <= Rank[T[j].role]
      <3>1. ~(i = 2 /\ j = 1)
        BY <2>3, <2>8 DEF Amounts
      <3>2. QED
        BY <1>3, <2>2, <2>5, <3>1
    <2>9. QED
      BY <2>6, <2>7, <2>8
  <1>6. CASE name = "growing"
    <2>1. /\ Len(T) = 3 /\ T[1] = Band(None, 1, "manager") /\ T[2] = Band(2, 5, "partner")
          /\ T[3] = Band(6, None, "partner")
      BY <1>6 DEF Templates
    <2>2. /\ T[1].min = None /\ T[1].max = 1 /\ T[1].role = "manager"
          /\ T[2].min = 2 /\ T[2].max = 5 /\ T[2].role = "partner"
          /\ T[3].min = 6 /\ T[3].max = None /\ T[3].role = "partner"
      BY <2>1 DEF Band
    <2>3. \A a \in Amounts : /\ InBand(T[1], a) <=> a <= 1
                             /\ InBand(T[2], a) <=> a >= 2 /\ a <= 5
                             /\ InBand(T[3], a) <=> a >= 6
      BY <1>2, <2>2 DEF InBand
    <2>4. \A a \in Amounts : a <= 1 \/ (a >= 2 /\ a <= 5) \/ a >= 6
      BY DEF Amounts
    <2>5. \A i \in 1 .. Len(T) : i = 1 \/ i = 2 \/ i = 3
      BY <2>1
    <2>6. \A i \in 1 .. Len(T) : T[i].role \in Roles
      BY <1>3, <2>2, <2>5
    <2>7. \A a \in Amounts : \E i \in 1 .. Len(T) : InBand(T[i], a)
      BY <2>1, <2>3, <2>4
    <2>8. ASSUME NEW a \in Amounts, NEW b \in Amounts, NEW i \in 1 .. Len(T),
                 NEW j \in 1 .. Len(T), a <= b, InBand(T[i], a), InBand(T[j], b)
          PROVE  i <= j /\ Rank[T[i].role] <= Rank[T[j].role]
      <3>1. a \in Nat /\ b \in Nat
        BY DEF Amounts
      <3>2. /\ InBand(T[1], b) => b <= 1
            /\ InBand(T[2], b) => b <= 5
            /\ InBand(T[2], a) => a >= 2
            /\ InBand(T[3], a) => a >= 6
        BY <2>3
      <3>3. ~(InBand(T[2], a) /\ InBand(T[1], b))
        BY <2>8, <3>1, <3>2
      <3>4. ~(InBand(T[3], a) /\ InBand(T[1], b))
        BY <2>8, <3>1, <3>2
      <3>5. ~(InBand(T[3], a) /\ InBand(T[2], b))
        BY <2>8, <3>1, <3>2
      <3>6. ~(i = 2 /\ j = 1) /\ ~(i = 3 /\ j = 1) /\ ~(i = 3 /\ j = 2)
        BY <2>8, <3>3, <3>4, <3>5, Zenon
      <3>7. QED
        BY <1>3, <2>2, <2>5, <3>6
    <2>9. QED
      BY <2>6, <2>7, <2>8
  <1>7. QED
    BY <1>1, <1>4, <1>5, <1>6

\* Without a rule for it an amount is denied, unless it lies below every floor.
LEMMA DeniedInGaps ==
  ASSUME rules \in Seq(RuleRows), \A i \in LiveOf(rules) : rules[i].module = "eclaim",
         NEW a \in Amounts, Matching(rules, "eclaim", a) = {}
  PROVE  \/ SignedBy(rules, "eclaim", a) = {}
         \/ \A i \in LiveRules : rules[i].min # None /\ a < rules[i].min
  <1>1. Scoped(rules, "eclaim") = LiveRules
    BY DEF Scoped, LiveRules, LiveOf
  <1>2. Governing(rules, "eclaim", a) = {}
    BY DEF Governing
  <1>3. CASE Gap(rules, "eclaim", a)
    BY <1>2, <1>3 DEF SignedBy
  <1>4. ASSUME ~Gap(rules, "eclaim", a), NEW i \in LiveRules
        PROVE  rules[i].min # None /\ a < rules[i].min
    <2>1. rules[i].min # None /\ ~(a >= rules[i].min)
      BY <1>1, <1>4 DEF Gap
    <2>2. rules[i] \in RuleRows
      BY LenProperties, ElementOfSeq DEF LiveRules
    <2>3. rules[i].min \in Amounts
      BY <2>1, <2>2 DEF RuleRows
    <2>4. QED
      BY <2>1, <2>3 DEF Amounts
  <1>5. QED
    BY <1>3, <1>4

\* One matching rule governs alone.
LEMMA OneGoverns ==
  ASSUME NEW a, NEW i, Matching(rules, "eclaim", a) = {i}, rules[i].module = "eclaim",
         rules[i].role # None, rules[i].min \in Amounts \cup {None}
  PROVE  SignedBy(rules, "eclaim", a) =
           {role \in Roles \ {"viewer"} : Rank[role] >= Rank[rules[i].role]}
  <1>1. ~Before(rules[i], rules[i])
    BY DEF Before, Amounts
  <1>2. "eclaim" # None
    BY MatrixAssumption DEF Modules
  <1>3. Governing(rules, "eclaim", a) = {i}
    BY <1>1, <1>2 DEF Governing
  <1>4. QED
    BY <1>3 DEF SignedBy, Satisfies

LEMMA RuleOfBand ==
  \A band, module : LET r == Rule(band, module) IN
    /\ r.module = module /\ r.role = band.role /\ r.min = band.min /\ r.max = band.max
  BY DEF Rule

\* A set without two different members has at most one.
LEMMA FewerThanTwo ==
  ASSUME NEW S, \A x, y \in S : x = y
  PROVE  Cardinality(S) <= 1
  <1>1. CASE S = {}
    BY <1>1, FS_EmptySet
  <1>2. CASE S # {}
    <2>1. PICK x \in S : TRUE
      BY <1>2
    <2>2. S = {x}
      BY <2>1
    <2>3. Cardinality(S) = 1
      BY <2>2, FS_Singleton
    <2>4. QED
      BY <2>3
  <1>3. QED
    BY <1>1, <1>2

\* "So exactly one rule ever governs an amount" (web/routes.py): while requests do
\* not overlap and no rule was added by hand, no amount has two rules, one without
\* a rule is denied or lies below all, and directly after a template every amount
\* has one, which asks for no less seniority than a smaller amount's.
THEOREM OneRuleGoverns == Spec => []GovernedOnce
  <1>1. GInv => GovernedOnce
    <2> SUFFICES ASSUME GInv, Serial, Did("rule_added") = {}
                 PROVE  /\ \A a \in Amounts : Cardinality(Matching(rules, "eclaim", a)) <= 1
                        /\ \A a \in Amounts : Matching(rules, "eclaim", a) = {} =>
                             \/ SignedBy(rules, "eclaim", a) = {}
                             \/ \A i \in LiveRules : rules[i].min # None /\ a < rules[i].min
                        /\ Did("rule_deleted") = {} /\ Did("template") # {} =>
                             \A a, b \in Amounts : a <= b =>
                               /\ Matching(rules, "eclaim", a) # {}
                               /\ SignedBy(rules, "eclaim", b) \subseteq SignedBy(rules, "eclaim", a)
      BY DEF GovernedOnce
    <2> DEFINE chain == log[Matrix]
               Match(a) == Matching(rules, "eclaim", a)
    <2>1. \A what : Did(what) = Happened(chain, what)
      BY DEF Did, Happened
    <2>2. /\ rules \in Seq(RuleRows) /\ Ruled(rules, chain)
      BY DEF GInv, TInv, TypedInv, Ruling
    <2>3. \A i \in LiveOf(rules) : rules[i] \in RuleRows
      BY <2>2, LenProperties, ElementOfSeq DEF LiveOf
    <2>4. \A a : Match(a) \subseteq LiveOf(rules)
      BY DEF Matching, Scoped, LiveOf
    <2>5. CASE LiveOf(rules) = {} /\ Happened(chain, "template") = {}
      <3>1. \A a : Match(a) = {}
        BY <2>4, <2>5
      <3>2. \A a : Cardinality(Match(a)) <= 1
        BY <3>1, FewerThanTwo
      <3>3. \A a \in Amounts :
              \/ SignedBy(rules, "eclaim", a) = {}
              \/ \A i \in LiveRules : rules[i].min # None /\ a < rules[i].min
        BY <2>5 DEF LiveRules, LiveOf
      <3>4. QED
        BY <2>1, <2>5, <3>2, <3>3
    <2>6. CASE \E name \in DOMAIN Templates, n \in Nat : FromTemplate(rules, chain, name, n)
      <3>1. PICK name \in DOMAIN Templates, n \in Nat : FromTemplate(rules, chain, name, n)
        BY <2>6
      <3> DEFINE T == Templates[name]
      <3>2. /\ Len(T) \in 1 .. 3
            /\ \A i \in 1 .. Len(T) : T[i].role \in Roles
            /\ \A a \in Amounts : \E i \in 1 .. Len(T) : InBand(T[i], a)
            /\ \A a, b \in Amounts : \A i, j \in 1 .. Len(T) :
                 a <= b /\ InBand(T[i], a) /\ InBand(T[j], b) =>
                   i <= j /\ Rank[T[i].role] <= Rank[T[j].role]
        BY TemplateBands, TemplateIsList
      <3>3. /\ LiveOf(rules) \subseteq n + 1 .. n + Len(T)
            /\ \A i \in LiveOf(rules) : rules[i] = Rule(T[i - n], "eclaim")
            /\ Happened(chain, "rule_deleted") = {} => LiveOf(rules) = n + 1 .. n + Len(T)
        BY <3>1 DEF FromTemplate
      <3> HIDE DEF T
      <3>4. \A i \in LiveOf(rules) :
              /\ i \in Nat /\ i - n \in 1 .. Len(T)
              /\ rules[i].module = "eclaim" /\ rules[i].role = T[i - n].role
              /\ \A a : InBand(rules[i], a) <=> InBand(T[i - n], a)
        <4>1. ASSUME NEW i \in LiveOf(rules)
              PROVE  /\ i \in Nat /\ i - n \in 1 .. Len(T)
                     /\ rules[i].module = "eclaim" /\ rules[i].role = T[i - n].role
                     /\ \A a : InBand(rules[i], a) <=> InBand(T[i - n], a)
          <5>1. i \in n + 1 .. n + Len(T)
            BY <3>3
          <5>2. i \in Nat /\ i - n \in 1 .. Len(T)
            BY <3>2, <5>1
          <5>3. /\ rules[i].module = "eclaim" /\ rules[i].role = T[i - n].role
                /\ rules[i].min = T[i - n].min /\ rules[i].max = T[i - n].max
            <6>1. rules[i] = Rule(T[i - n], "eclaim")
              BY <3>3
            <6>2. QED
              BY <6>1, RuleOfBand
          <5>4. QED
            BY <5>2, <5>3 DEF InBand
        <4>2. QED
          BY <4>1
      <3>5. \A a : Match(a) = {i \in LiveOf(rules) : InBand(T[i - n], a)}
        <4>1. Scoped(rules, "eclaim") = LiveOf(rules)
          BY <3>4 DEF Scoped, LiveOf
        <4>2. QED
          BY <3>4, <4>1 DEF Matching
      <3> HIDE DEF Match
      <3>6. ASSUME NEW a \in Amounts, NEW i \in Match(a), NEW j \in Match(a)
            PROVE  i = j
        <4>1. /\ i \in LiveOf(rules) /\ j \in LiveOf(rules)
              /\ InBand(T[i - n], a) /\ InBand(T[j - n], a)
          BY <3>5
        <4>2. /\ i \in Nat /\ j \in Nat /\ i - n \in 1 .. Len(T) /\ j - n \in 1 .. Len(T)
          BY <3>4, <4>1
        <4>3. a <= a
          BY DEF Amounts
        <4>4. i - n <= j - n /\ j - n <= i - n
          BY <3>2, <4>1, <4>2, <4>3
        <4>5. QED
          BY <3>2, <4>2, <4>4
      <3>7. \A a \in Amounts : Cardinality(Match(a)) <= 1
        BY <3>6, FewerThanTwo
      <3>8. ASSUME NEW a \in Amounts, Match(a) = {}
            PROVE  \/ SignedBy(rules, "eclaim", a) = {}
                   \/ \A i \in LiveRules : rules[i].min # None /\ a < rules[i].min
        BY <2>2, <3>4, <3>8, DeniedInGaps DEF Match
      <3>9. ASSUME Happened(chain, "rule_deleted") = {}, NEW a \in Amounts
            PROVE  \E i \in LiveOf(rules) : Match(a) = {i}
        <4>1. PICK q \in 1 .. Len(T) : InBand(T[q], a)
          BY <3>2
        <4>2. n + q \in n + 1 .. n + Len(T) /\ (n + q) - n = q
          BY <3>2
        <4>3. n + q \in LiveOf(rules)
          BY <3>3, <3>9, <4>2
        <4>4. n + q \in Match(a)
          BY <3>5, <4>1, <4>2, <4>3
        <4>5. Match(a) = {n + q}
          BY <3>6, <4>4
        <4>6. QED
          BY <4>3, <4>5
      <3>10. ASSUME Happened(chain, "rule_deleted") = {}, NEW a \in Amounts, NEW b \in Amounts,
                    a <= b
             PROVE  /\ Match(a) # {}
                    /\ SignedBy(rules, "eclaim", b) \subseteq SignedBy(rules, "eclaim", a)
        <4>1. PICK i \in LiveOf(rules) : Match(a) = {i}
          BY <3>9, <3>10
        <4>2. PICK j \in LiveOf(rules) : Match(b) = {j}
          BY <3>9, <3>10
        <4>3. InBand(T[i - n], a) /\ InBand(T[j - n], b)
          BY <3>5, <4>1, <4>2
        <4>4. Rank[rules[i].role] <= Rank[rules[j].role]
          <5>1. /\ i - n \in 1 .. Len(T) /\ j - n \in 1 .. Len(T)
                /\ rules[i].role = T[i - n].role /\ rules[j].role = T[j - n].role
            BY <3>4
          <5>2. Rank[T[i - n].role] <= Rank[T[j - n].role]
            BY <3>2, <3>10, <4>3, <5>1
          <5>3. QED
            BY <5>1, <5>2
        <4>5. /\ rules[i].role \in Roles /\ rules[i].min \in Amounts \cup {None}
              /\ rules[j].role \in Roles /\ rules[j].min \in Amounts \cup {None}
          BY <2>3, <3>2, <3>4 DEF RuleRows
        <4>6. None \notin Roles
          BY MatrixAssumption
        <4>7. /\ SignedBy(rules, "eclaim", a) =
                   {role \in Roles \ {"viewer"} : Rank[role] >= Rank[rules[i].role]}
              /\ SignedBy(rules, "eclaim", b) =
                   {role \in Roles \ {"viewer"} : Rank[role] >= Rank[rules[j].role]}
          <5>1. /\ Matching(rules, "eclaim", a) = {i} /\ rules[i].module = "eclaim"
                /\ Matching(rules, "eclaim", b) = {j} /\ rules[j].module = "eclaim"
            BY <3>4, <4>1, <4>2 DEF Match
          <5>2. rules[i].role # None /\ rules[j].role # None
            BY <4>5, <4>6
          <5>3. QED
            BY <4>5, <5>1, <5>2, OneGoverns
        <4>8. \A role \in Roles : Rank[role] \in Nat
          BY DEF Roles, Rank
        <4>9. \A role \in Roles : Rank[role] >= Rank[rules[j].role] => Rank[role] >= Rank[rules[i].role]
          BY <4>4, <4>5, <4>8
        <4>10. QED
          BY <4>1, <4>7, <4>9
      <3>11. QED
        BY <2>1, <3>7, <3>8, <3>10 DEF Match
    <2>7. QED
      BY <2>1, <2>2, <2>5, <2>6 DEF Ruled
  <1>2. QED
    BY <1>1, RulingInit, RulingNext, PTL DEF Spec

-----------------------------------------------------------------------------
(* The login throttle.                                                     *)

\* Failures in the order in which they were recorded, none later than now.
Failures(now) == [at : 0 .. now, ip : IPs, email : Emails]

Recorder(fl, now) ==
  /\ fl \in Seq(Failures(now))
  /\ \A i, j \in DOMAIN fl : i < j => fl[i].at <= fl[j].at

OfPeer(fl, ip)   == {i \in DOMAIN fl : fl[i].ip = ip}
OfEmail(fl, e)   == {i \in DOMAIN fl : fl[i].email = e}
Fresh(fl, I, now) == {i \in I : fl[i].at + Window > now}

\* The failure behind each time of a bucket, of those in I and in their order.
Traces(b, fl, I) ==
  {g \in [DOMAIN b -> I] : /\ \A j, k \in DOMAIN b : j < k => g[j] < g[k]
                           /\ \A j \in DOMAIN b : b[j] = fl[g[j]].at}

\* A bucket of times of failures in I, with none of those in M missing.
Bucket(b, fl, I, M) ==
  /\ b \in Seq(Nat)
  /\ \E g \in Traces(b, fl, I) : \A i \in M : \E j \in DOMAIN b : g[j] = i

\* The sessions that passed the check for a peer and are not recorded yet.
Passed(w, tx, ip) == {s \in w.sessions : tx[s].op = "login" /\ tx[s].ip = ip}

\* The check admits a login while the peer has fewer failures than the limit,
\* so that those and the logins that passed stay below it but for one login of
\* each session.
Attempted(w, tx, now, fl) ==
  /\ \A s \in Sessions : tx[s].op = "login" => tx[s].ip \in IPs /\ tx[s].email \in Emails
  /\ \A ip \in IPs :
       /\ Cardinality(Fresh(fl, OfPeer(fl, ip), now)) + Cardinality(Passed(w, tx, ip))
            < MaxAttempts + Cardinality(w.sessions)
       /\ \A t \in 0 .. MaxClock :
            Cardinality({i \in OfPeer(fl, ip) : fl[i].at <= t /\ fl[i].at + Window > t})
              < MaxAttempts + Cardinality(w.sessions)

Buckets(now, bi, be, fl) ==
  /\ DOMAIN bi = IPs /\ DOMAIN be = Emails
  /\ \A ip \in IPs : Bucket(bi[ip], fl, OfPeer(fl, ip), Fresh(fl, OfPeer(fl, ip), now))
  /\ \A e \in Emails : Bucket(be[e], fl, OfEmail(fl, e), {})

ThrottleInv ==
  /\ world \in Worlds /\ Alone
  /\ clock \in 0 .. MaxClock /\ Recorder(failed, clock)
  /\ Buckets(clock, byIP, byEmail, failed)
  /\ Attempted(world, txn, clock, failed)

\* The times of a bucket do not decrease.
LEMMA BucketInOrder ==
  ASSUME NEW now \in Nat, NEW fl, Recorder(fl, now), NEW I \in SUBSET DOMAIN fl,
         NEW b \in Seq(Nat), NEW g \in Traces(b, fl, I)
  PROVE  \A j, k \in DOMAIN b : j < k => b[j] <= b[k]
  BY DEF Traces, Recorder

\* What _prune leaves: the positions from the first fresh one on, which are the
\* fresh ones.
LEMMA CountedIs ==
  ASSUME NEW b \in Seq(Nat), clock \in Nat,
         \A j, k \in DOMAIN b : j < k => b[j] <= b[k]
  PROVE  \E m \in 1 .. Len(b) + 1 :
           /\ {j \in DOMAIN b : b[j] + Window > clock} = m .. Len(b)
           /\ Counted(b) \in Seq(Nat) /\ Len(Counted(b)) = Len(b) + 1 - m
           /\ \A j \in DOMAIN Counted(b) : m + j - 1 \in m .. Len(b) /\ Counted(b)[j] = b[m + j - 1]
  <1> DEFINE young == {j \in DOMAIN b : b[j] + Window > clock}
             n == Len(b)
  <1>1. n \in Nat /\ DOMAIN b = 1 .. n /\ \A j \in 1 .. n : b[j] \in Nat
    BY LenProperties
  <1>2. Window \in Nat
    BY SignInAssumption
  <1>3. CASE young = {}
    <2>1. Counted(b) = <<>>
      BY <1>3 DEF Counted
    <2>2. n + 1 \in 1 .. n + 1 /\ n + 1 .. n = {} /\ n + 1 - (n + 1) = 0
      BY <1>1
    <2>3. Len(Counted(b)) = 0 /\ DOMAIN Counted(b) = {} /\ Counted(b) \in Seq(Nat)
      BY <2>1, EmptySeq
    <2> HIDE DEF n
    <2>4. QED
      BY <1>3, <2>2, <2>3 DEF n
  <1>4. CASE young # {}
    <2>1. PICK m \in young : \A k \in young : m <= k
      <3>1. young \subseteq Nat
        BY <1>1
      <3> HIDE DEF young
      <3>2. QED
        BY <1>4, <3>1, LeastOf
    <2>2. m \in 1 .. n
      BY <1>1, <2>1
    <2>3. Min(young) = m
      <3>1. \A x \in young : x \in Nat
        BY <1>1
      <3>2. \A x \in young : (\A y \in young : x <= y) => x = m
        BY <2>1, <3>1
      <3>3. QED
        BY <2>1, <3>2 DEF Min
    <2>4. young = m .. n
      <3>1. ASSUME NEW k \in m .. n PROVE k \in young
        <4>1. k \in 1 .. n /\ b[m] <= b[k]
          BY <1>1, <2>2
        <4>2. b[m] + Window > clock
          BY <2>1
        <4>3. b[k] + Window > clock
          BY <1>1, <1>2, <2>2, <4>1, <4>2
        <4>4. QED
          BY <1>1, <4>1, <4>3
      <3>2. QED
        BY <1>1, <2>1, <3>1
    <2>5. Counted(b) = SubSeq(b, m, n)
      BY <1>4, <2>3 DEF Counted
    <2>6. /\ Counted(b) \in Seq(Nat) /\ Len(Counted(b)) = n + 1 - m
          /\ \A j \in 1 .. n + 1 - m : Counted(b)[j] = b[m + j - 1]
      <3>1. \A i \in m .. n : b[i] \in Nat
        BY <1>1, <2>2
      <3>2. m \in Int /\ n \in Int /\ m <= n
        BY <1>1, <2>2
      <3> HIDE DEF n
      <3>3. SubSeq(b, m, n) \in Seq(Nat) /\ Len(SubSeq(b, m, n)) = n - m + 1
        BY <3>1, <3>2, SubSeqProperties
      <3>4. \A j \in 1 .. n - m + 1 : SubSeq(b, m, n)[j] = b[m + j - 1]
        BY <3>1, <3>2, SubSeqProperties
      <3>5. n - m + 1 = n + 1 - m
        BY <3>2
      <3>6. QED
        BY <2>5, <3>3, <3>4, <3>5
    <2>7. DOMAIN Counted(b) = 1 .. n + 1 - m
      BY <2>6, LenProperties
    <2>8. m \in 1 .. n + 1 /\ \A j \in 1 .. n + 1 - m : m + j - 1 \in m .. n
      BY <1>1, <2>2
    <2> HIDE DEF n
    <2>9. QED
      BY <2>4, <2>6, <2>7, <2>8 DEF n
  <1>5. QED
    BY <1>3, <1>4

\* Pruning a bucket loses no failure that is still fresh.
LEMMA CountedBucket ==
  ASSUME NEW fl, Recorder(fl, clock), clock \in Nat, NEW I \in SUBSET DOMAIN fl, NEW M,
         M \subseteq Fresh(fl, I, clock), NEW b, Bucket(b, fl, I, M)
  PROVE  Bucket(Counted(b), fl, I, M)
  <1>1. PICK g \in Traces(b, fl, I) : \A i \in M : \E j \in DOMAIN b : g[j] = i
    BY DEF Bucket
  <1>2. b \in Seq(Nat) /\ DOMAIN b = 1 .. Len(b) /\ Len(b) \in Nat
    BY LenProperties DEF Bucket
  <1>3. \A j, k \in DOMAIN b : j < k => b[j] <= b[k]
    BY <1>2, BucketInOrder
  <1>4. PICK m \in 1 .. Len(b) + 1 :
          /\ {j \in DOMAIN b : b[j] + Window > clock} = m .. Len(b)
          /\ Counted(b) \in Seq(Nat) /\ Len(Counted(b)) = Len(b) + 1 - m
          /\ \A j \in DOMAIN Counted(b) : m + j - 1 \in m .. Len(b) /\ Counted(b)[j] = b[m + j - 1]
    BY <1>2, <1>3, CountedIs
  <1> DEFINE c == Counted(b)
             h == [j \in DOMAIN c |-> g[m + j - 1]]
  <1>5. DOMAIN c = 1 .. Len(c) /\ Len(c) \in Nat
    BY <1>4, LenProperties
  <1>6. /\ g \in [DOMAIN b -> I] /\ \A j, k \in DOMAIN b : j < k => g[j] < g[k]
        /\ \A j \in DOMAIN b : b[j] = fl[g[j]].at
    BY DEF Traces
  <1>7. \A j \in DOMAIN c : m + j - 1 \in DOMAIN b /\ c[j] = b[m + j - 1]
    BY <1>2, <1>4
  <1>8. h \in Traces(c, fl, I)
    <2>1. h \in [DOMAIN c -> I]
      BY <1>6, <1>7
    <2>2. ASSUME NEW j \in DOMAIN c, NEW k \in DOMAIN c, j < k
          PROVE  h[j] < h[k]
      <3>1. m + j - 1 < m + k - 1
        BY <1>2, <1>5, <2>2
      <3>2. QED
        BY <1>6, <1>7, <3>1
    <2>3. \A j \in DOMAIN c : c[j] = fl[h[j]].at
      BY <1>6, <1>7
    <2> HIDE DEF h, c
    <2>4. QED
      BY <2>1, <2>2, <2>3 DEF Traces
  <1>9. ASSUME NEW i \in M PROVE \E j \in DOMAIN c : h[j] = i
    <2>1. PICK k \in DOMAIN b : g[k] = i
      BY <1>1
    <2>2. b[k] + Window > clock
      BY <1>6, <2>1 DEF Fresh
    <2>3. k \in m .. Len(b)
      BY <1>4, <2>2
    <2>4. k - m + 1 \in 1 .. Len(c) /\ m + (k - m + 1) - 1 = k
      <3>1. m \in Nat \ {0} /\ k \in Nat /\ m <= k /\ k <= Len(b)
        BY <1>2, <2>3
      <3>2. Len(c) = Len(b) + 1 - m
        BY <1>4
      <3>3. \A x, y, n \in Nat : x <= y /\ y <= n =>
              y - x + 1 \in 1 .. n + 1 - x /\ x + (y - x + 1) - 1 = y
        OBVIOUS
      <3>4. /\ k - m + 1 \in 1 .. Len(b) + 1 - m
            /\ m + (k - m + 1) - 1 = k
        BY <1>2, <3>1, <3>3
      <3> HIDE DEF c
      <3>5. QED
        BY <3>2, <3>4
    <2>5. h[k - m + 1] = i
      BY <1>5, <2>1, <2>4
    <2> HIDE DEF h, c
    <2>6. QED
      BY <1>5, <2>4, <2>5
  <1> HIDE DEF h
  <1>10. QED
    BY <1>4, <1>8, <1>9 DEF Bucket

\* How many times _prune leaves: no more than there are fresh failures, and no
\* fewer when the bucket has them all.
LEMMA CountedFresh ==
  ASSUME NEW fl, Recorder(fl, clock), clock \in Nat, NEW I \in SUBSET DOMAIN fl, NEW M,
         NEW b, Bucket(b, fl, I, M)
  PROVE  /\ Len(Counted(b)) \in Nat
         /\ IsFiniteSet(Fresh(fl, I, clock)) /\ Cardinality(Fresh(fl, I, clock)) \in Nat
         /\ Len(Counted(b)) <= Cardinality(Fresh(fl, I, clock))
         /\ M = Fresh(fl, I, clock) => Cardinality(M) <= Len(Counted(b))
  <1>1. PICK g \in Traces(b, fl, I) : \A i \in M : \E j \in DOMAIN b : g[j] = i
    BY DEF Bucket
  <1>2. b \in Seq(Nat) /\ DOMAIN b = 1 .. Len(b) /\ Len(b) \in Nat
    BY LenProperties DEF Bucket
  <1>3. \A j, k \in DOMAIN b : j < k => b[j] <= b[k]
    BY <1>2, BucketInOrder
  <1>4. PICK m \in 1 .. Len(b) + 1 :
          /\ {j \in DOMAIN b : b[j] + Window > clock} = m .. Len(b)
          /\ Len(Counted(b)) = Len(b) + 1 - m
    BY <1>2, <1>3, CountedIs
  <1> DEFINE Y == m .. Len(b)
             F == Fresh(fl, I, clock)
             f == [j \in Y |-> g[j]]
  <1>5. /\ g \in [DOMAIN b -> I] /\ \A j, k \in DOMAIN b : j < k => g[j] < g[k]
        /\ \A j \in DOMAIN b : b[j] = fl[g[j]].at
    BY DEF Traces
  <1>6. IsFiniteSet(Y) /\ Cardinality(Y) = Len(b) + 1 - m
    <2>1. m \in Int /\ Len(b) \in Int
      BY <1>2
    <2>2. IsFiniteSet(Y) /\ Cardinality(Y) = IF m > Len(b) THEN 0 ELSE Len(b) - m + 1
      BY <2>1, FS_Interval
    <2> HIDE DEF Y
    <2>3. QED
      BY <1>2, <2>2
  <1>7. IsFiniteSet(F) /\ Cardinality(F) \in Nat
    <2>1. fl \in Seq(Failures(clock))
      BY DEF Recorder
    <2>2. DOMAIN fl = 1 .. Len(fl) /\ Len(fl) \in Nat
      BY <2>1, LenProperties
    <2>3. IsFiniteSet(DOMAIN fl)
      BY <2>2, FS_Interval
    <2>4. F \in SUBSET DOMAIN fl
      BY DEF Fresh
    <2> HIDE DEF F
    <2>5. QED
      BY <2>3, <2>4, FS_Subset, FS_CardinalityType
  <1>8. Y \subseteq DOMAIN b /\ \A j \in Y : b[j] + Window > clock
    BY <1>4
  <1>9. f \in [Y -> F]
    BY <1>5, <1>8 DEF Fresh
  <1>10. \A j, k \in Y : f[j] = f[k] => j = k
    <2>1. ASSUME NEW j \in Y, NEW k \in Y, j < k PROVE f[j] # f[k]
      <3>1. g[j] < g[k] /\ g[j] \in I /\ g[k] \in I
        BY <1>5, <1>8, <2>1
      <3>2. fl \in Seq(Failures(clock)) /\ DOMAIN fl \subseteq Nat
        BY LenProperties DEF Recorder
      <3>3. g[j] \in Nat /\ g[k] \in Nat
        BY <3>1, <3>2
      <3>4. QED
        BY <3>1, <3>3
    <2>2. \A j, k \in Y : j < k \/ k < j \/ j = k
      BY <1>2
    <2> HIDE DEF f, Y
    <2>3. QED
      BY <2>1, <2>2
  <1>11. Cardinality(Y) <= Cardinality(F)
    <2>1. f \in Injection(Y, F)
      BY <1>9, <1>10, Zenon DEF Injection, IsInjective
    <2> HIDE DEF f, Y, F
    <2>2. QED
      BY <1>7, <2>1, FS_Injection
  <1>12. ASSUME M = F PROVE Cardinality(F) <= Cardinality(Y)
    <2>1. ASSUME NEW i \in F PROVE \E j \in Y : f[j] = i
      <3>1. PICK j \in DOMAIN b : g[j] = i
        BY <1>1, <1>12
      <3>2. b[j] + Window > clock
        BY <1>5, <3>1 DEF Fresh
      <3>3. j \in Y
        BY <1>4, <3>2
      <3>4. f[j] = i
        BY <3>1, <3>3
      <3> HIDE DEF f, Y
      <3>5. QED
        BY <3>3, <3>4
    <2>2. f \in Surjection(Y, F)
      BY <1>9, <2>1, Zenon DEF Surjection
    <2> HIDE DEF f, Y, F
    <2>3. QED
      BY <1>6, <2>2, FS_Surjection
  <1>13. Len(Counted(b)) = Cardinality(Y) /\ Len(Counted(b)) \in Nat
    <2> HIDE DEF Y
    <2>1. QED
      BY <1>2, <1>4, <1>6
  <1> HIDE DEF f, Y, F
  <1>14. QED
    BY <1>7, <1>11, <1>12, <1>13 DEF F

\* A failure is put into a bucket, which then has it.
LEMMA FailureAdded ==
  ASSUME NEW now \in Nat, NEW fl, Recorder(fl, now), NEW I \in SUBSET DOMAIN fl,
         NEW M \in SUBSET I, NEW b, Bucket(b, fl, I, M), NEW r, r.at = now
  PROVE  Bucket(Append(b, now), Append(fl, r), I \cup {Len(fl) + 1}, M \cup {Len(fl) + 1})
  <1> DEFINE n == Len(fl)
             c == Append(b, now)
             fn == Append(fl, r)
  <1>1. PICK g \in Traces(b, fl, I) : \A i \in M : \E j \in DOMAIN b : g[j] = i
    BY DEF Bucket
  <1>2. b \in Seq(Nat) /\ DOMAIN b = 1 .. Len(b) /\ Len(b) \in Nat
    BY LenProperties DEF Bucket
  <1>3. fl \in Seq(Failures(now)) /\ DOMAIN fl = 1 .. n /\ n \in Nat
    BY LenProperties DEF Recorder
  <1>4. /\ g \in [DOMAIN b -> I] /\ \A j, k \in DOMAIN b : j < k => g[j] < g[k]
        /\ \A j \in DOMAIN b : b[j] = fl[g[j]].at
    BY DEF Traces
  <1>5. c \in Seq(Nat) /\ DOMAIN c = 1 .. Len(b) + 1
    BY <1>2, AppendProperties, LenProperties
  <1>6. \A j \in DOMAIN c : c[j] = IF j \in DOMAIN b THEN b[j] ELSE now
    BY <1>2
  <1>7. fn[n + 1] = r /\ \A i \in 1 .. n : fn[i] = fl[i]
    BY <1>3
  <1> DEFINE J == I \cup {n + 1}
             h == [j \in DOMAIN c |-> IF j \in DOMAIN b THEN g[j] ELSE n + 1]
  <1>8. h \in Traces(c, fn, J)
    <2>1. h \in [DOMAIN c -> J]
      BY <1>4
    <2>2. ASSUME NEW j \in DOMAIN c, NEW k \in DOMAIN c, j < k
          PROVE  h[j] < h[k]
      <3>1. j \in DOMAIN b
        BY <1>2, <1>5, <2>2
      <3>2. g[j] \in 1 .. n
        BY <1>3, <1>4, <3>1
      <3>3. CASE k \in DOMAIN b
        BY <1>4, <2>2, <3>1, <3>3
      <3>4. CASE k \notin DOMAIN b
        <4>1. h[j] = g[j] /\ h[k] = n + 1
          BY <3>1, <3>4
        <4> HIDE DEF h
        <4>2. QED
          BY <1>3, <3>2, <4>1
      <3>5. QED
        BY <3>3, <3>4
    <2>3. ASSUME NEW j \in DOMAIN c PROVE c[j] = fn[h[j]].at
      <3>1. CASE j \in DOMAIN b
        <4>1. h[j] = g[j] /\ g[j] \in 1 .. n /\ c[j] = b[j]
          BY <1>3, <1>4, <1>6, <3>1
        <4>2. fn[g[j]] = fl[g[j]]
          BY <1>7, <4>1
        <4> HIDE DEF h, c, fn
        <4>3. QED
          BY <1>4, <3>1, <4>1, <4>2
      <3>2. CASE j \notin DOMAIN b
        <4>1. h[j] = n + 1 /\ c[j] = now
          BY <1>6, <3>2
        <4> HIDE DEF h, c, fn
        <4>2. QED
          BY <1>7, <4>1
      <3>3. QED
        BY <3>1, <3>2
    <2> HIDE DEF h, c, fn, J
    <2>4. QED
      BY <2>1, <2>2, <2>3 DEF Traces
  <1>9. ASSUME NEW i \in M \cup {n + 1} PROVE \E j \in DOMAIN c : h[j] = i
    <2>1. CASE i \in M
      <3>1. PICK j \in DOMAIN b : g[j] = i
        BY <1>1, <2>1
      <3>2. j \in DOMAIN c /\ h[j] = i
        BY <1>2, <1>5, <3>1
      <3> HIDE DEF h
      <3>3. QED
        BY <3>2
    <2>2. CASE i = n + 1
      <3>1. Len(b) + 1 \in DOMAIN c /\ Len(b) + 1 \notin DOMAIN b
        BY <1>2, <1>5
      <3>2. h[Len(b) + 1] = i
        BY <2>2, <3>1
      <3> HIDE DEF h, c
      <3>3. QED
        BY <3>1, <3>2
    <2>3. QED
      BY <2>1, <2>2
  <1> HIDE DEF h, c, fn, J
  <1>10. Bucket(c, fn, J, M \cup {n + 1})
    BY <1>5, <1>8, <1>9 DEF Bucket
  <1>11. QED
    BY <1>10 DEF c, fn, J

\* A failure that is put into other buckets only.
LEMMA FailureElsewhere ==
  ASSUME NEW now \in Nat, NEW fl, Recorder(fl, now), NEW I \in SUBSET DOMAIN fl,
         NEW M, NEW b, Bucket(b, fl, I, M), NEW r
  PROVE  Bucket(b, Append(fl, r), I, M)
  <1>1. PICK g \in Traces(b, fl, I) : \A i \in M : \E j \in DOMAIN b : g[j] = i
    BY DEF Bucket
  <1>2. \A i \in DOMAIN fl : Append(fl, r)[i] = fl[i]
    BY LenProperties DEF Recorder
  <1> DEFINE fn == Append(fl, r)
  <1> HIDE DEF fn
  <1>3. /\ g \in [DOMAIN b -> I] /\ \A j, k \in DOMAIN b : j < k => g[j] < g[k]
        /\ \A j \in DOMAIN b : b[j] = fn[g[j]].at
    BY <1>2 DEF Traces, fn
  <1>4. g \in Traces(b, fn, I)
    BY <1>3 DEF Traces
  <1>5. Bucket(b, fn, I, M)
    BY <1>1, <1>4 DEF Bucket
  <1>6. QED
    BY <1>5 DEF fn

\* A bucket may be asked for less, and an empty one is asked for nothing.
LEMMA BucketLess ==
  /\ \A b, fl, I, M, L : Bucket(b, fl, I, M) /\ L \subseteq M => Bucket(b, fl, I, L)
  /\ \A fl, I : Bucket(<<>>, fl, I, {})
  <1>1. ASSUME NEW b, NEW fl, NEW I, NEW M, NEW L, Bucket(b, fl, I, M), L \subseteq M
        PROVE  Bucket(b, fl, I, L)
    BY <1>1 DEF Bucket
  <1>2. ASSUME NEW fl, NEW I PROVE Bucket(<<>>, fl, I, {})
    <2>1. <<>> \in Seq(Nat) /\ DOMAIN <<>> = {} /\ <<>> \in [{} -> I]
      BY EmptySeq
    <2>2. <<>> \in Traces(<<>>, fl, I)
      BY <2>1 DEF Traces
    <2>3. QED
      BY <2>1, <2>2 DEF Bucket
  <1>3. QED
    BY <1>1, <1>2

\* The failures are finitely many, and the number of those of a peer that are
\* fresh is one.
LEMMA FailuresFinite ==
  ASSUME NEW now \in Nat, NEW fl, Recorder(fl, now)
  PROVE  /\ Len(fl) \in Nat /\ DOMAIN fl = 1 .. Len(fl) /\ IsFiniteSet(DOMAIN fl)
         /\ \A i \in DOMAIN fl : fl[i] \in Failures(now)
         /\ \A T : T \subseteq DOMAIN fl => IsFiniteSet(T) /\ Cardinality(T) \in Nat
  <1>1. Len(fl) \in Nat /\ DOMAIN fl = 1 .. Len(fl) /\ \A i \in DOMAIN fl : fl[i] \in Failures(now)
    BY LenProperties, ElementOfSeq DEF Recorder
  <1>2. IsFiniteSet(DOMAIN fl)
    BY <1>1, FS_Interval
  <1>3. ASSUME NEW T, T \subseteq DOMAIN fl PROVE IsFiniteSet(T) /\ Cardinality(T) \in Nat
    BY <1>2, <1>3, FS_Subset, FS_CardinalityType
  <1>4. QED
    BY <1>1, <1>2, <1>3

\* The later it is, the fewer failures are fresh, and ending a login adds none.
LEMMA AttemptsLess ==
  ASSUME NEW w, IsFiniteSet(w.sessions), NEW now \in Nat, NEW later \in Nat, now <= later,
         NEW fl, Recorder(fl, now), NEW tx, NEW ty, Attempted(w, tx, now, fl),
         \A s \in Sessions \cup w.sessions : ty[s].op = "login" => ty[s] = tx[s]
  PROVE  Attempted(w, ty, later, fl)
  <1>1. ASSUME NEW ip \in IPs
        PROVE  Cardinality(Fresh(fl, OfPeer(fl, ip), later)) + Cardinality(Passed(w, ty, ip))
                 < MaxAttempts + Cardinality(w.sessions)
    <2> DEFINE F == Fresh(fl, OfPeer(fl, ip), now)
               G == Fresh(fl, OfPeer(fl, ip), later)
               P == Passed(w, tx, ip)
               Q == Passed(w, ty, ip)
    <2>1. G \subseteq F
      <3>1. \A i \in DOMAIN fl : fl[i].at \in Nat
        BY FailuresFinite DEF Failures
      <3>2. Window \in Nat
        BY SignInAssumption
      <3>3. QED
        BY <3>1, <3>2 DEF Fresh, OfPeer
    <2>2. F \subseteq DOMAIN fl /\ G \subseteq DOMAIN fl
      BY DEF Fresh, OfPeer
    <2>3. IsFiniteSet(F) /\ Cardinality(F) \in Nat /\ Cardinality(G) \in Nat
      BY <2>2, FailuresFinite
    <2>4. Q \subseteq P /\ P \subseteq w.sessions
      BY DEF Passed
    <2>5. Cardinality(F) + Cardinality(P) < MaxAttempts + Cardinality(w.sessions)
      BY DEF Attempted
    <2> HIDE DEF F, G, P, Q
    <2>6. Cardinality(G) <= Cardinality(F)
      BY <2>1, <2>3, FS_Subset
    <2>7. IsFiniteSet(P) /\ Cardinality(P) \in Nat
      BY <2>4, FS_Subset, FS_CardinalityType
    <2>8. Cardinality(Q) <= Cardinality(P) /\ Cardinality(Q) \in Nat
      BY <2>4, <2>7, FS_Subset, FS_CardinalityType
    <2>9. Cardinality(w.sessions) \in Nat /\ MaxAttempts \in Nat
      BY FS_CardinalityType, SignInAssumption
    <2>10. Cardinality(G) + Cardinality(Q) < MaxAttempts + Cardinality(w.sessions)
      BY <2>3, <2>5, <2>6, <2>7, <2>8, <2>9
    <2>11. QED
      BY <2>10 DEF G, Q
  <1>2. QED
    BY <1>1 DEF Attempted

\* What a new failure adds to those of its peer and of its email.
LEMMA FailureSets ==
  ASSUME NEW now \in Nat, NEW fl, Recorder(fl, now), NEW r \in Failures(now), r.at = now
  PROVE  /\ Recorder(Append(fl, r), now)
         /\ \A ip : OfPeer(Append(fl, r), ip) =
                      OfPeer(fl, ip) \cup IF r.ip = ip THEN {Len(fl) + 1} ELSE {}
         /\ \A e : OfEmail(Append(fl, r), e) =
                     OfEmail(fl, e) \cup IF r.email = e THEN {Len(fl) + 1} ELSE {}
         /\ \A ip : Fresh(Append(fl, r), OfPeer(Append(fl, r), ip), now) =
                      Fresh(fl, OfPeer(fl, ip), now) \cup IF r.ip = ip THEN {Len(fl) + 1} ELSE {}
  <1> DEFINE n == Len(fl)
             fn == Append(fl, r)
  <1>1. n \in Nat /\ DOMAIN fl = 1 .. n /\ \A i \in 1 .. n : fl[i] \in Failures(now)
    BY FailuresFinite
  <1>2. fn \in Seq(Failures(now)) /\ DOMAIN fn = 1 .. n + 1
    BY <1>1, AppendProperties, LenProperties DEF Recorder
  <1>3. fn[n + 1] = r /\ \A i \in 1 .. n : fn[i] = fl[i]
    BY <1>1 DEF Recorder
  <1>4. \A i \in 1 .. n + 1 : i \in 1 .. n \/ i = n + 1
    BY <1>1
  <1>5. 1 .. n \subseteq 1 .. n + 1 /\ n + 1 \in 1 .. n + 1 /\ n + 1 \notin 1 .. n
    BY <1>1
  <1> HIDE DEF fn, n
  <1>6. Recorder(fn, now)
    <2>1. ASSUME NEW i \in DOMAIN fn, NEW j \in DOMAIN fn, i < j PROVE fn[i].at <= fn[j].at
      <3>1. i \in 1 .. n
        BY <1>1, <1>2, <2>1
      <3>2. CASE j \in 1 .. n
        BY <1>1, <1>3, <2>1, <3>1, <3>2 DEF Recorder
      <3>3. CASE j = n + 1
        BY <1>1, <1>3, <3>1, <3>3 DEF Failures
      <3>4. QED
        BY <1>2, <1>4, <3>2, <3>3
    <2>2. QED
      BY <1>2, <2>1 DEF Recorder
  <1>7. \A ip : OfPeer(fn, ip) = OfPeer(fl, ip) \cup IF r.ip = ip THEN {n + 1} ELSE {}
    BY <1>1, <1>2, <1>3, <1>4, <1>5 DEF OfPeer
  <1>8. \A e : OfEmail(fn, e) = OfEmail(fl, e) \cup IF r.email = e THEN {n + 1} ELSE {}
    BY <1>1, <1>2, <1>3, <1>4, <1>5 DEF OfEmail
  <1>9. ASSUME NEW ip
        PROVE  Fresh(fn, OfPeer(fn, ip), now) =
                 Fresh(fl, OfPeer(fl, ip), now) \cup IF r.ip = ip THEN {n + 1} ELSE {}
    <2>1. \A i \in OfPeer(fl, ip) : fn[i] = fl[i]
      BY <1>1, <1>3 DEF OfPeer
    <2>2. fn[n + 1].at + Window > now
      BY <1>3, SignInAssumption
    <2>3. QED
      BY <1>7, <2>1, <2>2 DEF Fresh
  <1>10. QED
    BY <1>6, <1>7, <1>8, <1>9 DEF fn, n

\* Finitely many sessions overlap.
LEMMA WorldSessions ==
  ASSUME NEW w \in Worlds
  PROVE  w.sessions \subseteq Sessions /\ IsFiniteSet(w.sessions) /\ Cardinality(w.sessions) \in Nat
  BY AdminAssumption, FS_CardinalityType DEF Sessions

\* A request of another kind, or its end, leaves the throttle alone.
LEMMA ThrottleStill ==
  ASSUME ThrottleInv, UNCHANGED <<world, throttle>>, NEW s \in Sessions,
         NEW t, txn' = [txn EXCEPT ![s] = t], t.op # "login",
         t = Idle \/ s \in world.sessions
  PROVE  ThrottleInv'
  <1>1. clock' = clock /\ byIP' = byIP /\ byEmail' = byEmail /\ failed' = failed /\ world' = world
    BY DEF throttle
  <1>2. Alone' /\ \A r \in Sessions : txn'[r] = IF r = s THEN t ELSE txn[r]
    BY <1>1 DEF ThrottleInv, Alone
  <1>3. Attempted(world, txn', clock, failed)
    <2>1. world.sessions \subseteq Sessions /\ IsFiniteSet(world.sessions) /\ clock \in Nat
      BY WorldSessions, SignInAssumption DEF ThrottleInv
    <2>2. \A r \in Sessions \cup world.sessions : txn'[r].op = "login" => txn'[r] = txn[r]
      BY <1>2, <2>1
    <2>3. clock <= clock /\ Recorder(failed, clock) /\ Attempted(world, txn, clock, failed)
      BY <2>1 DEF ThrottleInv
    <2>4. QED
      BY <2>1, <2>2, <2>3, AttemptsLess
  <1>4. QED
    BY <1>1, <1>2, <1>3 DEF ThrottleInv

\* Time passes: fewer failures are fresh.
LEMMA TickThrottles ==
  ASSUME ThrottleInv, Tick
  PROVE  ThrottleInv'
  <1>1. /\ clock' = clock + 1 /\ clock \in Nat /\ clock' \in 0 .. MaxClock
        /\ UNCHANGED <<world, txn, byIP, byEmail, failed>>
    BY SignInAssumption DEF Tick, ThrottleInv
  <1>2. Recorder(failed, clock) /\ Alone'
    BY <1>1 DEF ThrottleInv, Alone
  <1>3. Recorder(failed, clock')
    <2>1. failed \in [1 .. Len(failed) -> Failures(clock)] /\ Len(failed) \in Nat
      BY <1>2, LenProperties DEF Recorder
    <2>2. Failures(clock) \subseteq Failures(clock')
      BY <1>1 DEF Failures
    <2>3. failed \in [1 .. Len(failed) -> Failures(clock')]
      BY <2>1, <2>2
    <2>4. failed \in Seq(Failures(clock'))
      BY <2>1, <2>3, SeqDef
    <2>5. QED
      BY <1>2, <2>4 DEF Recorder
  <1>4. Attempted(world, txn, clock', failed)
    <2>1. IsFiniteSet(world.sessions) /\ clock <= clock' /\ clock' \in Nat
      BY <1>1, WorldSessions DEF ThrottleInv
    <2>2. QED
      BY <1>1, <1>2, <2>1, AttemptsLess DEF ThrottleInv
  <1>5. Buckets(clock', byIP, byEmail, failed)
    <2>1. ASSUME NEW ip \in IPs
          PROVE  Fresh(failed, OfPeer(failed, ip), clock') \subseteq Fresh(failed, OfPeer(failed, ip), clock)
      <3>1. \A i \in DOMAIN failed : failed[i].at \in Nat
        BY <1>1, <1>2, FailuresFinite DEF Failures
      <3>2. QED
        BY <1>1, <3>1, SignInAssumption DEF Fresh, OfPeer
    <2>2. QED
      BY <2>1, BucketLess DEF ThrottleInv, Buckets
  <1>6. QED
    BY <1>1, <1>2, <1>3, <1>4, <1>5 DEF ThrottleInv

\* A login that succeeds empties the bucket of its email.
LEMMA SucceedThrottles ==
  ASSUME ThrottleInv, NEW s \in Sessions, Succeed(s)
  PROVE  ThrottleInv'
  <1>1. /\ UNCHANGED <<world, clock, byIP, failed>> /\ txn' = [txn EXCEPT ![s] = Idle]
        /\ byEmail' = [byEmail EXCEPT ![txn[s].email] = <<>>]
    BY DEF Succeed
  <1>2. Alone' /\ \A r \in Sessions : txn'[r] = IF r = s THEN Idle ELSE txn[r]
    BY <1>1 DEF ThrottleInv, Alone
  <1>3. Attempted(world, txn', clock, failed)
    <2>1. world.sessions \subseteq Sessions /\ IsFiniteSet(world.sessions) /\ clock \in Nat
      BY WorldSessions, SignInAssumption DEF ThrottleInv
    <2>2. \A r \in Sessions \cup world.sessions : txn'[r].op = "login" => txn'[r] = txn[r]
      BY <1>2, <2>1 DEF Idle
    <2>3. QED
      BY <2>1, <2>2, AttemptsLess DEF ThrottleInv
  <1>4. Buckets(clock, byIP, byEmail', failed)
    BY <1>1, BucketLess DEF ThrottleInv, Buckets
  <1>5. QED
    BY <1>1, <1>2, <1>3, <1>4 DEF ThrottleInv

\* The check of a peer that has fewer fresh failures than the limit.
LEMMA CheckThrottles ==
  ASSUME ThrottleInv, NEW s \in Sessions, NEW ip \in IPs, NEW email \in Emails,
         Check(s, ip, email)
  PROVE  ThrottleInv'
  <1> DEFINE t == [op |-> "login", ip |-> ip, email |-> email]
             C(b) == Counted(b)
  <1>1. /\ UNCHANGED <<world, clock, failed>> /\ s \in world.sessions /\ txn[s] = Idle
        /\ byIP' = [byIP EXCEPT ![ip] = C(@)]
        /\ \/ UNCHANGED <<byEmail, txn>>
           \/ /\ byEmail' = [byEmail EXCEPT ![email] = C(@)]
              /\ txn' = txn \/ (txn' = [txn EXCEPT ![s] = t] /\ ~Throttled(byIP[ip]))
    BY DEF Check, Asks
  <1>2. clock \in Nat /\ Recorder(failed, clock) /\ Buckets(clock, byIP, byEmail, failed)
    BY SignInAssumption DEF ThrottleInv
  <1>3. Buckets(clock, byIP', byEmail', failed)
    <2>1. ASSUME NEW j \in IPs
          PROVE  Bucket(byIP'[j], failed, OfPeer(failed, j), Fresh(failed, OfPeer(failed, j), clock))
      <3>1. Bucket(byIP[j], failed, OfPeer(failed, j), Fresh(failed, OfPeer(failed, j), clock))
        BY <1>2 DEF Buckets
      <3>2. OfPeer(failed, j) \subseteq DOMAIN failed
        BY DEF OfPeer
      <3>3. Bucket(C(byIP[j]), failed, OfPeer(failed, j), Fresh(failed, OfPeer(failed, j), clock))
        BY <1>2, <3>1, <3>2, CountedBucket
      <3>4. byIP'[j] \in {byIP[j], C(byIP[j])}
        BY <1>1, <1>2 DEF Buckets
      <3>5. QED
        BY <3>1, <3>3, <3>4
    <2>2. ASSUME NEW e \in Emails PROVE Bucket(byEmail'[e], failed, OfEmail(failed, e), {})
      <3>1. Bucket(byEmail[e], failed, OfEmail(failed, e), {})
        BY <1>2 DEF Buckets
      <3>2. OfEmail(failed, e) \subseteq DOMAIN failed
        BY DEF OfEmail
      <3>3. Bucket(C(byEmail[e]), failed, OfEmail(failed, e), {})
        BY <1>2, <3>1, <3>2, CountedBucket
      <3>4. byEmail'[e] \in {byEmail[e], C(byEmail[e])}
        BY <1>1, <1>2 DEF Buckets
      <3>5. QED
        BY <3>1, <3>3, <3>4
    <2>3. DOMAIN byIP' = IPs /\ DOMAIN byEmail' = Emails
      BY <1>1, <1>2 DEF Buckets
    <2>4. QED
      BY <2>1, <2>2, <2>3 DEF Buckets
  <1>4. Attempted(world, txn, clock, failed)
    BY DEF ThrottleInv
  <1>5. CASE txn' = txn
    BY <1>1, <1>3, <1>4, <1>5 DEF ThrottleInv, Alone
  <1>6. CASE txn' = [txn EXCEPT ![s] = t] /\ ~Throttled(byIP[ip])
    <2>1. Alone' /\ \A r \in Sessions : txn'[r] = IF r = s THEN t ELSE txn[r]
      BY <1>1, <1>6 DEF ThrottleInv, Alone
    <2>2. t.op = "login" /\ t.ip = ip /\ t.email = email
      OBVIOUS
    <2> DEFINE F(j) == Fresh(failed, OfPeer(failed, j), clock)
    <2>3. Cardinality(F(ip)) <= Len(Counted(byIP[ip])) /\ Len(Counted(byIP[ip])) \in Nat
          /\ Cardinality(F(ip)) \in Nat
      <3>1. Bucket(byIP[ip], failed, OfPeer(failed, ip), F(ip))
        BY <1>2 DEF Buckets
      <3>2. OfPeer(failed, ip) \in SUBSET DOMAIN failed
        BY DEF OfPeer
      <3>3. QED
        BY <1>2, <3>1, <3>2, CountedFresh
    <2>4. Cardinality(F(ip)) < MaxAttempts
      <3>1. ~(Len(Counted(byIP[ip])) >= MaxAttempts) /\ MaxAttempts \in Nat
        BY <1>6, SignInAssumption DEF Throttled
      <3> HIDE DEF F
      <3>2. QED
        BY <2>3, <3>1
    <2>5. world.sessions \subseteq Sessions /\ IsFiniteSet(world.sessions)
          /\ Cardinality(world.sessions) \in Nat
      BY WorldSessions DEF ThrottleInv
    <2>6. ASSUME NEW j \in IPs
          PROVE  Cardinality(F(j)) + Cardinality(Passed(world, txn', j))
                   < MaxAttempts + Cardinality(world.sessions)
      <3>1. CASE j = ip
        <4>1. Passed(world, txn', j) \subseteq world.sessions
          BY DEF Passed
        <4>2. /\ Cardinality(Passed(world, txn', j)) <= Cardinality(world.sessions)
              /\ Cardinality(Passed(world, txn', j)) \in Nat
          BY <2>5, <4>1, FS_Subset, FS_CardinalityType
        <4> HIDE DEF F
        <4>3. QED
          BY <2>3, <2>4, <2>5, <3>1, <4>2, SignInAssumption
      <3>2. CASE j # ip
        <4>1. Passed(world, txn', j) = Passed(world, txn, j)
          BY <1>1, <2>1, <2>2, <2>5, <3>2 DEF Passed, Idle
        <4>2. QED
          BY <1>4, <4>1 DEF Attempted
      <3>3. QED
        BY <3>1, <3>2
    <2>7. Attempted(world, txn', clock, failed)
      <3>1. \A r \in Sessions : txn'[r].op = "login" => txn'[r].ip \in IPs /\ txn'[r].email \in Emails
        BY <1>4, <2>1, <2>2 DEF Attempted
      <3>2. QED
        BY <1>4, <2>6, <3>1 DEF Attempted
    <2>8. QED
      BY <1>1, <1>3, <2>1, <2>7 DEF ThrottleInv
  <1>7. QED
    BY <1>1, <1>5, <1>6

\* A failure is recorded: the login leaves those that passed and joins the
\* failures of its peer.
LEMMA FailThrottles ==
  ASSUME ThrottleInv, NEW s \in Sessions, Fail(s)
  PROVE  ThrottleInv'
  <1> DEFINE t == txn[s]
             r == [at |-> clock, ip |-> t.ip, email |-> t.email]
             n == Len(failed) + 1
             fn == Append(failed, r)
  <1>1. /\ UNCHANGED <<world, clock>> /\ t.op = "login" /\ failed' = fn
        /\ byIP' = [byIP EXCEPT ![t.ip] = Append(@, clock)]
        /\ byEmail' = [byEmail EXCEPT ![t.email] = Append(@, clock)]
        /\ txn' = [txn EXCEPT ![s] = Idle]
    BY DEF Fail
  <1>2. clock \in Nat /\ clock \in 0 .. MaxClock /\ Recorder(failed, clock)
    BY SignInAssumption DEF ThrottleInv
  <1>3. Buckets(clock, byIP, byEmail, failed) /\ Attempted(world, txn, clock, failed)
    BY DEF ThrottleInv
  <1>4. t.ip \in IPs /\ t.email \in Emails
    BY <1>1, <1>3 DEF Attempted
  <1>5. r \in Failures(clock) /\ r.at = clock /\ r.ip = t.ip /\ r.email = t.email
    BY <1>2, <1>4 DEF Failures
  <1>6. s \in world.sessions /\ Alone'
    <2>1. Idle.op # "login"
      BY DEF Idle
    <2>2. s \in world.sessions
      BY <1>1, <2>1 DEF ThrottleInv, Alone
    <2>3. QED
      BY <1>1, <2>2 DEF ThrottleInv, Alone
  <1>7. \A q \in Sessions : txn'[q] = IF q = s THEN Idle ELSE txn[q]
    BY <1>1 DEF ThrottleInv, Alone
  <1>8. /\ Recorder(fn, clock)
        /\ \A ip : OfPeer(fn, ip) = OfPeer(failed, ip) \cup IF r.ip = ip THEN {n} ELSE {}
        /\ \A e : OfEmail(fn, e) = OfEmail(failed, e) \cup IF r.email = e THEN {n} ELSE {}
        /\ \A ip : Fresh(fn, OfPeer(fn, ip), clock) =
                     Fresh(failed, OfPeer(failed, ip), clock) \cup IF r.ip = ip THEN {n} ELSE {}
    <2> HIDE DEF r
    <2>1. QED
      BY <1>2, <1>5, FailureSets
  <1>9. /\ n - 1 \in Nat /\ DOMAIN failed = 1 .. n - 1 /\ n \notin DOMAIN failed
        /\ \A i \in DOMAIN failed : fn[i] = failed[i]
        /\ fn[n] = r
    <2>1. Len(failed) \in Nat /\ DOMAIN failed = 1 .. Len(failed)
      BY <1>2, FailuresFinite
    <2>2. failed \in Seq(Failures(clock))
      BY <1>2 DEF Recorder
    <2> HIDE DEF r
    <2>3. QED
      BY <2>1, <2>2
  <1> HIDE DEF r, n, fn, t
  <1>10. Buckets(clock, byIP', byEmail', fn)
    <2>1. ASSUME NEW ip \in IPs
          PROVE  Bucket(byIP'[ip], fn, OfPeer(fn, ip), Fresh(fn, OfPeer(fn, ip), clock))
      <3> DEFINE I == OfPeer(failed, ip)
                 M == Fresh(failed, OfPeer(failed, ip), clock)
      <3>1. Bucket(byIP[ip], failed, I, M)
        BY <1>3 DEF Buckets
      <3>2. I \in SUBSET DOMAIN failed /\ M \in SUBSET I
        BY DEF OfPeer, Fresh
      <3> HIDE DEF I, M
      <3>3. CASE r.ip = ip
        <4>1. byIP'[ip] = Append(byIP[ip], clock)
          BY <1>1, <1>3, <1>5, <3>3 DEF Buckets
        <4>2. Bucket(Append(byIP[ip], clock), fn, I \cup {n}, M \cup {n})
          BY <1>2, <1>5, <3>1, <3>2, FailureAdded DEF fn, n
        <4>3. OfPeer(fn, ip) = I \cup {n} /\ Fresh(fn, OfPeer(fn, ip), clock) = M \cup {n}
          BY <1>8, <3>3 DEF I, M
        <4>4. QED
          BY <4>1, <4>2, <4>3
      <3>4. CASE r.ip # ip
        <4>1. byIP'[ip] = byIP[ip]
          BY <1>1, <1>3, <1>5, <3>4 DEF Buckets
        <4>2. Bucket(byIP[ip], fn, I, M)
          BY <1>2, <3>1, <3>2, FailureElsewhere DEF fn
        <4>3. OfPeer(fn, ip) = I /\ Fresh(fn, OfPeer(fn, ip), clock) = M
          BY <1>8, <3>4 DEF I, M
        <4>4. QED
          BY <4>1, <4>2, <4>3
      <3>5. QED
        BY <3>3, <3>4
    <2>2. ASSUME NEW e \in Emails PROVE Bucket(byEmail'[e], fn, OfEmail(fn, e), {})
      <3> DEFINE I == OfEmail(failed, e)
      <3>1. Bucket(byEmail[e], failed, I, {})
        BY <1>3 DEF Buckets
      <3>2. I \in SUBSET DOMAIN failed
        BY DEF OfEmail
      <3> HIDE DEF I
      <3>3. CASE r.email = e
        <4>1. byEmail'[e] = Append(byEmail[e], clock)
          BY <1>1, <1>3, <1>5, <3>3 DEF Buckets
        <4>2. Bucket(Append(byEmail[e], clock), fn, I \cup {n}, {} \cup {n})
          BY <1>2, <1>5, <3>1, <3>2, FailureAdded DEF fn, n
        <4>3. Bucket(Append(byEmail[e], clock), fn, I \cup {n}, {})
          BY <4>2, BucketLess
        <4>4. OfEmail(fn, e) = I \cup {n}
          BY <1>8, <3>3 DEF I
        <4>5. QED
          BY <4>1, <4>3, <4>4
      <3>4. CASE r.email # e
        <4>1. byEmail'[e] = byEmail[e]
          BY <1>1, <1>3, <1>5, <3>4 DEF Buckets
        <4>2. Bucket(byEmail[e], fn, I, {})
          BY <1>2, <3>1, <3>2, FailureElsewhere DEF fn
        <4>3. OfEmail(fn, e) = I
          BY <1>8, <3>4 DEF I
        <4>4. QED
          BY <4>1, <4>2, <4>3
      <3>5. QED
        BY <3>3, <3>4
    <2>3. DOMAIN byIP' = IPs /\ DOMAIN byEmail' = Emails
      BY <1>1, <1>3 DEF Buckets
    <2>4. QED
      BY <2>1, <2>2, <2>3 DEF Buckets
  <1>11. world.sessions \subseteq Sessions /\ IsFiniteSet(world.sessions)
         /\ Cardinality(world.sessions) \in Nat
    BY WorldSessions DEF ThrottleInv
  <1>12. ASSUME NEW ip \in IPs
         PROVE  Cardinality(Fresh(fn, OfPeer(fn, ip), clock)) + Cardinality(Passed(world, txn', ip))
                  < MaxAttempts + Cardinality(world.sessions)
    <2> DEFINE F == Fresh(failed, OfPeer(failed, ip), clock)
               P == Passed(world, txn, ip)
    <2>1. Cardinality(F) + Cardinality(P) < MaxAttempts + Cardinality(world.sessions)
      BY <1>3 DEF Attempted
    <2>2. F \subseteq DOMAIN failed /\ P \subseteq world.sessions
      BY DEF Fresh, OfPeer, Passed
    <2>3. Passed(world, txn', ip) = P \ {s}
      BY <1>7, <1>11 DEF Passed, Idle
    <2>4. Fresh(fn, OfPeer(fn, ip), clock) = F \cup IF r.ip = ip THEN {n} ELSE {}
      BY <1>8
    <2>5. r.ip = ip => s \in P
      BY <1>1, <1>5, <1>6 DEF Passed, t
    <2> HIDE DEF F, P
    <2>6. IsFiniteSet(F) /\ Cardinality(F) \in Nat /\ IsFiniteSet(P) /\ Cardinality(P) \in Nat
      BY <1>2, <1>11, <2>2, FailuresFinite, FS_Subset, FS_CardinalityType
    <2>7. CASE r.ip = ip
      <3>1. Cardinality(F \cup {n}) = Cardinality(F) + 1
        BY <1>9, <2>2, <2>6, FS_AddElement
      <3>2. Cardinality(P \ {s}) = Cardinality(P) - 1
        BY <2>5, <2>6, <2>7, FS_RemoveElement
      <3>3. Fresh(fn, OfPeer(fn, ip), clock) = F \cup {n}
        BY <2>4, <2>7
      <3>4. QED
        BY <1>11, <2>1, <2>3, <2>6, <3>1, <3>2, <3>3, SignInAssumption
    <2>8. CASE r.ip # ip
      <3>1. Cardinality(P \ {s}) <= Cardinality(P) /\ Cardinality(P \ {s}) \in Nat
        <4>1. P \ {s} \in SUBSET P
          OBVIOUS
        <4>2. QED
          BY <2>6, <4>1, FS_Subset, FS_CardinalityType
      <3>2. Fresh(fn, OfPeer(fn, ip), clock) = F
        BY <2>4, <2>8
      <3>3. QED
        BY <1>11, <2>1, <2>3, <2>6, <3>1, <3>2, SignInAssumption
    <2>9. QED
      BY <2>7, <2>8
  <1>13. ASSUME NEW ip \in IPs, NEW u \in 0 .. MaxClock
         PROVE  Cardinality({i \in OfPeer(fn, ip) : fn[i].at <= u /\ fn[i].at + Window > u})
                  < MaxAttempts + Cardinality(world.sessions)
    <2> DEFINE W == {i \in OfPeer(fn, ip) : fn[i].at <= u /\ fn[i].at + Window > u}
               F == Fresh(fn, OfPeer(fn, ip), clock)
               V == {i \in OfPeer(failed, ip) : failed[i].at <= u /\ failed[i].at + Window > u}
    <2>1. u \in Nat /\ Window \in Nat \ {0} /\ MaxAttempts \in Nat
      BY SignInAssumption
    <2>2. \A i \in DOMAIN fn : fn[i].at \in 0 .. clock
      BY <1>2, <1>8, FailuresFinite DEF Failures
    <2>3. CASE u < clock
      <3>1. W = V
        <4>1. \A i \in OfPeer(failed, ip) : fn[i] = failed[i]
          BY <1>9 DEF OfPeer
        <4>2. ~(fn[n].at <= u)
          BY <1>2, <1>5, <1>9, <2>1, <2>3
        <4>3. OfPeer(fn, ip) \subseteq OfPeer(failed, ip) \cup {n}
              /\ OfPeer(failed, ip) \subseteq OfPeer(fn, ip)
          BY <1>8
        <4>4. QED
          BY <4>1, <4>2, <4>3
      <3>2. Cardinality(V) < MaxAttempts + Cardinality(world.sessions)
        BY <1>3 DEF Attempted
      <3>3. QED
        BY <3>1, <3>2
    <2>4. CASE clock <= u
      <3>1. W \subseteq F /\ F \subseteq DOMAIN fn
        BY <1>2, <2>1, <2>2, <2>4 DEF Fresh, OfPeer
      <3>2. Cardinality(F) + Cardinality(Passed(world, txn', ip))
              < MaxAttempts + Cardinality(world.sessions)
        BY <1>12
      <3>3. Passed(world, txn', ip) \subseteq world.sessions
        BY DEF Passed
      <3> HIDE DEF W, F
      <3>4. IsFiniteSet(F) /\ Cardinality(F) \in Nat
        BY <1>2, <1>8, <3>1, FailuresFinite
      <3>5. Cardinality(W) <= Cardinality(F) /\ Cardinality(W) \in Nat
        BY <3>1, <3>4, FS_Subset, FS_CardinalityType
      <3>6. Cardinality(Passed(world, txn', ip)) \in Nat
        BY <1>11, <3>3, FS_Subset, FS_CardinalityType
      <3>7. Cardinality(W) < MaxAttempts + Cardinality(world.sessions)
        BY <1>11, <2>1, <3>2, <3>4, <3>5, <3>6
      <3>8. QED
        BY <3>7 DEF W
    <2>5. QED
      BY <1>2, <2>1, <2>3, <2>4
  <1>14. Attempted(world, txn', clock, fn)
    <2>1. \A q \in Sessions : txn'[q].op = "login" => txn'[q].ip \in IPs /\ txn'[q].email \in Emails
      BY <1>3, <1>7 DEF Attempted, Idle
    <2>2. QED
      BY <1>12, <1>13, <2>1 DEF Attempted
  <1>15. QED
    BY <1>1, <1>2, <1>6, <1>8, <1>10, <1>14 DEF ThrottleInv

LEMMA ThrottleInit ==
  ASSUME Init
  PROVE  ThrottleInv
  <1>1. /\ world \in Worlds /\ txn = [s \in Sessions |-> Idle] /\ clock = 0 /\ failed = <<>>
        /\ byIP = [ip \in IPs |-> <<>>] /\ byEmail = [e \in Emails |-> <<>>]
    BY DEF Init, SignInInit
  <1>2. DOMAIN failed = {} /\ failed \in Seq(Failures(clock))
    BY <1>1, EmptySeq
  <1>3. Recorder(failed, clock) /\ Alone
    BY <1>1, <1>2 DEF Recorder, Alone
  <1>4. \A ip : OfPeer(failed, ip) = {}
    BY <1>2 DEF OfPeer
  <1>5. Buckets(clock, byIP, byEmail, failed)
    <2>1. \A ip : Fresh(failed, OfPeer(failed, ip), clock) = {}
      BY <1>4 DEF Fresh
    <2>2. QED
      BY <1>1, <2>1, BucketLess DEF Buckets
  <1>6. Attempted(world, txn, clock, failed)
    <2>1. \A ip : /\ Fresh(failed, OfPeer(failed, ip), clock) = {}
                  /\ \A t : {i \in OfPeer(failed, ip) :
                               failed[i].at <= t /\ failed[i].at + Window > t} = {}
      BY <1>4 DEF Fresh
    <2>2. world.sessions \subseteq Sessions /\ Cardinality(world.sessions) \in Nat
      BY <1>1, WorldSessions
    <2>3. \A ip : Passed(world, txn, ip) = {}
      BY <1>1, <2>2 DEF Passed, Idle
    <2>4. Cardinality({}) = 0 /\ MaxAttempts \in Nat \ {0}
      BY FS_EmptySet, SignInAssumption
    <2>5. 0 < MaxAttempts + Cardinality(world.sessions)
          /\ 0 + 0 < MaxAttempts + Cardinality(world.sessions)
      BY <2>2, <2>4
    <2>6. \A s \in Sessions : txn[s].op # "login"
      BY <1>1 DEF Idle
    <2>7. QED
      BY <2>1, <2>3, <2>4, <2>5, <2>6 DEF Attempted
  <1>7. clock \in 0 .. MaxClock
    BY <1>1, SignInAssumption
  <1>8. QED
    BY <1>1, <1>3, <1>5, <1>6, <1>7 DEF ThrottleInv

LEMMA BeginThrottles ==
  ASSUME ThrottleInv, NEW s \in Sessions, NEW op, NEW ent, NEW locks, NEW more,
         op # "login", Begin(s, op, ent, locks, more)
  PROVE  ThrottleInv'
  <1> DEFINE t == [op |-> op, ent |-> ent, locks |-> locks, stage |-> "read", more |-> more]
  <1>1. txn' = [txn EXCEPT ![s] = t] /\ UNCHANGED <<world, throttle>> /\ s \in world.sessions
    BY DEF Begin, Asks
  <1>2. t.op = op
    OBVIOUS
  <1> HIDE DEF t
  <1>3. QED
    BY <1>1, <1>2, ThrottleStill

\* Every other request ends like that.
LEMMA EndThrottles ==
  ASSUME ThrottleInv, NEW s \in Sessions, Done(s)
  PROVE  ThrottleInv'
  <1>1. txn' = [txn EXCEPT ![s] = Idle] /\ UNCHANGED <<world, throttle>>
    BY DEF Done
  <1>2. Idle.op # "login"
    BY DEF Idle
  <1>3. QED
    BY <1>1, <1>2, ThrottleStill

LEMMA ThrottleNext ==
  ASSUME ThrottleInv, [Next]_vars
  PROVE  ThrottleInv'
  <1>1. CASE LoginNext
    <2>1. ASSUME NEW s \in Sessions, NEW ip \in IPs, NEW email \in Emails, Check(s, ip, email)
          PROVE  ThrottleInv'
      BY <2>1, CheckThrottles
    <2>2. ASSUME NEW s \in Sessions, Answer(s) PROVE ThrottleInv'
      BY <2>2, SucceedThrottles, FailThrottles DEF Answer
    <2>3. CASE Tick
      BY <2>3, TickThrottles
    <2>4. QED
      BY <1>1, <2>1, <2>2, <2>3 DEF LoginNext
  <1>2. ASSUME NEW s \in Sessions, NEW actor \in Slots, NEW target \in 0 .. MaxUsers,
               NEW form \in Forms, BeginSaveUser(s, actor, target, form)
        PROVE  ThrottleInv'
    BY <1>2, BeginThrottles DEF BeginSaveUser
  <1>3. ASSUME NEW s \in Sessions, NEW actor \in Slots, NEW name \in DOMAIN Templates,
               BeginApplyTemplate(s, actor, name)
        PROVE  ThrottleInv'
    BY <1>3, BeginThrottles DEF BeginApplyTemplate
  <1>4. ASSUME NEW s \in Sessions, NEW actor \in Slots, NEW band \in Bands,
               NEW module \in Modules, BeginAddRule(s, actor, band, module)
        PROVE  ThrottleInv'
    BY <1>4, BeginThrottles DEF BeginAddRule
  <1>5. ASSUME NEW s \in Sessions, NEW actor \in Slots, NEW i \in 1 .. Len(rules),
               BeginDeleteRule(s, actor, i)
        PROVE  ThrottleInv'
    BY <1>5, BeginThrottles DEF BeginDeleteRule
  <1>6. ASSUME NEW s \in Sessions, NEW actor \in Slots, NEW k \in Keys, NEW val,
               \/ BeginSetSetting(s, actor, k, val)
               \/ BeginSetRate(s, actor, k, val)
               \/ BeginDeleteRate(s, actor, k)
        PROVE  ThrottleInv'
    BY <1>6, BeginThrottles DEF BeginSetSetting, BeginSetRate, BeginDeleteRate
  <1>7. ASSUME NEW s \in Sessions, Flush(s) PROVE ThrottleInv'
    <2>1. PICK tip \in Tips(log[txn[s].ent]) :
            txn' = [txn EXCEPT ![s] =
              [op |-> txn[s].op, ent |-> txn[s].ent, locks |-> txn[s].locks,
               stage |-> "flushed", more |-> txn[s].more, tip |-> tip,
               had |-> IF txn[s].op = "user" /\ txn[s].more.user # 0
                       THEN grants[txn[s].more.user] ELSE {}]]
      BY <1>7 DEF Flush
    <2> DEFINE t == [op |-> txn[s].op, ent |-> txn[s].ent, locks |-> txn[s].locks,
                     stage |-> "flushed", more |-> txn[s].more, tip |-> tip,
                     had |-> IF txn[s].op = "user" /\ txn[s].more.user # 0
                             THEN grants[txn[s].more.user] ELSE {}]
    <2>2. txn' = [txn EXCEPT ![s] = t] /\ t.op = txn[s].op
      BY <2>1
    <2> HIDE DEF t
    <2>3. /\ txn[s].op # "login" /\ txn[s] # Idle /\ UNCHANGED <<world, throttle>>
      BY <1>7 DEF Flush
    <2>4. s \in world.sessions
      BY <2>3 DEF ThrottleInv, Alone
    <2>5. QED
      BY <2>2, <2>3, <2>4, ThrottleStill
  <1>8. ASSUME NEW s \in Sessions,
               \/ Abort(s) \/ CommitUser(s) \/ CommitTemplate(s) \/ CommitAddRule(s)
               \/ CommitDeleteRule(s) \/ CommitValue(s) \/ CommitDeleteRate(s)
        PROVE  ThrottleInv'
    <2>1. Done(s)
      BY <1>8 DEF Abort, CommitUser, CommitTemplate, CommitAddRule, CommitDeleteRule,
                  CommitValue, CommitDeleteRate
    <2>2. QED
      BY <2>1, EndThrottles
  <1>9. CASE UNCHANGED vars
    BY <1>9 DEF vars, throttle, ThrottleInv, Alone
  <1>10. QED
    BY <1>1, <1>2, <1>3, <1>4, <1>5, <1>6, <1>7, <1>8, <1>9 DEF Next

\* In no window does a peer fail more often than the limit, but for the logins
\* that had passed the check before; and who is refused has failed that often
\* within the window (check and record_failure of auth/ratelimit.py, with
\* another login between them).
THEOREM FailuresBounded == Spec => []LoginBounded
  <1>1. ThrottleInv => LoginBounded
    <2> SUFFICES ASSUME ThrottleInv PROVE LoginBounded
      OBVIOUS
    <2>1. clock \in Nat /\ Recorder(failed, clock) /\ Buckets(clock, byIP, byEmail, failed)
      BY SignInAssumption DEF ThrottleInv
    <2>2. \A i \in DOMAIN failed : failed[i].at \in 0 .. clock
      BY <2>1, FailuresFinite DEF Failures
    <2>3. ASSUME NEW ip \in IPs, NEW t \in 0 .. MaxClock
          PROVE  Cardinality(Within(ip, t)) < MaxAttempts + Cardinality(world.sessions)
      <3>1. Within(ip, t) = {i \in OfPeer(failed, ip) : failed[i].at <= t /\ failed[i].at + Window > t}
        BY DEF Within, OfPeer
      <3>2. QED
        BY <3>1 DEF ThrottleInv, Attempted
    <2>4. ASSUME NEW ip \in IPs, Throttled(byIP[ip])
          PROVE  Cardinality(Within(ip, clock)) >= MaxAttempts
      <3>1. Within(ip, clock) = Fresh(failed, OfPeer(failed, ip), clock)
        BY <2>1, <2>2 DEF Within, OfPeer, Fresh
      <3>2. OfPeer(failed, ip) \in SUBSET DOMAIN failed
        BY DEF OfPeer
      <3>3. Bucket(byIP[ip], failed, OfPeer(failed, ip), Fresh(failed, OfPeer(failed, ip), clock))
        BY <2>1 DEF Buckets
      <3>4. /\ Len(Counted(byIP[ip])) \in Nat
            /\ Cardinality(Fresh(failed, OfPeer(failed, ip), clock)) \in Nat
            /\ Len(Counted(byIP[ip])) <= Cardinality(Fresh(failed, OfPeer(failed, ip), clock))
        BY <2>1, <3>2, <3>3, CountedFresh
      <3>5. Len(Counted(byIP[ip])) >= MaxAttempts /\ MaxAttempts \in Nat
        BY <2>4, SignInAssumption DEF Throttled
      <3>6. QED
        BY <3>1, <3>4, <3>5
    <2>5. ASSUME NEW email \in Emails, Throttled(byEmail[email])
          PROVE  Cardinality({i \in DOMAIN failed : failed[i].email = email
                                                    /\ failed[i].at + Window > clock}) >= MaxAttempts
      <3> DEFINE E == {i \in DOMAIN failed : failed[i].email = email /\ failed[i].at + Window > clock}
      <3>1. E = Fresh(failed, OfEmail(failed, email), clock)
        BY DEF OfEmail, Fresh
      <3>2. OfEmail(failed, email) \in SUBSET DOMAIN failed
        BY DEF OfEmail
      <3>3. Bucket(byEmail[email], failed, OfEmail(failed, email), {})
        BY <2>1 DEF Buckets
      <3>4. /\ Len(Counted(byEmail[email])) \in Nat
            /\ Cardinality(Fresh(failed, OfEmail(failed, email), clock)) \in Nat
            /\ Len(Counted(byEmail[email])) <= Cardinality(Fresh(failed, OfEmail(failed, email), clock))
        BY <2>1, <3>2, <3>3, CountedFresh
      <3>5. Len(Counted(byEmail[email])) >= MaxAttempts /\ MaxAttempts \in Nat
        BY <2>5, SignInAssumption DEF Throttled
      <3> HIDE DEF E
      <3>6. Cardinality(E) >= MaxAttempts
        BY <3>1, <3>4, <3>5
      <3>7. QED
        BY <3>6 DEF E
    <2>6. QED
      BY <2>3, <2>4, <2>5 DEF LoginBounded
  <1>2. QED
    BY <1>1, ThrottleInit, ThrottleNext, PTL DEF Spec
=============================================================================
