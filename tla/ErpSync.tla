------------------------------ MODULE ErpSync ------------------------------
(***************************************************************************)
(* The ERP Sync channel of one client: import of AP listings into the      *)
(* store of committed keys and the staging table, review of the rows that  *)
(* were held or flagged, and release into the carbon ledger.               *)
(*                                                                         *)
(* No request locks a staged row.  A review or a release is two steps: a   *)
(* Begin action reads the rows and checks the guards; a Commit action      *)
(* writes the columns that the request changed.  An import is three: it    *)
(* reads the file and the store, it replaces the store file, it stages the *)
(* rows; a crash may come between any two.                                 *)
(***************************************************************************)
EXTENDS ErpLine, FiniteSetsExt

CONSTANTS
  Users,      \* reviewers with a grant to the client
  Viewers,    \* the users whose base role is viewer
  Limit,      \* the authority limit of each user, None when unlimited
  Files,      \* AP listings, each a sequence of raw rows
  Remaps,     \* re-mappings a reviewer may enter; their category is free text,
              \* and the form offers that of the row, "UNMAPPED" if it has none
  Worlds      \* [sessions, users, ops, files, crash]: who overlaps, what is
              \* asked and imported, and whether imports may crash

ASSUME ErpSyncAssumption ==
  /\ Viewers \subseteq Users /\ None \notin Users
  /\ \A w \in Worlds :
       w.files \subseteq Files /\ w.users \subseteq Users /\ IsFiniteSet(w.sessions)
  /\ \A m \in Remaps :
       /\ m.value \in Int
       /\ {m.quantity, m.amount} \subseteq Int \cup {None}
  /\ \A file \in Files :
       /\ Len(file) \in Nat /\ DOMAIN file = 1 .. Len(file)
       /\ \A i \in DOMAIN file : {file[i].quantity, file[i].amount} \subseteq Int \cup {None, Bad}

Keys == UNION {{LineKey(file[i]) : i \in {j \in DOMAIN file : ~Malformed(file[j])}} :
               file \in Files}

Status == {"absent", "clean", "held", "flagged", "approved", "dismissed", "released"}

\* What a reviewer may decide on, and what a release takes.
Reviewable == {"held", "flagged"}

Releasable == {"clean", "approved"}

VARIABLES
  world,     \* the requests of this behaviour; never changes
  store,     \* line keys in the store file
  rows,      \* the erpsync_entry rows, by line key
  ledger,    \* the emission_entry rows of this client
  batches,   \* the release_batch rows
  txn,       \* what each session has read and means to write
  reported   \* history: keys of the files whose import answered "staged"

vars == <<world, store, rows, ledger, batches, txn, reported>>

Sessions == UNION {w.sessions : w \in Worlds}

Idle == [op |-> "idle"]

NoRow == [st |-> "absent", category |-> "UNMAPPED", amount |-> None, tco2e |-> 0,
          edited |-> None, reviewed |-> None, raw |-> None]

Staged == {k \in Keys : rows[k].st # "absent"}

Serial == Cardinality(world.sessions) = 1

Asks(s, op) == s \in world.sessions /\ txn[s] = Idle /\ op \in world.ops

-----------------------------------------------------------------------------
(* run_import. *)

\* The rows an import stages: one for each accepted line, with its status.
\* source_hash stands for the raw line.
StagedRows(file, known) ==
  LET lines == Accepted(file, known)
      Line(k) == CHOOSE i \in lines : LineKey(file[i]) = k
  IN [k \in {LineKey(file[i]) : i \in lines} |->
        LET e == Entry(file[Line(k)]) IN
        [NoRow EXCEPT !.st = StageStatus(e), !.category = e.category,
                      !.amount = e.amount, !.tco2e = e.tco2e, !.raw = file[Line(k)]]]

\* A file with a malformed row stops here and changes nothing.
BeginImport(s, file) ==
  /\ Asks(s, "import")
  /\ file \in world.files /\ Committable(file)
  /\ txn' = [txn EXCEPT ![s] = [op |-> "import", file |-> file, known |-> store,
                                new |-> StagedRows(file, store)]]
  /\ UNCHANGED <<world, store, rows, ledger, batches, reported>>

\* Held lines are kept out of the store of committed keys.
StoreKeys(new) == {k \in DOMAIN new : new[k].st # "held"}

\* Mutant: the file keeps the keys of the last import only.
Replaced_NewOnly(t) == IF StoreKeys(t.new) = {} THEN store ELSE StoreKeys(t.new)

\* Store.commit: the file is replaced by what this process read of it, with
\* the new keys; when there is none the file is left alone.
Replaced(t) == IF StoreKeys(t.new) = {} THEN store ELSE t.known \cup StoreKeys(t.new)

PersistStore(s) ==
  LET t == txn[s] IN
  /\ t.op = "import"
  /\ store' = Replaced(t)
  /\ txn' = [txn EXCEPT ![s].op = "stage"]
  /\ UNCHANGED <<world, rows, ledger, batches, reported>>

\* Mutant: only the committed lines are staged.
Inserted_Committed(new) == StoreKeys(new) \ Staged

\* Every accepted line, held or not; a key that is staged keeps its row.
Inserted(new) == DOMAIN new \ Staged

\* PgStagingStore.stage and the caller's commit.
Stage(s) ==
  LET t == txn[s] IN
  /\ t.op = "stage"
  /\ rows' = [k \in Keys |-> IF k \in Inserted(t.new) THEN t.new[k] ELSE rows[k]]
  /\ reported' = reported \cup {LineKey(t.file[i]) : i \in DOMAIN t.file}
  /\ txn' = [txn EXCEPT ![s] = Idle]
  /\ UNCHANGED <<world, store, ledger, batches>>

-----------------------------------------------------------------------------
(* Review. *)

\* check_can_review: not a viewer, not the row's editor, within the limit.
MayReview(row, u) ==
  /\ u \notin Viewers
  /\ row.edited = None \/ row.edited # u
  /\ (row.amount # None /\ Limit[u] # None) => row.amount <= Limit[u]

Review(s, u, k, op, write) ==
  /\ Asks(s, op) /\ u \in world.users
  /\ MayReview(rows[k], u)
  /\ txn' = [txn EXCEPT ![s] = [op |-> op, key |-> k, write |-> write]]
  /\ UNCHANGED <<world, store, rows, ledger, batches, reported>>

BeginApprove(s, u, k) ==
  /\ rows[k].st \in Reviewable
  /\ Review(s, u, k, "approve", [st |-> "approved", reviewed |-> u])

BeginDismiss(s, u, k) ==
  /\ rows[k].st \in Reviewable
  /\ Review(s, u, k, "dismiss", [st |-> "dismissed", reviewed |-> u])

\* _recompute_basis: the units that the new figure is computed from.
Units(m) == IF m.basis = "activity" THEN m.quantity ELSE m.amount

\* Mutant: a row that was approved or released may be re-mapped.
Remappable_Any == {"flagged", "approved", "released"}

Remappable == {"flagged"}

BeginRemap(s, u, k, m) ==
  /\ rows[k].st \in Remappable
  /\ Units(m) # None
  /\ Review(s, u, k, "remap",
            [category |-> m.category, tco2e |-> Tonnes(Units(m), m.value), edited |-> u,
             amount |-> IF m.amount = None THEN rows[k].amount ELSE m.amount])

\* Mutant: no CHECK on the row.
Apart_Any(row) == TRUE

\* ck_erpsync_entry_sod.
Apart(row) == row.reviewed = None \/ row.edited = None \/ row.reviewed # row.edited

CommitReview(s) ==
  LET t == txn[s]
      new == [c \in DOMAIN NoRow |->
                IF c \in DOMAIN t.write THEN t.write[c] ELSE rows[t.key][c]]
  IN
  /\ t.op \in {"approve", "dismiss", "remap"}
  /\ Apart(new)
  /\ rows' = [rows EXCEPT ![t.key] = new]
  /\ txn' = [txn EXCEPT ![s] = Idle]
  /\ UNCHANGED <<world, store, ledger, batches, reported>>

-----------------------------------------------------------------------------
(* release_clean. *)

\* What the batch hash is taken over: the rows with their figures.
Digest(taken) == {[key |-> k, tco2e |-> rows[k].tco2e] : k \in taken}

BeginRelease(s, u) ==
  LET taken == {k \in Staged : rows[k].st \in Releasable} IN
  /\ Asks(s, "release") /\ u \in world.users \ Viewers
  /\ taken # {}
  /\ txn' = [txn EXCEPT ![s] = [op |-> "release", digest |-> Digest(taken)]]
  /\ UNCHANGED <<world, store, rows, ledger, batches, reported>>

\* uq_release_batch_client_hash: the same rows with the same figures have been
\* released; the earlier batch is the answer.
Anchored(digest) == \E b \in batches : b.digest = digest

\* Mutant: a row is entered whatever the ledger holds.
Entered_Never(key) == FALSE

\* entry_for and uq_entry_idempotency: the row has its ledger entry.
Entered(key) == \E e \in ledger : e.key = key

AnsweredBefore(s) ==
  /\ txn[s].op = "release" /\ Anchored(txn[s].digest)
  /\ txn' = [txn EXCEPT ![s] = Idle]
  /\ UNCHANGED <<world, store, rows, ledger, batches, reported>>

\* Another release may have entered some of the rows meanwhile: those are
\* skipped if entry_for sees them; if not, the UNIQUE key refuses the whole
\* release (Abort).
CommitRelease(s) ==
  LET digest == txn[s].digest
      id     == Cardinality(batches) + 1
  IN
  /\ txn[s].op = "release" /\ ~Anchored(digest)
  /\ batches' = batches \cup
       {[id |-> id, digest |-> digest, count |-> Cardinality(digest),
         total |-> MapThenSumSet(LAMBDA d : d.tco2e, digest)]}
  /\ ledger' = ledger \cup
       {[key |-> d.key, tco2e |-> d.tco2e, batch |-> id] : d \in {e \in digest : ~Entered(e.key)}}
  /\ rows' = [k \in Keys |->
       IF \E d \in digest : d.key = k THEN [rows[k] EXCEPT !.st = "released"] ELSE rows[k]]
  /\ txn' = [txn EXCEPT ![s] = Idle]
  /\ UNCHANGED <<world, store, reported>>

\* An error rolls the request back; an import may die after it has replaced
\* the store file.
Abort(s) ==
  /\ txn[s] # Idle
  /\ txn[s].op \in {"import", "stage"} => world.crash
  /\ txn' = [txn EXCEPT ![s] = Idle]
  /\ UNCHANGED <<world, store, rows, ledger, batches, reported>>

-----------------------------------------------------------------------------
Init ==
  /\ world \in Worlds
  /\ store = {} /\ ledger = {} /\ batches = {} /\ reported = {}
  /\ rows = [k \in Keys |-> NoRow]
  /\ txn = [s \in Sessions |-> Idle]

Next ==
  \E s \in Sessions :
    \/ \E file \in Files : BeginImport(s, file)
    \/ PersistStore(s)
    \/ Stage(s)
    \/ \E u \in Users, k \in Keys :
         \/ BeginApprove(s, u, k)
         \/ BeginDismiss(s, u, k)
         \/ \E m \in Remaps : BeginRemap(s, u, k, m)
    \/ CommitReview(s)
    \/ \E u \in Users : BeginRelease(s, u)
    \/ AnsweredBefore(s)
    \/ CommitRelease(s)
    \/ Abort(s)

Spec == Init /\ [][Next]_vars

-----------------------------------------------------------------------------
(* Properties.  Those that begin with Serial hold while requests do not    *)
(* overlap; the others hold whatever overlaps.                             *)

\* Every variable has its type.
TypeOK ==
  /\ world \in Worlds
  /\ store \subseteq Keys /\ reported \subseteq Keys
  /\ DOMAIN rows = Keys /\ DOMAIN txn = Sessions
  /\ \A k \in Keys :
       /\ DOMAIN rows[k] = DOMAIN NoRow
       /\ rows[k].st \in Status /\ rows[k].tco2e \in Int
       /\ {rows[k].edited, rows[k].reviewed} \subseteq Users \cup {None}
  /\ \A e \in ledger : e.key \in Keys /\ e.tco2e \in Int
  /\ \A b \in batches : b.id \in Nat /\ b.count \in Nat

\* The line is measured: the rule that takes precedence among those that match
\* values a quantity in the unit of its factor, and the figure is that quantity
\* times the factor to the nearest unit of the ledger.
Measured(raw, tco2e) ==
  \E n \in DOMAIN Ruleset :
    LET rule == Ruleset[n] IN
    /\ Matches(raw, rule) /\ rule.basis = "activity"
    /\ \A k \in DOMAIN Ruleset : Matches(raw, Ruleset[k]) =>
         Rank(rule) < Rank(Ruleset[k]) \/ (Rank(rule) = Rank(Ruleset[k]) /\ n <= k)
    /\ raw.uom = Factors[rule.factor].uom
    /\ LET error == tco2e * Grain - raw.quantity * Factors[rule.factor].value
       IN 2 * error <= Grain /\ -2 * error <= Grain

\* A line enters the ledger in one of two ways, whatever requests overlap:
\* unseen, when it is measured and neither its category nor its document
\* belongs to e-Claim, or after a reviewer other than its editor decided on it.
SeenOrMeasured ==
  \A e \in ledger :
    LET row == rows[e.key] IN
    IF row.reviewed = None
    THEN /\ Measured(row.raw, e.tco2e)
         /\ row.raw.doc \notin EclaimDocs
         /\ row.category \in DOMAIN Ownership => Ownership[row.category] = "erpsync"
    ELSE row.reviewed # row.edited

\* The ledger, the batches and the rows tell one story while requests do not
\* overlap: a row is in the ledger exactly when it is released, with the figure
\* the row shows; a batch counts and totals its own entries; the leaf that the
\* reviewer is shown says what became of the row.  (A row that a reviewer
\* re-mapped under the word UNMAPPED is shown as posted without a figure, and
\* posts the figure of its new factor: the last conjunct is of the others.)
LedgerAgrees ==
  Serial =>
    /\ \A k \in Keys : rows[k].st = "released" <=> Entered(k)
    /\ \A e \in ledger : e.tco2e = rows[e.key].tco2e
    /\ \A b \in batches :
         LET own == {e \in ledger : e.batch = b.id} IN
         /\ b.count = Cardinality(own)
         /\ b.total = MapThenSumSet(LAMBDA e : e.tco2e, own)
    /\ \A k \in Staged :
         LET leaf == Leaf(rows[k].st, rows[k].category) IN
         /\ leaf = "never_posts" => ~Entered(k)
         /\ leaf = "posted" => Entered(k)
         /\ leaf = "posts_no_figure" /\ rows[k].edited = None =>
              \A e \in ledger : e.key = k => e.tco2e = 0

\* The store and the staging table agree between imports that do not overlap
\* or crash: a committed key is staged, a line of an imported file is staged,
\* and a staged line that the store does not know was held back.
ImportAccounts ==
  (Serial /\ ~world.crash /\ \A s \in Sessions : txn[s].op \notin {"import", "stage"}) =>
    /\ store \subseteq Staged /\ reported \subseteq Staged
    /\ \A k \in Staged \ store : Held(Entry(rows[k].raw))

\* Implements the ledger's promise, whatever requests overlap.
Promise == INSTANCE CarbonLedger WITH ledger <- ledger
LedgerPromise == Promise!Spec
=============================================================================
