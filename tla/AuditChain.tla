----------------------------- MODULE AuditChain -----------------------------
(***************************************************************************)
(* The hash chain of one audited entity (core/audit.py, services/audit.py, *)
(* repositories.py AuditRepository).                                       *)
(*                                                                         *)
(* A hash stands for everything below it: the model of SHA-256(prev +      *)
(* payload) is the sequence of the payloads from the first event to this   *)
(* one, so equal hashes mean equal histories.  A log is the sequence of    *)
(* the hashes of an entity's events in the order they were committed.      *)
(***************************************************************************)
EXTENDS Naturals, Sequences, FiniteSets, SequencesExt

Genesis == <<>>

ChainHash(prev, payload) == Append(prev, payload)

\* What the event of a hash asserts, and the hash it points back to.
Payload(hash) == Last(hash)
Previous(hash) == Front(hash)

Recorded(chain) == {chain[i] : i \in DOMAIN chain}

\* Mutant: every event starts a chain of its own.
Tips_Genesis(chain) == {Genesis}

\* tip_hash: an event that no other event of the entity points back to, None
\* when there is none.  A chain that forked has several; the query takes one.
Tips(chain) ==
  IF chain = <<>> THEN {Genesis}
  ELSE {h \in Recorded(chain) : \A g \in Recorded(chain) : Previous(g) # h}

\* record_event.
Extended(chain, tip, payload) == Append(chain, ChainHash(tip, payload))

\* chain() follows the links from the first event; verify_chain accepts what it
\* returns exactly when every event was reached and none shares a predecessor.
Verifies(chain) ==
  /\ \A i, j \in DOMAIN chain : Previous(chain[i]) = Previous(chain[j]) => i = j
  /\ \A i \in DOMAIN chain : Previous(chain[i]) \in Recorded(chain) \cup {Genesis}
=============================================================================
