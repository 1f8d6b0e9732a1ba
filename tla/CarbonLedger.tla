---------------------------- MODULE CarbonLedger ----------------------------
(***************************************************************************)
(* What the shared emission ledger promises its readers, whoever writes    *)
(* it: an entry stays as it was written, and one source row has at most    *)
(* one entry.  ErpSync implements it.                                      *)
(***************************************************************************)
VARIABLE ledger   \* the entries, each with the key of its source row

OncePerSource(entries) == \A e, f \in entries : e.key = f.key => e = f

Init == ledger = {}

Post == ledger \subseteq ledger' /\ OncePerSource(ledger')

Spec == Init /\ [][Post]_ledger
=============================================================================
