-------------------------- MODULE MCAdministration --------------------------
(***************************************************************************)
(* Instances of Administration for TLC.  The firm starts with a partner    *)
(* and a manager.  Each behaviour is of one of the worlds below: users,    *)
(* matrix, settings and rates, each one at a time and overlapping, and     *)
(* logins by two sessions.                                                 *)
(***************************************************************************)
EXTENDS Administration

CONSTANTS s1, s2

MCSeed ==
  <<[email |-> "ann", role |-> "partner", limit |-> None, status |-> "active", clients |-> {}],
    [email |-> "bob", role |-> "manager", limit |-> 1, status |-> "active", clients |-> {}]>>

Form(email, role, limit, status, clients) ==
  [email |-> email, role |-> role, limit |-> limit, status |-> status, clients |-> clients]

MCForms ==
  {Form("ann", "partner", None, "active", {}), Form("bob", "partner", 1, "active", {}),
   Form("bob", "manager", None, "inactive", {}), Form("ann", "viewer", None, "active", {"c1"}),
   Form("bob", "viewer", 1, "active", {"c1", "c2"}), Form("cat", "approver", 1, "active", {"c2"}),
   Form("cat", "partner", None, "inactive", {}), Form("ann", "manager", 1, "active", {"c1"}),
   Form("cat", "viewer", 1, "active", {"c1"})}

MCBands ==
  {Band(4, None, None), Band(5, 1, "manager")}

MCAllowed == [prefill |-> {"on", "off"}]
MCDefault == [prefill |-> "on"]

World(sessions, ops, events) == [sessions |-> sessions, ops |-> ops, events |-> events]

MatrixOps == {"template", "add_rule", "delete_rule"}
ValueOps  == {"setting", "rate", "delete_rate"}

MCWorlds ==
  {World({s1}, {"user"}, 4), World({s1, s2}, {"user"}, 2),
   World({s1}, MatrixOps, 3), World({s1, s2}, MatrixOps, 2),
   World({s1}, ValueOps, 4), World({s1, s2}, ValueOps, 2),
   World({s1, s2}, {"login"}, 0)}
=============================================================================
