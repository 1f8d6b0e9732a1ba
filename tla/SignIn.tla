------------------------------- MODULE SignIn -------------------------------
(***************************************************************************)
(* The login throttle (auth/ratelimit.py) and the two handlers that use it *)
(* (web_login, POST /auth/login).  The buckets live in the process, and a  *)
(* lock guards each call, but not the stretch between check and the record *)
(* of the outcome: several logins may have passed check before the first   *)
(* of them is recorded.                                                    *)
(***************************************************************************)
EXTENDS Naturals, Sequences, FiniteSets, FiniteSetsExt

CONSTANTS
  Worlds,       \* [sessions, ops, events]: who overlaps, what is asked for,
                \* and how many audit events there are when the last one starts
  Emails,       \* what a login may name, known or not
  IPs,          \* the peers that log in
  MaxAttempts,  \* login_max_attempts
  Window,       \* login_window_seconds, in ticks
  MaxClock,     \* bound on the clock
  MaxFailures   \* bound on the failed logins

ASSUME SignInAssumption ==
  /\ MaxAttempts \in Nat \ {0} /\ Window \in Nat \ {0}
  /\ MaxClock \in Nat /\ MaxFailures \in Nat

VARIABLES
  world,    \* the requests of this behaviour; never changes
  txn,      \* what each session is doing
  clock,    \* time.monotonic
  byIP,     \* the times of the failures in each IP's bucket
  byEmail,  \* the times of the failures in each email's bucket
  failed    \* history: every failed login

throttle == <<clock, byIP, byEmail, failed>>

Sessions == UNION {w.sessions : w \in Worlds}

Idle == [op |-> "idle"]

Asks(s, op) == s \in world.sessions /\ txn[s] = Idle /\ op \in world.ops

\* _prune: the bucket from the first failure on that is younger than Window.
Counted(bucket) ==
  LET young == {j \in DOMAIN bucket : bucket[j] + Window > clock}
  IN IF young = {} THEN <<>> ELSE SubSeq(bucket, Min(young), Len(bucket))

\* Mutant: one failure more than the limit passes.
Throttled_Late(bucket) == Len(Counted(bucket)) > MaxAttempts

Throttled(bucket) == Len(Counted(bucket)) >= MaxAttempts

\* check: the IP first; a refusal leaves the email bucket unpruned.
Check(s, ip, email) ==
  /\ Asks(s, "login")
  /\ byIP' = [byIP EXCEPT ![ip] = Counted(@)]
  /\ IF Throttled(byIP[ip]) THEN UNCHANGED <<byEmail, txn>>
     ELSE /\ byEmail' = [byEmail EXCEPT ![email] = Counted(@)]
          /\ IF Throttled(byEmail[email]) THEN UNCHANGED txn
             ELSE txn' = [txn EXCEPT ![s] = [op |-> "login", ip |-> ip, email |-> email]]
  /\ UNCHANGED <<world, clock, failed>>

\* record_failure.
Fail(s) ==
  LET t == txn[s] IN
  /\ t.op = "login" /\ Len(failed) < MaxFailures
  /\ byIP' = [byIP EXCEPT ![t.ip] = Append(@, clock)]
  /\ byEmail' = [byEmail EXCEPT ![t.email] = Append(@, clock)]
  /\ failed' = Append(failed, [at |-> clock, ip |-> t.ip, email |-> t.email])
  /\ txn' = [txn EXCEPT ![s] = Idle]
  /\ UNCHANGED <<world, clock>>

\* record_success leaves the bucket of the peer as it is.
Succeed(s) ==
  LET t == txn[s] IN
  /\ t.op = "login"
  /\ byEmail' = [byEmail EXCEPT ![t.email] = <<>>]
  /\ txn' = [txn EXCEPT ![s] = Idle]
  /\ UNCHANGED <<world, clock, byIP, failed>>

Tick ==
  /\ "login" \in world.ops /\ clock < MaxClock
  /\ clock' = clock + 1
  /\ UNCHANGED <<world, txn, byIP, byEmail, failed>>

SignInInit ==
  /\ world \in Worlds
  /\ txn = [s \in Sessions |-> Idle]
  /\ clock = 0
  /\ byIP = [ip \in IPs |-> <<>>]
  /\ byEmail = [e \in Emails |-> <<>>]
  /\ failed = <<>>

-----------------------------------------------------------------------------
\* Failures of one peer in the window that ends at time t.
Within(ip, t) ==
  {i \in DOMAIN failed : failed[i].ip = ip /\ failed[i].at <= t /\ failed[i].at + Window > t}

\* In no window does a peer fail more often than the limit, but for logins that
\* had passed the check when the limit was reached: one for each other session.
\* A peer is refused only for failures of his own, or of the email, within the
\* window, so nobody stays locked out for longer than the window.
LoginBounded ==
  /\ \A ip \in IPs, t \in 0 .. MaxClock :
       Cardinality(Within(ip, t)) < MaxAttempts + Cardinality(world.sessions)
  /\ \A ip \in IPs : Throttled(byIP[ip]) => Cardinality(Within(ip, clock)) >= MaxAttempts
  /\ \A email \in Emails : Throttled(byEmail[email]) =>
       Cardinality({i \in DOMAIN failed : failed[i].email = email
                                          /\ failed[i].at + Window > clock}) >= MaxAttempts
=============================================================================
