--------------------------- MODULE RefreshLedger ---------------------------
(***************************************************************************)
(* What the refresh tokens of one user promise, without Redis, clocks or   *)
(* HTTP calls: which tokens are good for a refresh and which refreshes are *)
(* under way, each with the password that its login was let in with.       *)
(*                                                                         *)
(* Only a login opens a session.  A refresh takes one and gives at most    *)
(* one back, on the same password; everything else only loses some.  A     *)
(* token that is given out twice, within one second, is one session.       *)
(*                                                                         *)
(* The promise is weaker than "none outlives its password": a login may be *)
(* late with a password that has been changed since, and no change of the  *)
(* password is bound to lose anything.                                     *)
(***************************************************************************)
EXTENDS Naturals

CONSTANTS
  Tokens,
  Clients       \* whoever may have a refresh under way

VARIABLES
  password,     \* how often it has been changed
  sessions,     \* those open -> the password they go back to
  underway      \* those who refresh -> the password they go back to

ledger == <<password, sessions, underway>>

With(f, x, v) == [y \in DOMAIN f \cup {x} |-> IF y = x THEN v ELSE f[y]]
Only(f, S) == [y \in DOMAIN f \cap S |-> f[y]]
Without(f, x) == Only(f, DOMAIN f \ {x})

Init ==
  /\ password = 0
  /\ sessions = [t \in {} |-> 0]
  /\ underway = [c \in {} |-> 0]

Login(t) ==
  /\ \E v \in 0 .. password : sessions' = With(sessions, t, v)
  /\ UNCHANGED <<password, underway>>

Take(c, t) ==
  /\ t \in DOMAIN sessions /\ c \notin DOMAIN underway
  /\ sessions' = Without(sessions, t)
  /\ underway' = With(underway, c, sessions[t])
  /\ UNCHANGED password

GiveBack(c, t) ==
  /\ c \in DOMAIN underway
  /\ sessions' = With(sessions, t, underway[c])
  /\ underway' = Without(underway, c)
  /\ UNCHANGED password

\* Sessions are closed, refreshes come to nothing.
Lose(S, C) ==
  /\ sessions' = Only(sessions, S)
  /\ underway' = Only(underway, C)
  /\ UNCHANGED password

ChangePassword ==
  /\ password' = password + 1
  /\ UNCHANGED <<sessions, underway>>

Next ==
  \/ \E t \in Tokens : Login(t)
  \/ \E c \in Clients, t \in Tokens : Take(c, t) \/ GiveBack(c, t)
  \/ \E S \in SUBSET Tokens, C \in SUBSET Clients : Lose(S, C)
  \/ ChangePassword

Spec == Init /\ [][Next]_ledger
============================================================================
