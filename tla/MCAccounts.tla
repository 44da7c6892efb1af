----------------------------- MODULE MCAccounts -----------------------------
(***************************************************************************)
(* Accounts over three addresses: an organizer with an event, somebody who *)
(* may or may not have signed up, and somebody who may be an administrator,*)
(* a deleted user or nobody.  The behaviours make three calls.             *)
(***************************************************************************)
EXTENDS Accounts, TLC

CONSTANTS owner, ann, bob, party

Owners == [e \in Events |-> owner]

Person(role, status, deleted) == [role |-> role, status |-> status, deleted |-> deleted]
Base(a, b, held) ==
  [user |-> owner :> Person("ORGANIZER", "ACTIVE", FALSE) @@ ann :> a @@ bob :> b,
   tokens |-> {<<owner, "ORGANIZER">>} \cup held]

\* A fresh database; a suspended deleted user and no administrator yet; one with an
\* administrator and somebody deleted; one with two administrators.
Databases ==
  { Base(NoRow, NoRow, {}),
    Base(Person("ATTENDEE", "ACTIVE", FALSE), Person("ATTENDEE", "SUSPENDED", TRUE), {}),
    Base(Person("ATTENDEE", "ACTIVE", TRUE), Person("ADMIN", "ACTIVE", FALSE), {<<bob, "ADMIN">>}),
    Base(Person("ADMIN", "ACTIVE", FALSE), Person("ADMIN", "ACTIVE", FALSE), {<<ann, "ADMIN">>, <<bob, "ADMIN">>}) }

Ask(op, actor, target, role, about) ==
  [op |-> op, actor |-> actor, target |-> target, event |-> party,
   role |-> role, about |-> about]
Asked ==
  {Ask("login", a, a, "ATTENDEE", "none") : a \in {ann, bob}}
  \cup {Ask("register", a, a, "ATTENDEE", "none") : a \in {ann, bob}}
  \cup {Ask(op, a, a, "ATTENDEE", "none") : op \in {"google", "bootstrap"}, a \in {ann, bob}}
  \cup {Ask(op, a, b, "ATTENDEE", "none") :
          op \in {"promote", "deactivate", "invite"}, a \in {ann, bob}, b \in {ann, bob}}
  \cup {Ask("assign", owner, b, "ATTENDEE", "none") : b \in {ann, bob}}
  \cup {Ask(op, owner, ann, "ATTENDEE", c) : op \in {"accept", "remove"}, c \in Calls}

SameCalls == Permutations(Calls)
=============================================================================
