------------------------------ MODULE MCReports ------------------------------
(***************************************************************************)
(* Three calls about an event with a legacy pass nobody has used, one that *)
(* was used, and one whose check-in was undone; these two registered at    *)
(* the same time.                                                          *)
(***************************************************************************)
EXTENDS Reports

CONSTANTS ann, bob, eve, t1, t2, t3

OldPass(cipher, revoked) == [raw |-> "old", cipher |-> cipher, revoked |-> revoked]
OldStamps == t1 :> 1 @@ t2 :> 2 @@ t3 :> 2
OldPasses == t1 :> OldPass("none", FALSE) @@ t2 :> OldPass("bad", TRUE) @@ t3 :> OldPass("old", FALSE)
OldRows == t1 :> "none" @@ t2 :> "valid" @@ t3 :> "undone"

Ask(op, u) == [op |-> op, user |-> u]
Scan(t, m) == Ask("scan", bob) @@ [ticket |-> t, manual |-> m]
Asked ==
  {Scan(t1, FALSE), Scan(t2, TRUE)}
  \cup {Ask("undo", ann) @@ [ticket |-> t] : t \in {t1, t2}}
  \cup {Ask("details", u) @@ [tickets |-> {t1}] : u \in {bob, eve}}
  \cup {Ask("mine", eve) @@ [tickets |-> {t1, t2} \cup Calls]}
  \cup {Ask("join", u) : u \in {bob, eve}} \cup {Ask(op, bob) : op \in {"leave", "remove", "statistics", "checkins"}}
  \cup {Ask(op, ann) : op \in {"delete", "dashboard", "registrations", "stream"}}
  \cup {Ask(op, eve) : op \in {"overview"}}
  \cup {Ask("register", eve) @@ [typed |-> TRUE], Ask("import", ann) @@ [typed |-> FALSE]}
  \cup {Ask("attendees", bob) @@ [page |-> 2], Ask("tickets", ann) @@ [page |-> 1]}

SameCalls == Permutations(Calls)
=============================================================================
