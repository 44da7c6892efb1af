--------------------------- MODULE MCTicketTypes ---------------------------
(***************************************************************************)
(* Three calls about an event that is a draft at first and has two ticket  *)
(* types, one that is ACTIVE at first and has one, and one being created.  *)
(***************************************************************************)
EXTENDS TicketTypes, TLC

CONSTANTS gala, fete, fair, ann, bob, s1, s2, t1, t2, t3

Old(status, s) ==
  [status |-> status, deleted |-> FALSE, owner |-> ann, slug |-> s, title |-> "first"]
OldEvents ==
  {gala :> Old("DRAFT", s1) @@ fete :> Old("ACTIVE", s2) @@ fair :> NoEvent}
NewDrafts == {gala, fair}
OldType(n, e) == [order |-> n, event |-> e, active |-> TRUE]
OldTypes == t1 :> OldType(0, gala) @@ t2 :> OldType(1, gala) @@ t3 :> OldType(0, fete)

Ask(op, e, u, a, t) == [op |-> op, event |-> e, user |-> u, admin |-> a, type |-> t]
Asked ==
  {Ask(op, gala, ann, FALSE, "none") :
     op \in {"update", "delete", "publish", "unpublish", "cancel", "createType"}}
  \cup {Ask(op, gala, bob, a, "none") : op \in {"get", "cancel"}, a \in BOOLEAN}
  \cup {Ask(op, fete, ann, FALSE, "none") : op \in {"publish", "unpublish", "cancel"}}
  \cup {Ask("create", fair, bob, FALSE, "none")}
  \cup {Ask(op, gala, ann, FALSE, t1) : op \in {"updateType", "deleteType", "register"}}
  \cup {Ask("register", fete, bob, FALSE, t3)}

SameCalls == Permutations(Calls)
=============================================================================
