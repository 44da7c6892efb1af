----------------------------- MODULE BoxOffice -----------------------------
(***************************************************************************)
(* What registering promises about one event, without calls, locks or      *)
(* transactions: who has a seat and which kind of ticket it is booked on,  *)
(* who has been given the ticket itself, the room there is and what is on  *)
(* offer.                                                                  *)
(*                                                                         *)
(* A guest who books is held to the room and the offer of that very        *)
(* moment.  An organiser's list is not held to the room (an import never   *)
(* asks), and to the capacities only until the first edit of an offer:     *)
(* what the list's claims were checked against may be out of date then.    *)
(* Nobody loses a seat or a ticket, and no booking changes its kind.       *)
(***************************************************************************)
EXTENDS Naturals, FiniteSets

CONSTANTS
  People,
  Kinds,      \* kinds of ticket
  NoKind,     \* a seat that is booked on no kind
  Limits,     \* what a capacity may be
  NoLimit     \* the capacity that is none

VARIABLES
  booking,    \* those who have a seat -> the kind of their ticket
  ticketed,   \* those who have been given their ticket
  room,       \* how many seats there are
  offer,      \* kind -> whether it is on sale, and how many tickets there are
  changed     \* whether an offer has been edited

box == <<booking, ticketed, room, offer, changed>>

Offers == [active: BOOLEAN, capacity: Limits]
Within(n, limit) == limit = NoLimit \/ n <= limit

Seated == DOMAIN booking
HoldersOf(b, k) == {a \in DOMAIN b : b[a] = k}

\* The bookings with those of more.
With(more) == [a \in Seated \cup DOMAIN more |->
                 IF a \in Seated THEN booking[a] ELSE more[a]]

Init ==
  /\ booking = [a \in {} |-> NoKind]
  /\ ticketed = {}
  /\ room \in Limits
  /\ offer \in [Kinds -> Offers]
  /\ changed = FALSE

\* A guest books a seat, on a kind that is on sale and has a ticket left.
Book(a, k) ==
  /\ a \notin Seated
  /\ booking' = With([x \in {a} |-> k])
  /\ Within(Cardinality(Seated) + 1, room)
  /\ k # NoKind => /\ offer[k].active
                   /\ Within(Cardinality(HoldersOf(booking, k)) + 1, offer[k].capacity)
  /\ UNCHANGED <<ticketed, room, offer, changed>>

\* The organiser's list: seats and tickets for all on it at once.
BookList(list) ==
  /\ DOMAIN list \cap Seated = {}
  /\ booking' = With(list)
  /\ changed \/ \A k \in Kinds : Within(Cardinality(HoldersOf(booking', k)), offer[k].capacity)
  /\ ticketed' = ticketed \cup DOMAIN list
  /\ UNCHANGED <<room, offer, changed>>

HandOver(a) ==
  /\ a \in Seated
  /\ ticketed' = ticketed \cup {a}
  /\ UNCHANGED <<booking, room, offer, changed>>

\* An organiser may set any capacity but take none away.
EditOffer(k, o) ==
  /\ o.capacity = NoLimit => offer[k].capacity = NoLimit
  /\ offer' = [offer EXCEPT ![k] = o]
  /\ changed' = TRUE
  /\ UNCHANGED <<booking, ticketed, room>>

Next ==
  \/ \E S \in SUBSET People : \E list \in [S -> Kinds \cup {NoKind}] : BookList(list)
  \/ \E a \in People, k \in Kinds \cup {NoKind} : Book(a, k)
  \/ \E a \in People : HandOver(a)
  \/ \E k \in Kinds, o \in Offers : EditOffer(k, o)

Spec == Init /\ [][Next]_box
============================================================================
