----------------------------- MODULE Admission -----------------------------
(***************************************************************************)
(* What the gate promises about one registration at a time, without        *)
(* requests, locks or tokens: a ledger of who is in, how often each was    *)
(* let in and how often that was taken back.                               *)
(*                                                                         *)
(* The promise is weaker than "one at a time": once an admission has been  *)
(* taken back, two scans that both saw it gone may both be answered VALID  *)
(* (resolveCheckIn's unconditional update), so Enter may repeat then.      *)
(***************************************************************************)
EXTENDS Naturals

CONSTANT Attendees

VARIABLES inside, entries, exits

ledger == <<inside, entries, exits>>

Init ==
  /\ inside = {}
  /\ entries = [a \in Attendees |-> 0]
  /\ exits = [a \in Attendees |-> 0]

Enter(a) ==
  /\ a \notin inside \/ exits[a] > 0
  /\ inside' = inside \cup {a}
  /\ entries' = [entries EXCEPT ![a] = @ + 1]
  /\ UNCHANGED exits

Leave(a) ==
  /\ a \in inside
  /\ inside' = inside \ {a}
  /\ exits' = [exits EXCEPT ![a] = @ + 1]
  /\ UNCHANGED entries

Next == \E a \in Attendees : Enter(a) \/ Leave(a)

Spec == Init /\ [][Next]_ledger
============================================================================
