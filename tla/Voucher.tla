------------------------------ MODULE Voucher ------------------------------
(***************************************************************************)
(* What a mailed token promises, without Redis, mail or accounts: it is    *)
(* live once; whoever presents it while it is live is admitted and may     *)
(* redeem it later, the token having gone by then or not; and unless it    *)
(* lapsed it is only taken away after it has been redeemed.                *)
(*                                                                         *)
(* Two clients may be admitted with one voucher: the promise is not that a *)
(* voucher is redeemed once.                                               *)
(***************************************************************************)
EXTENDS Integers

CONSTANTS Vouchers, Clients

VARIABLES
  stage,      \* voucher -> "blank", "live", "lapsed" or "spent"
  admitted,   \* client -> the vouchers it may redeem
  redeemed    \* voucher -> how often it has been redeemed

ledger == <<stage, admitted, redeemed>>

Init ==
  /\ stage = [v \in Vouchers |-> "blank"]
  /\ admitted = [c \in Clients |-> {}]
  /\ redeemed = [v \in Vouchers |-> 0]

Issue(v) ==
  /\ stage[v] = "blank"
  /\ stage' = [stage EXCEPT ![v] = "live"]
  /\ UNCHANGED <<admitted, redeemed>>

Admit(c, v) ==
  /\ stage[v] = "live"
  /\ admitted' = [admitted EXCEPT ![c] = @ \cup {v}]
  /\ UNCHANGED <<stage, redeemed>>

Redeem(c, v) ==
  /\ v \in admitted[c]
  /\ admitted' = [admitted EXCEPT ![c] = @ \ {v}]
  /\ redeemed' = [redeemed EXCEPT ![v] = @ + 1]
  /\ UNCHANGED stage

\* One client gives up; all of them do when the server goes down.
GiveUp(c) ==
  /\ admitted' = [admitted EXCEPT ![c] = {}]
  /\ UNCHANGED <<stage, redeemed>>

ShutDown ==
  /\ admitted' = [c \in Clients |-> {}]
  /\ UNCHANGED <<stage, redeemed>>

Lapse(v) ==
  /\ stage[v] = "live"
  /\ stage' = [stage EXCEPT ![v] = "lapsed"]
  /\ UNCHANGED <<admitted, redeemed>>

Spend(v) ==
  /\ stage[v] = "live"
  /\ redeemed[v] > 0
  /\ stage' = [stage EXCEPT ![v] = "spent"]
  /\ UNCHANGED <<admitted, redeemed>>

Next ==
  \/ \E v \in Vouchers : Issue(v) \/ Lapse(v) \/ Spend(v)
  \/ \E c \in Clients, v \in Vouchers : Admit(c, v) \/ Redeem(c, v)
  \/ \E c \in Clients : GiveUp(c)
  \/ ShutDown

Spec == Init /\ [][Next]_ledger
============================================================================
