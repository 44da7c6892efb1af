---------------------------- MODULE MCRegistration ----------------------------
(* Small instances of Registration for TLC.                                *)
EXTENDS Registration, TLC

CONSTANTS ann, bob, p1, p2, i1, vip

Row(e, t) == [email |-> e, type |-> t]

\* Two attendees who both get a VIP ticket, one of them mentioned twice.
VipFile == {<<Row(ann, vip), Row(bob, vip), Row(ann, NoType)>>}

\* Two attendees without a ticket type.
PlainFile == {<<Row(ann, NoType), Row(bob, NoType)>>}

\* One ticket or seat, or no limit.
OneOrNoLimit == {1, NoLimit}
One == {1}

SameRequests == Permutations(Requests)
===============================================================================
