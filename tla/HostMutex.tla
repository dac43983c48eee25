------------------------------ MODULE HostMutex ------------------------------
(***************************************************************************)
(* What the per-host queue promises: every host is held by at most one     *)
(* operation, an operation that works on all its hosts at once gets them   *)
(* together or not at all, and a host goes from one operation to the next  *)
(* only by way of being free.                                              *)
(***************************************************************************)
CONSTANTS
  Host,   \* hosts
  Op,     \* operations that hold hosts
  Whole,  \* the operations that take all their hosts together
  Hosts   \* the hosts of such an operation

VARIABLE holder   \* the operations that hold a host

TypeOK == holder \in [Host -> SUBSET Op]

Init == holder = [h \in Host |-> {}]

Held(o) == { h \in Host : o \in holder[h] }

\* Operation o gets the hosts H, all of them free.
Grant(o, H) ==
  /\ H # {}
  /\ \A h \in H : holder[h] = {}
  /\ o \in Whole => H = Hosts[o] /\ Held(o) = {}
  /\ holder' = [h \in Host |-> IF h \in H THEN {o} ELSE holder[h]]

\* The hosts H are given up, by whoever held them.
Release(H) ==
  /\ H # {}
  /\ \A h \in H : holder[h] # {}
  /\ holder' = [h \in Host |-> IF h \in H THEN {} ELSE holder[h]]

Next ==
  \E H \in SUBSET Host : Release(H) \/ \E o \in Op : Grant(o, H)

Spec == Init /\ [][Next]_holder

AtMostOne == \A h \in Host : \A a, b \in holder[h] : a = b
=============================================================================
