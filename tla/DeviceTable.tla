------------------------------ MODULE DeviceTable ------------------------------
(***************************************************************************)
(* What a table of named devices promises.  Names may repeat: the device   *)
(* that was added last is the one that is found.                           *)
(***************************************************************************)
EXTENDS Naturals, SequencesExt

CONSTANTS Name, Driver

VARIABLE list   \* the devices, the newest first

Device == [name : Name, driver : Driver]

Has(l, n)   == \E i \in 1 .. Len(l) : l[i].name = n
Place(l, n) == CHOOSE i \in 1 .. Len(l) :
                 l[i].name = n /\ \A j \in 1 .. i - 1 : l[j].name # n

Added(l, n, d)   == <<[name |-> n, driver |-> d]>> \o l
Removed(l, n)    == RemoveAt(l, Place(l, n))
Copied(l, s, t)  == Added(l, t, l[Place(l, s)].driver)

Init == list = <<>>

Add(n, d)  == list' = Added(list, n, d)
Delete(n)  == Has(list, n) /\ list' = Removed(list, n)
Copy(s, t) == Has(list, s) /\ list' = Copied(list, s, t)

\* A device never goes missing: it has its new name before it loses the old.
Rename(s, t) == Has(list, s) /\ list' = Removed(Copied(list, s, t), s)

Next ==
  \E n \in Name :
    \/ \E d \in Driver : Add(n, d)
    \/ Delete(n)
    \/ \E t \in Name : Copy(n, t) \/ Rename(n, t)

Spec == Init /\ [][Next]_list
===============================================================================
