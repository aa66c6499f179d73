------------------------------ MODULE Waiters ------------------------------
(***************************************************************************)
(* The waiter lists of src/octto/session/waiter.ts.  The registry maps a   *)
(* key to the callbacks waiting for it, in registration order; every       *)
(* operation replaces the list of one key, so the operators below are      *)
(* functions of one list.  A callback is named by the call that waits, and *)
(* an absent key is the empty list.                                        *)
(***************************************************************************)
EXTENDS Naturals, Sequences

Registered(list) == {list[i] : i \in DOMAIN list}

\* registerWaiter
Register(list, c) == Append(list, c)

\* unregister, as the cleanup function of a waiter calls it: a callback that
\* has been notified or cleared is not in the list any more.
Unregister(list, c) ==
    IF c \in Registered(list)
    THEN LET i == CHOOSE i \in DOMAIN list : list[i] = c
         IN SubSeq(list, 1, i - 1) \o SubSeq(list, i + 1, Len(list))
    ELSE list

\* notifyFirstWaiter calls and removes the head; notifyAllWaiters calls and
\* removes everything.
NotifiedFirst(list) == IF list = <<>> THEN {} ELSE {Head(list)}
AfterNotifyFirst(list) == IF list = <<>> THEN list ELSE Tail(list)
NotifiedAll(list) == Registered(list)

\* No callback is registered twice.
NoDuplicates(list) ==
    \A i, j \in DOMAIN list : list[i] = list[j] => i = j
=============================================================================
