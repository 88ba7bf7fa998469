------------------------------- MODULE Lease -------------------------------
(***************************************************************************)
(* What a connection pool promises its callers: a connection is leased to  *)
(* one thread at a time, a thread has at most one, and connections are     *)
(* opened up to a limit and never closed.  How a caller waits is not said. *)
(***************************************************************************)
EXTENDS Naturals

CONSTANTS Threads, NoThread, Limit

VARIABLES size,    \* connections opened so far, numbered 1..size
          owner    \* who holds each connection

Init ==
    /\ size \in 0..Limit
    /\ owner = [k \in 1..Limit |-> NoThread]

HasNone(t) == \A k \in 1..Limit : owner[k] # t

Acquire(t, k) ==
    /\ HasNone(t)
    /\ k <= size
    /\ owner[k] = NoThread
    /\ owner' = [owner EXCEPT ![k] = t]
    /\ size' = size

Open(t) ==
    /\ HasNone(t)
    /\ size < Limit
    /\ size' = size + 1
    /\ owner' = [owner EXCEPT ![size + 1] = t]

Return(t, k) ==
    /\ owner[k] = t
    /\ owner' = [owner EXCEPT ![k] = NoThread]
    /\ size' = size

Next == \E t \in Threads :
            \/ Open(t)
            \/ \E k \in 1..Limit : Acquire(t, k) \/ Return(t, k)

Spec == Init /\ [][Next]_<<size, owner>>
=============================================================================
