--------------------------- MODULE MCSignerOnFile ---------------------------
(* A small instance of SignerOnFile for TLC: a process with two threads, one *)
(* of which executes a draft, beside a process with one thread.              *)
EXTENDS SignerOnFile

CONSTANTS t1, t2, t3, p1, p2, room1, room2, r1, r2

TwoAndOne == [t \in {t1, t2, t3} |-> IF t = t3 THEN p2 ELSE p1]
Room1     == [r \in Requests |-> room1]

\* The draft's call and, in the same lane, the call of the threads that
\* reserve for another id; the other lane only has its earlier counter.
SomeReserves == [lane : {room1}, id : {r1, r2}]
=============================================================================
