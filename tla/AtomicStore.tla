----------------------------- MODULE AtomicStore -----------------------------
(***************************************************************************)
(* What a durable JSON store promises its callers: each operation reads    *)
(* the document and replaces it in one step, or refuses and changes        *)
(* nothing, and nothing else changes the document.  Signer and             *)
(* ControlPlane take this for granted when they make one store call one    *)
(* step.                                                                   *)
(***************************************************************************)
CONSTANTS
    Threads,
    Initial,        \* documents found at the first start
    Operations,
    Refuses(_, _),  \* the operation raises on this document
    Apply(_, _),    \* the document it leaves
    Answer(_, _),   \* the value it returns
    NoAnswer

VARIABLES
    doc,    \* the document
    answer  \* the value a thread's call is about to return

avars == <<doc, answer>>

AInit ==
    /\ doc \in Initial
    /\ answer = [t \in Threads |-> NoAnswer]

Do(t, o) ==
    /\ answer[t] = NoAnswer
    /\ ~Refuses(doc, o)
    /\ doc' = Apply(doc, o)
    /\ answer' = [answer EXCEPT ![t] = Answer(doc, o)]

\* Calls return, or die with the answer: the operation stays done.
Drop(ts) ==
    /\ answer' = [t \in Threads |-> IF t \in ts THEN NoAnswer ELSE answer[t]]
    /\ UNCHANGED doc

ANext ==
    \/ \E t \in Threads, o \in Operations : Do(t, o)
    \/ \E ts \in SUBSET Threads : Drop(ts)

ASpec == AInit /\ [][ANext]_avars
=============================================================================
