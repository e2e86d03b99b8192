--------------------------- MODULE AtomicRegister ---------------------------
(***************************************************************************)
(* What the data behind one seqlock promises to its users: a register      *)
(* whose content changes from one whole content to another in one step,    *)
(* and reads that return, at one instant between their call and their      *)
(* return, the content the register has at that instant.                   *)
(***************************************************************************)
CONSTANTS
    Threads,    \* the threads that read
    Contents,   \* the whole contents the register can hold
    Initial,    \* the content before any operation, one of Contents
    Pending     \* the result of a read that has not returned, not in Contents

VARIABLES
    content,    \* the content of the register
    result      \* what the last read of each thread returned

vars == <<content, result>>

TypeOK ==
    /\ content \in Contents
    /\ result \in [Threads -> Contents \cup {Pending}]

Init ==
    /\ content = Initial
    /\ result = [t \in Threads |-> Pending]

\* A thread starts an operation: the result of its last read is gone.
Call(t) ==
    /\ result' = [result EXCEPT ![t] = Pending]
    /\ UNCHANGED content

\* The whole content is replaced at once.
Replace(c) ==
    /\ content' = c
    /\ UNCHANGED result

\* A read returns the present content.
Read(t) ==
    /\ result[t] = Pending
    /\ result' = [result EXCEPT ![t] = content]
    /\ UNCHANGED content

Next ==
    \/ \E t \in Threads : Call(t) \/ Read(t)
    \/ \E c \in Contents : Replace(c)

Spec == Init /\ [][Next]_vars

=============================================================================
