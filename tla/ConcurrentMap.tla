--------------------------- MODULE ConcurrentMap ---------------------------
(***************************************************************************)
(* What a concurrent hash map promises to the threads that call it: an     *)
(* operation that changes the map does so in one step between its call and *)
(* its return and answers according to the content at that step, and a     *)
(* find answers what its key had at some time between its call and its     *)
(* return.                                                                 *)
(***************************************************************************)
CONSTANTS
    Threads, Keys, Vals,
    Calls,              \* the calls [op, key, val] threads make
    Absent,             \* no value for a key
    NoCall,             \* the thread is in no operation
    Pending,            \* the operation has not answered yet
    Thrown             \* the operation has thrown an exception

VARIABLES
    content,            \* the value of each key
    call,               \* the operation each thread is in
    seen,               \* what the key of a running find has had since its call
    answer              \* what each operation answers

vars == <<content, call, seen, answer>>

Inserts == {"insert", "insert_or_assign", "uprase"}

Init ==
    /\ content \in [Keys -> Vals \cup {Absent}]
    /\ call = [t \in Threads |-> NoCall]
    /\ seen = [t \in Threads |-> {}]
    /\ answer = [t \in Threads |-> Pending]

Start(t) ==
    /\ call[t] = NoCall
    /\ call'[t] \in Calls
    /\ LET c == call'[t]
       IN  /\ call' = [call EXCEPT ![t] = c]
           /\ seen' = [seen EXCEPT ![t] = IF c.op = "find" THEN {content[c.key]} ELSE {}]
    /\ UNCHANGED <<content, answer>>

Return(t) ==
    /\ answer[t] # Pending
    /\ call' = [call EXCEPT ![t] = NoCall]
    /\ seen' = [seen EXCEPT ![t] = {}]
    /\ answer' = [answer EXCEPT ![t] = Pending]
    /\ UNCHANGED content

\* The operation of a thread takes effect: the content becomes c, every
\* running find sees it, and the answer is a.
Effect(t, c, a) ==
    /\ answer' = [answer EXCEPT ![t] = a]
    /\ content' = c
    /\ seen' = [u \in Threads |-> IF seen[u] = {} THEN {} ELSE seen[u] \cup {c[call[u].key]}]
    /\ UNCHANGED call

Key(t) == call[t].key
Op(t) == call[t].op
Present(t) == content[Key(t)] # Absent
With(t, v) == [content EXCEPT ![Key(t)] = v]

\* A new key is inserted: TRUE.  A key that is present is left alone, gets a
\* new value or is erased, and the answer is FALSE.
Insert(t) ==
    /\ Op(t) \in Inserts
    /\ IF ~Present(t) THEN Effect(t, With(t, call[t].val), TRUE)
       ELSE Effect(t, With(t, CASE Op(t) = "insert" -> content[Key(t)]
                                [] Op(t) = "insert_or_assign" -> call[t].val
                                [] Op(t) = "uprase" -> Absent), FALSE)

\* A key that is present gets a new value or is erased: TRUE.
Change(t) ==
    /\ Op(t) \in {"update", "erase"}
    /\ IF Present(t) THEN Effect(t, With(t, IF Op(t) = "erase" THEN Absent ELSE call[t].val), TRUE)
       ELSE Effect(t, content, FALSE)

Find(t) ==
    /\ Op(t) = "find"
    /\ \E a \in seen[t] : Effect(t, content, a)

Clear(t) == Op(t) = "clear" /\ Effect(t, [k \in Keys |-> Absent], TRUE)

\* Whether the table grew; the content is the same.
Rehash(t) == Op(t) = "rehash_concurrent" /\ \E grew \in BOOLEAN : Effect(t, content, grew)

\* The table may not grow: the exception leaves the content as it is.
Refuse(t) == Op(t) \in Inserts \cup {"rehash_concurrent"} /\ Effect(t, content, Thrown)

Operate(t) == Insert(t) \/ Change(t) \/ Find(t) \/ Clear(t) \/ Rehash(t) \/ Refuse(t)

InCall(t) == call[t] # NoCall /\ answer[t] = Pending

Next == \E t \in Threads : Start(t) \/ Return(t) \/ (InCall(t) /\ Operate(t))

Spec == Init /\ [][Next]_vars

=============================================================================
