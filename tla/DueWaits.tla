------------------------------ MODULE DueWaits ------------------------------
(***************************************************************************)
(* The backstop that wakes persisted waits (due_waits.DueWaitBackstop).    *)
(* Every table that holds waits is a source; a pass takes one due row of   *)
(* one source at a time, in rotation, until its batch is full, its time is *)
(* spent or every source is exhausted.  What the row's owner does with its *)
(* turn is open: move the row's clock, leave it as it is, fail, or ask to  *)
(* be observed again later.                                                *)
(***************************************************************************)
EXTENDS Integers, FiniteSets, FiniteSetsExt

CONSTANTS
    N,            \* the number of sources
    K,            \* the number of rows of each source, a sequence
    batch_limit,  \* rows examined in one pass
    WAIT_STEP     \* clock steps before a waiting row is handled again

\* What the values of the constants must satisfy.
Assumed ==
    /\ N \in Nat \ {0} /\ K \in [1 .. N -> Nat \ {0}]
    /\ batch_limit \in Nat \ {0} /\ WAIT_STEP \in Nat \ {0}

Index == 0 .. N - 1
Key == 1 .. Max({K[i] : i \in 1 .. N})
None == 0

VARIABLES
    due,           \* the rows of each source the selection finds
    owner_cursor,  \* the source whose turn is next
    row_cursors,   \* the last row examined of each source, or None
    retry_at,      \* clock steps until a row that asked to wait is handled
    pass           \* the pass in progress

vars == <<due, owner_cursor, row_cursors, retry_at, pass>>

\* steady and unread are histories: the rows due since the pass began, and
\* the sources a selection failed for.
NoPass ==
    [on |-> FALSE, examined |-> 0, visited |-> [i \in Index |-> {}],
     exhausted |-> {}, blocked |-> [i \in Index |-> {}],
     steady |-> [i \in Index |-> {}], unread |-> {}]

Rows(i) == 1 .. K[i + 1]
RowSets == {d \in [Index -> SUBSET Key] : \A i \in Index : d[i] \subseteq Rows(i)}

TypeOK ==
    /\ due \in RowSets
    /\ owner_cursor \in Index
    /\ row_cursors \in [Index -> Key \cup {None}]
    /\ retry_at \in [Index -> [Key -> 0 .. WAIT_STEP]]
    /\ pass.on \in BOOLEAN /\ pass.examined \in Nat
    /\ pass.visited \in RowSets /\ pass.blocked \in RowSets
    /\ pass.steady \in RowSets
    /\ pass.exhausted \subseteq Index /\ pass.unread \subseteq Index

Init ==
    /\ due \in RowSets
    /\ owner_cursor = 0
    /\ row_cursors = [i \in Index |-> None]
    /\ retry_at = [i \in Index |-> [k \in Key |-> 0]]
    /\ pass = NoPass

-----------------------------------------------------------------------------
(* The owners, beside the pass: a row's clock comes, or it is advanced on  *)
(* its normal path.                                                        *)

BecomesDue ==
    \E i \in Index : \E k \in Rows(i) \ due[i] :
        /\ due' = [due EXCEPT ![i] = @ \cup {k}]
        /\ UNCHANGED <<owner_cursor, row_cursors, retry_at, pass>>

Advanced ==
    \E i \in Index : \E k \in due[i] :
        /\ due' = [due EXCEPT ![i] = @ \ {k}]
        /\ pass' = [pass EXCEPT !.steady[i] = @ \ {k}]
        /\ UNCHANGED <<owner_cursor, row_cursors, retry_at>>

Elapse ==
    /\ \E i \in Index, k \in Key : retry_at[i][k] > 0
    /\ retry_at' = [i \in Index |-> [k \in Key |-> Max({0, retry_at[i][k] - 1})]]
    /\ UNCHANGED <<due, owner_cursor, row_cursors, pass>>

-----------------------------------------------------------------------------
(* tick.  The clock is read once, when the pass begins.                    *)

Begin ==
    /\ ~pass.on
    /\ pass' = [NoPass EXCEPT !.on = TRUE, !.steady = due,
                  !.blocked = [i \in Index |-> {k \in Key : retry_at[i][k] > 0}]]
    /\ UNCHANGED <<due, owner_cursor, row_cursors, retry_at>>

\* The loop goes on unless the batch is full or the budget is spent (late).
Continued(p, late) == IF late \/ p.examined >= batch_limit THEN NoPass ELSE p

\* The source whose turn it is; the cursor moves before it is looked at.
Turn(i) ==
    /\ pass.on
    /\ i = owner_cursor
    /\ owner_cursor' = (i + 1) % N

SkipExhausted(i) ==
    /\ Turn(i)
    /\ i \in pass.exhausted
    /\ pass' = IF pass.exhausted = Index THEN NoPass ELSE pass
    /\ UNCHANGED <<due, row_cursors, retry_at>>

\* A failed selection has no row: the source waits for the next pass.
SelectFails(i) ==
    /\ Turn(i)
    /\ i \notin pass.exhausted
    /\ \E late \in BOOLEAN :
         pass' = Continued([pass EXCEPT !.exhausted = @ \cup {i},
                                        !.unread = @ \cup {i}], late)
    /\ UNCHANGED <<due, row_cursors, retry_at>>

\* The first due row after the cursor in key order, or the first of all.
Bug_Candidate(i) == Min(due[i])
Candidate(i) ==
    LET after == {k \in due[i] : k > row_cursors[i]}
    IN  Min(IF after # {} THEN after ELSE due[i])

Finished(i) == due[i] # {} => Candidate(i) \in pass.visited[i]

Exhaust(i) ==
    /\ Turn(i)
    /\ i \notin pass.exhausted
    /\ Finished(i)
    /\ \E late \in BOOLEAN :
         pass' = Continued([pass EXCEPT !.exhausted = @ \cup {i}], late)
    /\ UNCHANGED <<due, row_cursors, retry_at>>

\* A row is examined: it has had its turn before its handler runs.
Examine(i, k) ==
    /\ Turn(i)
    /\ i \notin pass.exhausted /\ ~Finished(i)
    /\ k = Candidate(i)
    /\ row_cursors' = [row_cursors EXCEPT ![i] = k]
    /\ \E late \in BOOLEAN :
         pass' = Continued([pass EXCEPT !.examined = @ + 1,
                                        !.visited[i] = @ \cup {k}], late)

InBackoff(i) ==
    \E k \in due[i] \cap pass.blocked[i] :
        /\ Examine(i, k)
        /\ UNCHANGED <<due, retry_at>>

\* The handler runs; an error that says wait or observe holds the row back,
\* any other error leaves the row due.
Handle(i, k) ==
    /\ k \in due[i] \ pass.blocked[i]
    /\ Examine(i, k)
    /\ \E answer \in {"moved", "still", "wait"} :
         /\ due' = IF answer = "moved" THEN [due EXCEPT ![i] = @ \ {k}] ELSE due
         /\ retry_at' = IF answer = "wait"
                        THEN [retry_at EXCEPT ![i][k] = WAIT_STEP] ELSE retry_at

Tick ==
    \/ Begin
    \/ \E i \in Index :
         \/ SkipExhausted(i) \/ SelectFails(i) \/ Exhaust(i) \/ InBackoff(i)
         \/ \E k \in Key : Handle(i, k)

Next == BecomesDue \/ Advanced \/ Elapse \/ Tick

Spec == Init /\ [][Next]_vars
\* The worker's loop runs passes for ever, and the clock moves.
FairSpec == Spec /\ WF_vars(Tick) /\ WF_vars(Elapse)

-----------------------------------------------------------------------------
(* Properties.                                                             *)

\* No row has a second turn in a pass, although its handler cannot move its
\* clock, and a pass examines no more rows than its batch (due_waits.py:106,
\* 160-165): what it counts are different rows.
ExaminedOnce ==
    /\ pass.examined <= batch_limit
    /\ pass.examined =
         MapThenSumSet(LAMBDA i : Cardinality(pass.visited[i]), Index)

\* A source a pass is done with has given a turn to each of its rows that
\* was due throughout the pass, whatever rows came and went meanwhile, unless
\* it could not be read (due_waits.py:143-161).
CompletePass ==
    \A i \in pass.exhausted \ pass.unread : pass.steady[i] \subseteq pass.visited[i]

\* A row that stays due is handled again and again, whatever the other rows
\* and sources do with their turns and however little time a pass has, unless
\* its source cannot be read (due_waits.py:97-99): the cursors outlive the
\* pass.
NoRowStarves ==
    \A i \in Index : \A k \in Rows(i) :
        \/ []<>(k \notin due[i])
        \/ []<><<Handle(i, k)>>_vars
        \/ []<><<SelectFails(i)>>_vars

\* A pass is fair to the rows of its sources: none has a second turn, and none
\* that stayed due is passed over (DueWaitBackstop.tick).
FairPass == TypeOK /\ ExaminedOnce /\ CompletePass
=============================================================================
