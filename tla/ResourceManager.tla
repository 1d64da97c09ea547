---------------------------- MODULE ResourceManager ----------------------------
(***************************************************************************)
(* The process-wide ResourceManager of utils/resource_manager.py: slots    *)
(* for concurrent operations, a start time for each, and the operation a   *)
(* "with manager" block is in.  There is no lock; threads switch at calls. *)
(* A test generation takes a slot, checks its time now and then, and       *)
(* finishes in a finally clause, also when the check has raised.           *)
(*                                                                         *)
(* An identifier is a name, the second and a counter: here the counter, as *)
(* for generations of one size that start in one second.                   *)
(***************************************************************************)
EXTENDS Integers, FiniteSets

CONSTANTS
    Workers,       \* threads
    NoOperation,
    MaxOperations, \* limits.max_concurrent_operations
    MaxStarts      \* bound: operations started

ASSUME ResourceAssumption ==
    /\ MaxOperations \in Nat \ {0} /\ MaxStarts \in Nat
    /\ NoOperation \notin Nat
    /\ IsFiniteSet(Workers)

VARIABLES
    active,       \* _active_operations
    counter,      \* _operation_counter
    startTimes,   \* keys of _operation_start_times
    currentOp,    \* _current_operation_id
    work,         \* [Workers -> how its operation stands]
    doubled,      \* history: an operation has been finished twice
    nested,       \* history: a "with manager" was entered within another
    issued        \* history: [identifier -> operations that got it]

resourceVars == <<active, counter, startTimes, currentOp, work, doubled, nested, issued>>

Ids == 1..MaxStarts
NoWork == [at |-> "rest", op |-> NoOperation, managed |-> FALSE, held |-> FALSE]

ResourceTypeOK ==
    /\ active \in 0..MaxStarts
    /\ counter \in 0..MaxStarts
    /\ startTimes \subseteq Ids
    /\ currentOp \in Ids \cup {NoOperation}
    /\ work \in [Workers -> [at : {"rest", "number", "stamp", "enter", "run", "exit", "clear"},
                             op : Ids \cup {NoOperation},
                             managed : BOOLEAN,  \* in a "with manager"
                             held : BOOLEAN]]    \* its slot has not been returned
    /\ doubled \in BOOLEAN /\ nested \in BOOLEAN
    /\ issued \in [Ids -> 0..Cardinality(Workers)]

ResourceInit ==
    /\ active = 0 /\ counter = 0
    /\ startTimes = {}
    /\ currentOp = NoOperation
    /\ work = [w \in Workers |-> NoWork]
    /\ doubled = FALSE /\ nested = FALSE
    /\ issued = [i \in Ids |-> 0]

-----------------------------------------------------------------------------
Advance(w, from, to) == work[w].at = from /\ work' = [work EXCEPT ![w].at = to]

\* start_operation: a slot is free, and the operation is counted.  With none
\* free it raises and changes nothing.
Begin(w, managed) ==
    /\ work[w].at = "rest"
    /\ active < MaxOperations
    /\ counter < MaxStarts
    /\ counter' = counter + 1
    /\ work' = [work EXCEPT ![w] = [NoWork EXCEPT !.at = "number", !.managed = managed]]
    /\ UNCHANGED <<active, startTimes, currentOp, doubled, nested, issued>>

\* Mutant of Number: the slot is not counted.
NumberOnly(w) ==
    /\ work[w].at = "number"
    /\ work' = [work EXCEPT ![w].at = "stamp", ![w].op = counter, ![w].held = TRUE]
    /\ issued' = [issued EXCEPT ![counter] = @ + 1]
    /\ UNCHANGED <<active, counter, startTimes, currentOp, doubled, nested>>

\* The identifier is formed after a call of time.time(), by what the counter is then.
Number(w) ==
    /\ work[w].at = "number"
    /\ active' = active + 1
    /\ work' = [work EXCEPT ![w].at = "stamp", ![w].op = counter, ![w].held = TRUE]
    /\ issued' = [issued EXCEPT ![counter] = @ + 1]
    /\ UNCHANGED <<counter, startTimes, currentOp, doubled, nested>>

StampStart(w) ==
    /\ Advance(w, "stamp", IF work[w].managed THEN "enter" ELSE "run")
    /\ startTimes' = startTimes \cup {work[w].op}
    /\ UNCHANGED <<active, counter, currentOp, doubled, nested, issued>>

\* ResourceManager.__enter__
EnterManager(w) ==
    /\ Advance(w, "enter", "run")
    /\ nested' = (nested \/ currentOp # NoOperation)
    /\ currentOp' = work[w].op
    /\ UNCHANGED <<active, counter, startTimes, doubled, issued>>

\* finish_operation(op), called by w: it counts down for whatever it is given.
Finishes(w, op) ==
    /\ active' = IF active > 0 THEN active - 1 ELSE 0
    /\ startTimes' = startTimes \ {op}
    /\ doubled' = (doubled \/ ~work[w].held \/ work[w].op # op)
    /\ UNCHANGED <<counter, nested, issued>>

\* check_operation_limits of an operation that has a start time and is overdue:
\* it is finished and the check raises.
CheckRaises(w) ==
    /\ work[w].at = "run"
    /\ work[w].op \in startTimes
    /\ work' = [work EXCEPT ![w].at = "exit", ![w].held = FALSE]
    /\ Finishes(w, work[w].op)
    /\ UNCHANGED currentOp

\* The body ends or raises.
EndBody(w) ==
    /\ Advance(w, "run", "exit")
    /\ UNCHANGED <<active, counter, startTimes, currentOp, doubled, nested, issued>>

\* finally, and ResourceOperation.__exit__.
ExitOperation(w) ==
    /\ work[w].at = "exit" /\ ~work[w].managed
    /\ work' = [work EXCEPT ![w] = NoWork]
    /\ Finishes(w, work[w].op)
    /\ UNCHANGED currentOp

\* ResourceManager.__exit__ finishes what the manager is in by now, if anything.
ExitManager(w) ==
    /\ work[w].at = "exit" /\ work[w].managed
    /\ IF currentOp = NoOperation
          THEN /\ work' = [work EXCEPT ![w] = NoWork]
               /\ UNCHANGED <<active, counter, startTimes, doubled, nested, issued>>
          ELSE /\ work' = [work EXCEPT ![w].at = "clear", ![w].held = FALSE]
               /\ Finishes(w, currentOp)
    /\ UNCHANGED currentOp

ClearManager(w) ==
    /\ work[w].at = "clear"
    /\ work' = [work EXCEPT ![w] = NoWork]
    /\ currentOp' = NoOperation
    /\ UNCHANGED <<active, counter, startTimes, doubled, nested, issued>>

ResourceNext ==
    \E w \in Workers :
        \/ \E managed \in BOOLEAN : Begin(w, managed)
        \/ Number(w) \/ StampStart(w) \/ EnterManager(w) \/ CheckRaises(w) \/ EndBody(w)
        \/ ExitOperation(w) \/ ExitManager(w) \/ ClearManager(w)

ResourceSpec == ResourceInit /\ [][ResourceNext]_resourceVars

-----------------------------------------------------------------------------
(* Properties *)

\* What is left of the accounting without a lock.  All slots have come back when
\* nobody works, although a timed-out operation is finished twice, unless "with
\* manager" blocks overlapped.  Until an operation is finished twice the slots
\* in use are those of the operations.  And an operation in its body has a start
\* time, without which it could not time out, unless two got its identifier or a
\* manager took it for its own.
SlotsReturn ==
    /\ (\A w \in Workers : work[w].at = "rest") /\ ~nested => active = 0
    /\ ~doubled /\ ~nested => active = Cardinality({w \in Workers : work[w].held})
    /\ \A w \in Workers :
          work[w].at = "run" /\ issued[work[w].op] = 1 /\ ~nested => work[w].op \in startTimes
=============================================================================
