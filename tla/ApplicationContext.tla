--------------------------- MODULE ApplicationContext ---------------------------
(***************************************************************************)
(* The two process-wide holders of dependencies: the telemetry client of   *)
(* telemetry.py, made at the first use by a double-checked lock, and the   *)
(* application context of context.py, one per thread unless a thread is    *)
(* given another's, with a registry of all threads' contexts that is       *)
(* cleaned of those of dead threads.                                       *)
(*                                                                         *)
(* Telemetry is enabled: otherwise the client is None for everybody.  The  *)
(* performance cache of a context is left out.  Threads switch at calls    *)
(* and at locks.                                                           *)
(***************************************************************************)
EXTENDS Integers, FiniteSets

CONSTANTS
    AppThreads,
    Contexts,    \* ApplicationContext objects
    Null,        \* None
    Clients      \* client objects, as numbers: enough for all that are referenced

ASSUME ContextAssumption ==
    /\ Clients \subseteq Nat
    /\ Null \notin Nat \cup Contexts \cup AppThreads

\* More clients than can be referenced at a time.
ASSUME ClientsAssumption ==
    /\ IsFiniteSet(Clients) /\ IsFiniteSet(Contexts) /\ IsFiniteSet(AppThreads)
    /\ Cardinality(Clients) > 1 + Cardinality(Contexts) + Cardinality(AppThreads)

VARIABLES
    client,      \* _HOLDER._client: clients are numbered
    initialized, \* _HOLDER._initialized
    holderLock,  \* the thread in _HOLDER._lock
    local,       \* [AppThreads -> _context_storage.context]
    registry,    \* [AppThreads -> entry of _context_registry]
    ctxClient,   \* [Contexts -> _telemetry_client]
    dead,        \* threads that have ended
    task,        \* [AppThreads -> the call it is in]
    resetSince   \* history: threads whose call overlapped a reset

contextVars == <<client, initialized, holderLock, local, registry, ctxClient, dead,
                 task, resetSince>>
holderVars == <<client, initialized, holderLock>>
registryVars == <<local, registry, ctxClient, dead>>

NoTask == [at |-> "rest", ctx |-> Null, got |-> Null]

ContextTypeOK ==
    /\ client \in Clients \cup {Null} /\ initialized \in BOOLEAN
    /\ holderLock \in AppThreads \cup {Null}
    /\ local \in [AppThreads -> Contexts \cup {Null}]
    /\ registry \in [AppThreads -> Contexts \cup {Null}]
    /\ ctxClient \in [Contexts -> Clients \cup {Null}]
    /\ dead \subseteq AppThreads /\ resetSince \subseteq AppThreads
    /\ task \in [AppThreads ->
          [at : {"rest", "check", "lock", "create", "flag", "read", "keep", "return", "answered",
                 "reset", "resetFlag", "register", "unregister"},
           ctx : Contexts \cup {Null},
           got : Clients \cup {Null}]]

ContextInit ==
    /\ client = Null /\ initialized = FALSE /\ holderLock = Null
    /\ local = [t \in AppThreads |-> Null]
    /\ registry = [t \in AppThreads |-> Null]
    /\ ctxClient = [c \in Contexts |-> Null]
    /\ dead = {}
    /\ task = [t \in AppThreads |-> NoTask]
    /\ resetSince = {}

-----------------------------------------------------------------------------
(* Helpers *)

On(t, where) == task[t].at = where
Go(t, where) == task' = [task EXCEPT ![t].at = where]
EndTask(t) == task' = [task EXCEPT ![t] = NoTask]
Alive(t) == t \notin dead
\* A client that nobody has: a new object.
NewClient ==
    LET known == {client} \cup {ctxClient[c] : c \in Contexts} \cup {task[t].got : t \in AppThreads}
    IN  CHOOSE n \in Clients \ known : TRUE

Asking ==
    {t \in AppThreads : task[t].at \in
        {"check", "lock", "create", "flag", "read", "keep", "return", "answered"}}

\* History: a call begins, beside a reset or not.
NotesResets(t) ==
    resetSince' = IF \E u \in AppThreads : task[u].at \in {"reset", "resetFlag"}
                     THEN resetSince \cup {t} ELSE resetSince \ {t}

-----------------------------------------------------------------------------
(* telemetry_client of a context, or get_telemetry_client by itself *)

\* The context's client if it has one, else the holder is asked.
AskContext(t) ==
    /\ On(t, "rest") /\ Alive(t) /\ local[t] # Null
    /\ task' = [task EXCEPT ![t] =
          [at |-> IF ctxClient[local[t]] = Null THEN "check" ELSE "return",
           ctx |-> local[t], got |-> Null]]
    /\ NotesResets(t)
    /\ UNCHANGED <<holderVars, registryVars>>

AskHolder(t) ==
    /\ On(t, "rest") /\ Alive(t)
    /\ Go(t, "check")
    /\ NotesResets(t)
    /\ UNCHANGED <<holderVars, registryVars>>

\* The test outside the lock.
CheckInitialized(t) ==
    /\ On(t, "check")
    /\ Go(t, IF initialized THEN "read" ELSE "lock")
    /\ UNCHANGED <<holderVars, registryVars, resetSince>>

\* Mutant of TakeHolderLock: no second test under the lock.
TakeLockUnchecked(t) ==
    /\ On(t, "lock") /\ holderLock = Null
    /\ holderLock' = t /\ Go(t, "create")
    /\ UNCHANGED <<client, initialized, registryVars, resetSince>>

\* The lock, and the second test.
TakeHolderLock(t) ==
    /\ On(t, "lock") /\ holderLock = Null
    /\ IF initialized
          THEN Go(t, "read") /\ UNCHANGED holderLock
          ELSE holderLock' = t /\ Go(t, "create")
    /\ UNCHANGED <<client, initialized, registryVars, resetSince>>

CreateClient(t) ==
    /\ On(t, "create")
    /\ client' = NewClient
    /\ Go(t, "flag")
    /\ UNCHANGED <<initialized, holderLock, registryVars, resetSince>>

SetInitialized(t) ==
    /\ On(t, "flag")
    /\ initialized' = TRUE /\ holderLock' = Null
    /\ Go(t, "read")
    /\ UNCHANGED <<client, registryVars, resetSince>>

\* The field is returned outside the lock.
ReadClient(t) ==
    /\ On(t, "read")
    /\ task' = [task EXCEPT ![t].got = client,
                            ![t].at = IF task[t].ctx = Null THEN "answered" ELSE "keep"]
    /\ UNCHANGED <<holderVars, registryVars, resetSince>>

\* A context without a client makes one of its own; it remembers what it has.
KeepClient(t) ==
    /\ On(t, "keep")
    /\ ctxClient' = [ctxClient EXCEPT
          ![task[t].ctx] = IF task[t].got = Null THEN NewClient ELSE task[t].got]
    /\ task' = [task EXCEPT ![t].at = "return", ![t].got = Null]
    /\ UNCHANGED <<holderVars, local, registry, dead, resetSince>>

ReturnClient(t) ==
    /\ On(t, "return")
    /\ task' = [task EXCEPT ![t].at = "answered", ![t].got = ctxClient[task[t].ctx]]
    /\ UNCHANGED <<holderVars, registryVars, resetSince>>

UseClient(t) ==
    /\ On(t, "answered")
    /\ EndTask(t)
    /\ resetSince' = resetSince \ {t}
    /\ UNCHANGED <<holderVars, registryVars>>

-----------------------------------------------------------------------------
(* reset_telemetry_client *)

ResetHolder(t) ==
    /\ On(t, "rest") /\ Alive(t) /\ holderLock = Null
    /\ holderLock' = t
    /\ Go(t, "reset")
    /\ UNCHANGED <<client, initialized, registryVars, resetSince>>

DropClient(t) ==
    /\ On(t, "reset")
    /\ client' = Null
    /\ Go(t, "resetFlag")
    /\ resetSince' = resetSince \cup (Asking \ {t})
    /\ UNCHANGED <<initialized, holderLock, registryVars>>

DropFlag(t) ==
    /\ On(t, "resetFlag")
    /\ initialized' = FALSE /\ holderLock' = Null
    /\ EndTask(t)
    /\ resetSince' = resetSince \cup (Asking \ {t})
    /\ UNCHANGED <<client, registryVars>>

-----------------------------------------------------------------------------
(* The context of a thread *)

\* get_context makes one, set_context takes any.
SetContext(t, c) ==
    /\ On(t, "rest") /\ Alive(t)
    /\ local' = [local EXCEPT ![t] = c]
    /\ Go(t, "register")
    /\ UNCHANGED <<holderVars, registry, ctxClient, dead, resetSince>>

\* Mutant of Purged: contexts of threads that are in no call go.
PurgedResting(reg) == [t \in AppThreads |-> IF task[t].at = "rest" THEN Null ELSE reg[t]]

\* _cleanup_stale_contexts_locked
Purged(reg) == [t \in AppThreads |-> IF t \in dead THEN Null ELSE reg[t]]

\* _register_context, under the lock; a periodic cleanup may be due.
Register(t) ==
    /\ On(t, "register")
    /\ LET reg == [registry EXCEPT ![t] = local[t]]
       IN  registry' \in {reg, Purged(reg)}
    /\ EndTask(t)
    /\ UNCHANGED <<holderVars, local, ctxClient, dead, resetSince>>

\* clear_context, and the end of "with c", which resets c as well.
ClearContext(t, c) ==
    /\ On(t, "rest") /\ Alive(t) /\ local[t] # Null
    /\ ctxClient' = [ctxClient EXCEPT ![c] = Null, ![local[t]] = Null]
    /\ local' = [local EXCEPT ![t] = Null]
    /\ resetSince' = resetSince \cup {u \in Asking : task[u].ctx \in {c, local[t]}}
    /\ Go(t, "unregister")
    /\ UNCHANGED <<holderVars, registry, dead>>

Unregister(t) ==
    /\ On(t, "unregister")
    /\ registry' = [registry EXCEPT ![t] = Null]
    /\ EndTask(t)
    /\ UNCHANGED <<holderVars, local, ctxClient, dead, resetSince>>

\* cleanup_stale_contexts
CleanUp(t) ==
    /\ On(t, "rest") /\ Alive(t)
    /\ registry' = Purged(registry)
    /\ UNCHANGED <<holderVars, local, ctxClient, dead, task, resetSince>>

\* A thread ends; another stays.  Its entry may go with the thread object.
EndThread(t) ==
    /\ On(t, "rest") /\ Alive(t) /\ dead \cup {t} # AppThreads
    /\ dead' = dead \cup {t}
    /\ local' = [local EXCEPT ![t] = Null]
    /\ registry' \in {registry, [registry EXCEPT ![t] = Null]}
    /\ UNCHANGED <<holderVars, ctxClient, task, resetSince>>

ContextNext ==
    \E t \in AppThreads :
        \/ AskContext(t) \/ AskHolder(t) \/ CheckInitialized(t) \/ TakeHolderLock(t)
        \/ CreateClient(t) \/ SetInitialized(t) \/ ReadClient(t) \/ KeepClient(t)
        \/ ReturnClient(t) \/ UseClient(t)
        \/ ResetHolder(t) \/ DropClient(t) \/ DropFlag(t)
        \/ \E c \in Contexts : SetContext(t, c) \/ ClearContext(t, c)
        \/ Register(t) \/ Unregister(t) \/ CleanUp(t) \/ EndThread(t)

ContextSpec == ContextInit /\ [][ContextNext]_contextVars

-----------------------------------------------------------------------------
(* Properties *)

\* A call that overlapped no reset has got a client; from the holder the one of
\* which there is one however many threads asked for it first.  A context may
\* answer with one that a reset has replaced since.
ClientIsShared ==
    \A t \in AppThreads :
        On(t, "answered") /\ t \notin resetSince =>
            task[t].got # Null /\ (task[t].ctx = Null => task[t].got = client)

\* Whoever shares contexts, ends or cleans up: the registry has the context of
\* every live thread that is not in the middle of changing it, and only that.
RegistryFollows ==
    \A t \in AppThreads :
        Alive(t) /\ ~On(t, "register") /\ ~On(t, "unregister") => registry[t] = local[t]
=============================================================================
