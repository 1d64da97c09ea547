---------------------------- MODULE FormatDetection ----------------------------
(***************************************************************************)
(* detect_format of medallion/bronze/format_detector.py by several threads *)
(* that share a detector: the cache of results of detection_cache.py, kept *)
(* in two dictionaries without a lock, and the circuit breaker, whose      *)
(* fields have one.  The interpreter may switch threads at every call, so  *)
(* an operation on a dictionary is a step.                                 *)
(*                                                                         *)
(* The minimal detection time only waits, and the scoring that finds a     *)
(* format is pure: it succeeds or raises.  Time is in ticks.               *)
(***************************************************************************)
EXTENDS Integers, Sequences, FiniteSets, SequencesExt

CONSTANTS
    Threads,
    Documents,     \* documents of different content
    EmptyDocument, \* an empty document, or what is no dictionary: never detected
    LargeDocument, \* a document beyond MAX_CONTENT_SIZE: never cached
    NoDocument,
    NoStamp,       \* absent from _detection_result_expiry
    ClosedCircuit, \* _circuit_open_until = 0.0
    MaxResults,    \* max_cache_size
    ResultTTL,     \* _ttl_seconds, in ticks
    FailureLimit,  \* FORMAT_DETECTION_FAILURE_THRESHOLD
    ResetTime      \* FORMAT_DETECTION_CIRCUIT_RESET_SECONDS, in ticks

ASSUME DetectionAssumption ==
    /\ {MaxResults, ResultTTL, FailureLimit, ResetTime} \subseteq Nat \ {0}
    /\ Cardinality({EmptyDocument, LargeDocument, NoDocument}) = 3
    /\ {EmptyDocument, LargeDocument, NoDocument} \cap Documents = {}
    /\ {NoStamp, ClosedCircuit} \cap Nat = {}

VARIABLES
    results,  \* _detection_result_cache: documents, least recently used first
    stamps,   \* [Documents -> age of the entry of _detection_result_expiry]
    circuit,  \* ticks until _circuit_open_until
    failures, \* _consecutive_failures
    call,     \* [Threads -> where its detect_format stands, about what, and the
              \* key whose stamp it is about to remove]
    crossed   \* history: documents whose entry was used and removed at a time

detectionVars == <<results, stamps, circuit, failures, call, crossed>>

NoCall == [at |-> "rest", doc |-> NoDocument, key |-> NoDocument]
Given == Documents \cup {EmptyDocument, LargeDocument}

DetectionTypeOK ==
    /\ results \in Seq(Documents)
    /\ stamps \in [Documents -> 0..ResultTTL + 1 \cup {NoStamp}]
    /\ circuit \in 0..ResetTime \cup {ClosedCircuit}
    /\ failures \in 0..FailureLimit  \* a larger count is not told apart
    /\ call \in [Threads -> [at : {"rest", "touch", "stamp", "return", "unstamp", "gate",
                                   "detect", "stampNew", "trim", "unstampOld", "settle",
                                   "reset", "raised"},
                             doc : Given \cup {NoDocument},
                             key : Documents \cup {NoDocument}]]
    /\ crossed \subseteq Documents

DetectionInit ==
    /\ results = <<>>
    /\ stamps = [d \in Documents |-> NoStamp]
    /\ circuit = ClosedCircuit
    /\ failures = 0
    /\ call = [t \in Threads |-> NoCall]
    /\ crossed = {}

-----------------------------------------------------------------------------
(* Helpers *)

Results == ToSet(results)
At(t, where) == call[t].at = where
Doc(t) == call[t].doc
Goes(t, where) == call' = [call EXCEPT ![t].at = where]

\* The entry a thread is about to stamp or to return, and the one it is about to
\* take out of the second dictionary.
Using(t) == IF call[t].at \in {"touch", "stamp", "return", "stampNew"} THEN {Doc(t)} ELSE {}
Removing(t) == IF At(t, "unstamp") \/ At(t, "unstampOld") THEN {call[t].key} ELSE {}

\* History: the entry is removed under another thread, or used under its removal.
Removes(t, d) ==
    crossed' = crossed \cup {k \in {d} : \E u \in Threads \ {t} : k \in Using(u) \cup Removing(u)}
Uses(t, d) ==
    crossed' = crossed \cup {k \in {d} : \E u \in Threads \ {t} : k \in Removing(u)}

-----------------------------------------------------------------------------
(* get_cached_detection_result *)

LookUp(t, d) ==
    /\ At(t, "rest")
    /\ LET stale == d \in Results /\ stamps[d] # NoStamp /\ stamps[d] > ResultTTL
       IN  /\ call' = [call EXCEPT ![t] =
                 [at |-> IF d \notin Results THEN "gate" ELSE IF stale THEN "unstamp" ELSE "touch",
                  doc |-> d, key |-> IF stale THEN d ELSE NoDocument]]
           /\ results' = IF stale THEN RemoveFirst(results, d) ELSE results
           /\ IF stale THEN Removes(t, d) ELSE UNCHANGED crossed
    /\ UNCHANGED <<stamps, circuit, failures>>

\* _evict_detection_result_entry: the other dictionary.
DropStamp(t) ==
    /\ At(t, "unstamp")
    /\ stamps' = [stamps EXCEPT ![call[t].key] = NoStamp]
    /\ Removes(t, call[t].key)
    /\ call' = [call EXCEPT ![t].at = "gate", ![t].key = NoDocument]
    /\ UNCHANGED <<results, circuit, failures>>

\* move_to_end raises for a key that is gone.
MoveToEnd(t) ==
    /\ At(t, "touch")
    /\ IF Doc(t) \in Results
          THEN Goes(t, "stamp") /\ results' = Append(RemoveFirst(results, Doc(t)), Doc(t))
          ELSE Goes(t, "raised") /\ UNCHANGED results
    /\ UNCHANGED <<stamps, circuit, failures, crossed>>

StampHit(t) ==
    /\ At(t, "stamp")
    /\ stamps' = [stamps EXCEPT ![Doc(t)] = 0]
    /\ Uses(t, Doc(t))
    /\ Goes(t, "return")
    /\ UNCHANGED <<results, circuit, failures>>

ReturnHit(t) ==
    /\ At(t, "return")
    /\ Goes(t, IF Doc(t) \in Results THEN "reset" ELSE "raised")
    /\ UNCHANGED <<results, stamps, circuit, failures, crossed>>

-----------------------------------------------------------------------------
(* The circuit *)

\* Mutant of PassGate: an elapsed circuit closes and keeps its count.
PassGateUncleared(t) ==
    /\ At(t, "gate")
    /\ circuit \in {0, ClosedCircuit}
    /\ circuit' = ClosedCircuit
    /\ Goes(t, IF Doc(t) = EmptyDocument THEN "reset" ELSE "detect")
    /\ UNCHANGED <<results, stamps, failures, crossed>>

\* _is_circuit_open: closed, or elapsed and cleared here.
PassGate(t) ==
    /\ At(t, "gate")
    /\ circuit \in {0, ClosedCircuit}
    /\ circuit' = ClosedCircuit
    /\ failures' = IF circuit = 0 THEN 0 ELSE failures
    /\ Goes(t, IF Doc(t) = EmptyDocument THEN "reset" ELSE "detect")
    /\ UNCHANGED <<results, stamps, crossed>>

\* The circuit is open: detect_format returns UNKNOWN.
ReturnUnknown(t) ==
    /\ At(t, "gate")
    /\ circuit \notin {0, ClosedCircuit}
    /\ call' = [call EXCEPT ![t] = NoCall]
    /\ UNCHANGED <<results, stamps, circuit, failures, crossed>>

\* _reset_circuit_after_success, of a hit, of an empty document, of a detection.
ResetCircuit(t) ==
    /\ call[t].at \in {"reset", "settle"}
    /\ circuit' = ClosedCircuit /\ failures' = 0
    /\ call' = [call EXCEPT ![t] = NoCall]
    /\ UNCHANGED <<results, stamps, crossed>>

\* _note_detection_failure: before the result was cached, or after.
DetectionFails(t) ==
    /\ call[t].at \in {"detect", "settle"}
    /\ failures' = IF failures < FailureLimit THEN failures + 1 ELSE failures
    /\ circuit' = IF failures + 1 >= FailureLimit THEN ResetTime ELSE circuit
    /\ call' = [call EXCEPT ![t] = NoCall]
    /\ UNCHANGED <<results, stamps, crossed>>

-----------------------------------------------------------------------------
(* cache_detection_result *)

StoreResult(t) ==
    /\ At(t, "detect")
    /\ IF Doc(t) = LargeDocument
          THEN Goes(t, "settle") /\ UNCHANGED <<results, crossed>>
          ELSE /\ Goes(t, "stampNew")
               /\ results' = IF Doc(t) \in Results THEN results ELSE Append(results, Doc(t))
               /\ Uses(t, Doc(t))
    /\ UNCHANGED <<stamps, circuit, failures>>

StampNew(t) ==
    /\ At(t, "stampNew")
    /\ stamps' = [stamps EXCEPT ![Doc(t)] = 0]
    /\ Uses(t, Doc(t))
    /\ Goes(t, "trim")
    /\ UNCHANGED <<results, circuit, failures>>

\* Mutant of Trim: the cache may grow to one more.
TrimLate(t) ==
    /\ At(t, "trim")
    /\ IF Len(results) > MaxResults + 1
          THEN /\ call' = [call EXCEPT ![t].at = "unstampOld", ![t].key = Head(results)]
               /\ results' = Tail(results)
               /\ Removes(t, Head(results))
          ELSE Goes(t, "settle") /\ UNCHANGED <<results, crossed>>
    /\ UNCHANGED <<stamps, circuit, failures>>

\* Over capacity: the oldest entry goes.
Trim(t) ==
    /\ At(t, "trim")
    /\ IF Len(results) > MaxResults
          THEN /\ call' = [call EXCEPT ![t].at = "unstampOld", ![t].key = Head(results)]
               /\ results' = Tail(results)
               /\ Removes(t, Head(results))
          ELSE Goes(t, "settle") /\ UNCHANGED <<results, crossed>>
    /\ UNCHANGED <<stamps, circuit, failures>>

DropOldStamp(t) ==
    /\ At(t, "unstampOld")
    /\ stamps' = [stamps EXCEPT ![call[t].key] = NoStamp]
    /\ Removes(t, call[t].key)
    /\ call' = [call EXCEPT ![t].at = "settle", ![t].key = NoDocument]
    /\ UNCHANGED <<results, circuit, failures>>

-----------------------------------------------------------------------------
DetectionTick ==
    /\ stamps' = [d \in Documents |->
          IF stamps[d] \in 0..ResultTTL THEN stamps[d] + 1 ELSE stamps[d]]
    /\ circuit' = IF circuit \in {0, ClosedCircuit} THEN circuit ELSE circuit - 1
    /\ UNCHANGED <<results, failures, call, crossed>>

\* The caller of a detect_format that raised goes on.
CallerGoesOn(t) ==
    /\ At(t, "raised")
    /\ call' = [call EXCEPT ![t] = NoCall]
    /\ UNCHANGED <<results, stamps, circuit, failures, crossed>>

DetectionNext ==
    \/ \E t \in Threads :
          \/ \E d \in Given : LookUp(t, d)
          \/ DropStamp(t) \/ MoveToEnd(t) \/ StampHit(t) \/ ReturnHit(t)
          \/ PassGate(t) \/ ReturnUnknown(t) \/ ResetCircuit(t) \/ DetectionFails(t)
          \/ StoreResult(t) \/ StampNew(t) \/ Trim(t) \/ DropOldStamp(t)
          \/ CallerGoesOn(t)
    \/ DetectionTick

DetectionSpec == DetectionInit /\ [][DetectionNext]_detectionVars

-----------------------------------------------------------------------------
(* Properties *)

\* What threads without a lock keep: a result is stamped exactly while it is
\* cached, so that it expires, unless its entry was removed under another thread;
\* the cache exceeds its capacity by no more than the results that are being
\* stored; and detect_format, which promises UNKNOWN for whatever fails, raises
\* only for a document whose entry was taken away under a hit.
ResultsAgree ==
    /\ \A d \in Documents \ crossed :
          (\A t \in Threads : d \notin Using(t) \cup Removing(t)) =>
              (stamps[d] # NoStamp <=> d \in Results)
    /\ Len(results) <= MaxResults + Cardinality({t \in Threads : call[t].at \in {"stampNew", "trim"}})
    /\ \A t \in Threads : At(t, "raised") => Doc(t) \in crossed

\* The circuit is closed exactly while fewer failures than the threshold have
\* come in a row, whichever of the four ways clears it and however calls overlap.
CircuitFollowsFailures ==
    circuit = ClosedCircuit <=> failures < FailureLimit
=============================================================================
