----------------------------- MODULE RecordCatalog -----------------------------
(***************************************************************************)
(* What the bronze layer promises of the records it has taken: a record is *)
(* volatile until it is stored, and may then be dropped at any time; once  *)
(* it is durable it survives dropping and a crash, and is lost only if a   *)
(* crash or a failure hits the storing of the same record again.  Whoever  *)
(* asks for a record while it is durable finds it, and nobody finds one    *)
(* that was in the catalog at no time since.                               *)
(*                                                                         *)
(* BronzeLayer implements this: see ImplementsCatalog there.               *)
(***************************************************************************)
CONSTANTS
    Ids,
    None,     \* no identifier
    Askers

VARIABLES
    status,   \* [Ids -> "absent", "volatile" or "durable"]
    storing,  \* identifiers that are being stored
    request   \* [Askers -> the record it asks for, if any, and the answer]

catalogVars == <<status, storing, request>>

\* A request: what it asks for, whether that has been durable all the time, and
\* whether it has been there at any time; then what it was told.
Asked(i, sure, seen, told) == [id |-> i, sure |-> sure, seen |-> seen, told |-> told]
NoRequest == Asked(None, FALSE, FALSE, "nothing yet")

Open(a) == request[a].id # None /\ request[a].told = "nothing yet"

CatalogInit ==
    /\ status \in [Ids -> {"absent"}]
    /\ storing = {}
    /\ request = [a \in Askers |-> NoRequest]

\* Open requests follow what happens to their record.
Follow ==
    request' = [a \in Askers |->
        IF Open(a)
           THEN Asked(request[a].id, request[a].sure /\ status'[request[a].id] = "durable",
                      request[a].seen \/ status'[request[a].id] # "absent", "nothing yet")
           ELSE request[a]]

Become(i, from, to) ==
    /\ status[i] \in from
    /\ status' = [status EXCEPT ![i] = to]
    /\ Follow

Take(i) == Become(i, {"absent"}, "volatile") /\ UNCHANGED storing
Drop(i) == Become(i, {"volatile"}, "absent") /\ UNCHANGED storing

StartStoring(i) == storing' = storing \cup {i} /\ UNCHANGED <<status, request>>

\* Storing ends, with the record stored, with nothing done, or with the record spoilt.
EndStoring(i) ==
    /\ i \in storing
    /\ storing' = storing \ {i}
    /\ status' \in {[status EXCEPT ![i] = s] : s \in {status[i], "volatile", "absent", "durable"}}
    /\ Follow

\* What is volatile is gone, and so may be what was being stored.
CatalogCrash ==
    /\ \A i \in Ids \ storing : status'[i] = IF status[i] = "durable" THEN "durable" ELSE "absent"
    /\ \A i \in storing :
          status'[i] \in {"absent", "durable"} /\ (status[i] = "volatile" => status'[i] = "absent")
    /\ DOMAIN status' = Ids
    /\ storing' = {}
    /\ request' = [a \in Askers |-> NoRequest]

Request(a, i) ==
    /\ request[a] = NoRequest
    /\ request' = [request EXCEPT ![a] =
          Asked(i, status[i] = "durable", status[i] # "absent", "nothing yet")]
    /\ UNCHANGED <<status, storing>>

\* The storage cannot be read: the answer may be wrong.
Fault(a) ==
    /\ Open(a)
    /\ request' = [request EXCEPT ![a] = Asked(@.id, FALSE, @.seen, @.told)]
    /\ UNCHANGED <<status, storing>>

Told(a, answer) ==
    request' = [request EXCEPT ![a] = Asked(@.id, FALSE, FALSE, answer)]

Answer(a) ==
    /\ Open(a)
    /\ \/ request[a].seen /\ Told(a, "found")
       \/ ~request[a].sure /\ Told(a, "missing")
    /\ UNCHANGED <<status, storing>>

\* The asker has its answer, or an exception.
Leave(a) ==
    /\ request' = [request EXCEPT ![a] = NoRequest]
    /\ UNCHANGED <<status, storing>>

CatalogNext ==
    \/ \E i \in Ids : Take(i) \/ Drop(i) \/ StartStoring(i) \/ EndStoring(i)
    \/ CatalogCrash
    \/ \E a \in Askers : Fault(a) \/ Answer(a) \/ Leave(a) \/ \E i \in Ids : Request(a, i)

Catalog == CatalogInit /\ [][CatalogNext]_catalogVars
=============================================================================
