---------------------------- MODULE ModelGateway ----------------------------
(***************************************************************************)
(* The model gateway: a handler per HTTP request admits the request in the *)
(* journal, tries the routes of the inference plan in order, forwards the  *)
(* answer or the stream to the agent runtime, and closes the journal entry *)
(* together with a usage event.                                            *)
(*                                                                         *)
(* Agents retry, so several handlers may carry one request ID, also on     *)
(* different replicas.  Every call of the handler uses the context of the  *)
(* HTTP request, which ends when the client leaves: from then on the       *)
(* journal cannot be written.                                              *)
(***************************************************************************)
EXTENDS Naturals, Sequences, FiniteSets

CONSTANTS
    Handlers,    \* HTTP requests served at the same time
    RequestIds,  \* request IDs of one tenant
    Offerings,   \* model offerings a route may lead to
    NoOffering,  \* a route the plan does not have
    Plans        \* the inference plans agents may have

PlanRecords ==
    [primary : Offerings \cup {NoOffering}, fast : Offerings \cup {NoOffering},
     fallbacks : Seq(Offerings)]

ASSUME GatewayAssumption ==
    /\ RequestIds # {}
    /\ NoOffering \notin Offerings
    /\ Plans \subseteq PlanRecords

VARIABLES
    journal,     \* model_gateway_request_journal
    usage,       \* the usage events in model_gateway_outbox
    handler      \* the local variables of each handler

vars == <<journal, usage, handler>>

Statuses == {"none", "admitted", "succeeded", "failed", "client_disconnected"}
Closed == Statuses \ {"none", "admitted"}

\* How the answer of the provider really ended: whole, cut off without an
\* error, with an error, or refused by a client that had left.
Endings == {"none", "complete", "cut", "broken", "left"}

Entries ==
    [status : Statuses, offering : Offerings \cup {NoOffering},
     fallback : Offerings \cup {NoOffering}, retries : Nat,
     ending : Endings, encodable : BOOLEAN]

NoEntry ==
    [status |-> "none", offering |-> NoOffering, fallback |-> NoOffering,
     retries |-> 0, ending |-> "none", encodable |-> TRUE]

\* idx: the route being tried; retries: retryCount; failed: lastErr # nil;
\* chose: the index of selectedRoute or 0; from: the routes whose content the
\* client received; left: clientDisconnected; cancelled: the request's
\* context is done.  end is history, as in the entry that is closed with it:
\* how the answer of the chosen route ended.
IdleHandler ==
    [pc |-> "idle", id |-> CHOOSE i \in RequestIds : TRUE, stream |-> FALSE,
     routes |-> << >>, idx |-> 0, retries |-> 0, failed |-> FALSE, chose |-> 0,
     from |-> {}, left |-> FALSE, end |-> "none", cancelled |-> FALSE]

Phases == {"idle", "admit", "budget", "route", "stream", "record"}

Init ==
    /\ journal = [i \in RequestIds |-> NoEntry]
    /\ usage = << >>
    /\ handler = [h \in Handlers |-> IdleHandler]

-----------------------------------------------------------------------------
\* The routes the plan has, as a sequence of length zero or one.
Present(o) == IF o = NoOffering THEN << >> ELSE <<o>>

buildRouteChain(plan, alias) ==
    IF alias = "fast" /\ plan.fast # NoOffering
      THEN Present(plan.fast) \o Present(plan.primary) \o plan.fallbacks
      ELSE Present(plan.primary) \o Present(plan.fast) \o plan.fallbacks

\* ResolveInferencePlan succeeded and the chain is not empty.
Begin(h) ==
    /\ handler[h].pc = "idle"
    /\ \E i \in RequestIds, s \in BOOLEAN, p \in Plans, a \in {"primary", "fast"} :
         /\ buildRouteChain(p, a) # << >>
         /\ handler' = [handler EXCEPT ![h] =
              [IdleHandler EXCEPT !.pc = "admit", !.id = i, !.stream = s,
                                  !.routes = buildRouteChain(p, a)]]
    /\ UNCHANGED <<journal, usage>>

Return(h) == handler' = [handler EXCEPT ![h] = IdleHandler]

Admitted(h) ==
    [NoEntry EXCEPT !.status = "admitted", !.offering = handler[h].routes[1]]

\* Mutant: a request that is in the journal is served again.
AdmitRequestAgain(h) ==
    /\ handler[h].pc = "admit"
    /\ journal' = [journal EXCEPT ![handler[h].id] = Admitted(h)]
    /\ handler' = [handler EXCEPT ![h].pc = "budget"]
    /\ UNCHANGED usage

\* The primary key refuses a request ID the tenant has used.
AdmitRequest(h) ==
    /\ handler[h].pc = "admit"
    /\ ~handler[h].cancelled
    /\ IF journal[handler[h].id].status = "none"
         THEN /\ journal' = [journal EXCEPT ![handler[h].id] = Admitted(h)]
              /\ handler' = [handler EXCEPT ![h].pc = "budget"]
         ELSE Return(h) /\ UNCHANGED journal
    /\ UNCHANGED usage

\* The database fails, or commits and the answer is lost.
AdmitFailed(h) ==
    /\ handler[h].pc = "admit"
    /\ \/ UNCHANGED journal
       \/ /\ journal[handler[h].id].status = "none"
          /\ journal' = [journal EXCEPT ![handler[h].id] = Admitted(h)]
    /\ Return(h)
    /\ UNCHANGED usage

CheckBudget(h) ==
    /\ handler[h].pc = "budget"
    /\ \/ handler' = [handler EXCEPT ![h].pc = "route", ![h].idx = 1]
       \/ handler' = [handler EXCEPT ![h].pc = "record"]
    /\ UNCHANGED <<journal, usage>>

-----------------------------------------------------------------------------
(* The loop over the routes.                                               *)

Trying(h) == handler[h].pc = "route" /\ handler[h].idx <= Len(handler[h].routes)

\* No key, no adapter, or the provider failed before it sent anything.
RouteFails(h) ==
    /\ Trying(h)
    /\ handler' = [handler EXCEPT ![h].idx = @ + 1, ![h].retries = @ + 1,
                                  ![h].failed = TRUE]
    /\ UNCHANGED <<journal, usage>>

\* What a stream may have come to when Stream returns no error: the adapters
\* take the end of the body for the end of the answer, and the Anthropic one
\* passes over error events.
Whole(h) == IF handler[h].stream THEN {"complete", "cut"} ELSE {"complete"}

\* The whole answer, or a stream that ends without content.
RouteAnswers(h) ==
    /\ Trying(h)
    /\ \E end \in Whole(h) :
         handler' = [handler EXCEPT ![h].pc = "record", ![h].chose = handler[h].idx,
                       ![h].from = IF handler[h].stream THEN @ ELSE {handler[h].idx},
                       ![h].end = end]
    /\ UNCHANGED <<journal, usage>>

\* Mutant: the first chunk marks nothing, so a broken stream falls back.
FirstChunkUnlocked(h) ==
    /\ Trying(h)
    /\ handler[h].stream
    /\ handler' = [handler EXCEPT ![h].from = @ \cup {handler[h].idx}]
    /\ UNCHANGED <<journal, usage>>

\* The first chunk is forwarded: the request stays with this route.
FirstChunk(h) ==
    /\ Trying(h)
    /\ handler[h].stream
    /\ handler' = [handler EXCEPT ![h].pc = "stream", ![h].from = @ \cup {handler[h].idx}]
    /\ UNCHANGED <<journal, usage>>

\* Stream returns, with the route locked: its error becomes lastErr, unless
\* the client had left.
Locked(h, left, end) ==
    handler' = [handler EXCEPT ![h].pc = "record", ![h].chose = handler[h].idx,
                  ![h].left = left, ![h].end = end,
                  ![h].failed = @ \/ (end = "broken" /\ ~left)]

StreamEnds(h) ==
    /\ handler[h].pc = "stream"
    /\ \E end \in Whole(h) : Locked(h, FALSE, end)
    /\ UNCHANGED <<journal, usage>>

StreamBreaks(h) ==
    /\ handler[h].pc = "stream"
    /\ Locked(h, FALSE, "broken")
    /\ UNCHANGED <<journal, usage>>

\* Mutant: the error of the callback is not noted.
ChunkRefusedSilently(h) ==
    /\ \/ handler[h].pc = "stream"
       \/ Trying(h) /\ handler[h].stream
    /\ Locked(h, FALSE, "left")
    /\ UNCHANGED <<journal, usage>>

\* onChunk cannot write to the client.  It may be the first chunk.
ChunkRefused(h) ==
    /\ \/ handler[h].pc = "stream"
       \/ Trying(h) /\ handler[h].stream
    /\ Locked(h, TRUE, "left")
    /\ UNCHANGED <<journal, usage>>

RoutesExhausted(h) ==
    /\ handler[h].pc = "route"
    /\ handler[h].idx > Len(handler[h].routes)
    /\ handler' = [handler EXCEPT ![h].pc = "record"]
    /\ UNCHANGED <<journal, usage>>

-----------------------------------------------------------------------------
(* The end of the request.                                                 *)

Status(r) ==
    IF r.chose = 0 THEN "failed"
    ELSE IF r.left THEN "client_disconnected"
    ELSE IF r.failed /\ r.stream THEN "failed"
    ELSE "succeeded"

\* encodable is history: whether a usage event could be encoded.
Entry(r, encodable) ==
    [status   |-> Status(r),
     offering |-> r.routes[IF r.chose = 0 THEN 1 ELSE r.chose],
     fallback |-> IF r.idx > 1 /\ Len(r.routes) > 1
                    THEN r.routes[1] ELSE NoOffering,
     retries  |-> r.retries,
     ending   |-> r.end,
     encodable |-> encodable]

\* Without a chosen route there is no usage event, and createUsageEvent
\* returns nil when a text of the request, as the correlation ID, cannot be
\* encoded: the entry is closed without.
createUsageEvent(r, entry) ==
    IF r.chose = 0 \/ ~entry.encodable THEN << >>
    ELSE << [id |-> r.id, entry |-> entry, from |-> r.from] >>

\* Mutant: the event is inserted outside the transaction and may be lost.
CompleteRequestInTwo(h, encodable) ==
    LET r == handler[h]
        entry == Entry(r, encodable) IN
    /\ journal' = [journal EXCEPT ![r.id] = entry]
    /\ usage' \in {usage, usage \o createUsageEvent(r, entry)}

\* One transaction.
CompleteRequest(h, encodable) ==
    LET r == handler[h]
        entry == Entry(r, encodable) IN
    /\ journal' = [journal EXCEPT ![r.id] = entry]
    /\ usage' = usage \o createUsageEvent(r, entry)

Record(h) ==
    /\ handler[h].pc = "record"
    /\ ~handler[h].cancelled
    /\ \E encodable \in BOOLEAN : CompleteRequest(h, encodable)
    /\ Return(h)

\* The error of CompleteRequest is dropped.
RecordFailed(h) ==
    /\ handler[h].pc = "record"
    /\ UNCHANGED <<journal, usage>>
    /\ Return(h)

ClientLeaves(h) ==
    /\ handler[h].pc # "idle"
    /\ ~handler[h].cancelled
    /\ handler' = [handler EXCEPT ![h].cancelled = TRUE]
    /\ UNCHANGED <<journal, usage>>

Crash(h) ==
    /\ handler[h].pc # "idle"
    /\ Return(h)
    /\ UNCHANGED <<journal, usage>>

Step(h) ==
    \/ Begin(h)
    \/ AdmitRequest(h)
    \/ AdmitFailed(h)
    \/ CheckBudget(h)
    \/ RouteFails(h)
    \/ RouteAnswers(h)
    \/ FirstChunk(h)
    \/ StreamEnds(h)
    \/ StreamBreaks(h)
    \/ ChunkRefused(h)
    \/ RoutesExhausted(h)
    \/ Record(h)
    \/ RecordFailed(h)
    \/ ClientLeaves(h)
    \/ Crash(h)

Next == \E h \in Handlers : Step(h)

Spec == Init /\ [][Next]_vars

-----------------------------------------------------------------------------
HandlerRecords ==
    [pc : Phases, id : RequestIds, stream : BOOLEAN, routes : Seq(Offerings),
     idx : Nat, retries : Nat, failed : BOOLEAN, chose : Nat, from : SUBSET Nat,
     left : BOOLEAN, end : Endings, cancelled : BOOLEAN]

\* A handler past the start has a route, and chose one of the routes it tried.
TypeOK ==
    /\ journal \in [RequestIds -> Entries]
    /\ usage \in Seq([id : RequestIds, entry : Entries, from : SUBSET Nat])
    /\ handler \in [Handlers -> HandlerRecords]
    /\ \A h \in Handlers :
         /\ handler[h].pc # "idle" => handler[h].routes # << >>
         /\ handler[h].idx <= Len(handler[h].routes) + 1
         /\ handler[h].chose \in {0, handler[h].idx}
         /\ handler[h].chose <= Len(handler[h].routes)

Serving == {h \in Handlers : handler[h].pc \in {"budget", "route", "stream", "record"}}

(* A request ID is served once: no two handlers call providers for it, and *)
(* the entry a handler will close is still the one it admitted, although   *)
(* closing does not look at the status (repository.go AdmitRequest and     *)
(* CompleteRequest).                                                       *)
AdmissionIsExclusive ==
    \A h \in Serving :
       /\ journal[handler[h].id].status = "admitted"
       /\ \A g \in Serving \ {h} : handler[g].id # handler[h].id

(* Usage is recorded at most once, and only for entries that a provider    *)
(* answered, with the offering and the outcome of the entry.  No answered  *)
(* entry goes without, except where the event could not be encoded: then   *)
(* the entry is closed and nobody is charged, as nothing reports that      *)
(* createUsageEvent returned nil (service.go createUsageEvent,             *)
(* repository.go CompleteRequest).                                         *)
UsageMatchesJournal ==
    /\ \A k \in DOMAIN usage :
         /\ journal[usage[k].id] = usage[k].entry
         /\ usage[k].entry.ending # "none"
         /\ \A j \in DOMAIN usage : usage[j].id = usage[k].id => j = k
    /\ \A i \in RequestIds :
         journal[i].ending # "none" =>
            (journal[i].encodable <=> \E k \in DOMAIN usage : usage[k].id = i)

(* The client never gets content of two routes, and usage is charged to    *)
(* the route whose content it got (service_test.go: "Stream route was      *)
(* locked to primary-offering").                                           *)
StreamIsLocked ==
    \A h \in Handlers :
       /\ Cardinality(handler[h].from) <= 1
       /\ handler[h].pc = "record" => handler[h].from \subseteq {handler[h].chose}

(* An answer that broke with an error, or that the client did not take, is *)
(* never recorded as succeeded, and an entry says that the client has      *)
(* disconnected exactly if a chunk could not be delivered, also when       *)
(* earlier routes failed.  An entry that says succeeded may stand for a    *)
(* stream that the provider cut off without an error: the adapters return  *)
(* nil then.  One that says failed stands for an answer that broke, except *)
(* after a fallback, where lastErr of the route that failed is still set   *)
(* (service.go Execute and ExecuteStream, openai.go:297, anthropic.go:270).*)
OutcomeIsTrue ==
    \A i \in RequestIds :
       /\ journal[i].status = "succeeded" => journal[i].ending \in {"complete", "cut"}
       /\ journal[i].status = "client_disconnected" <=> journal[i].ending = "left"
       /\ journal[i].status = "failed" =>
            journal[i].ending \in {"none", "broken"} \/ journal[i].retries > 0

(* Not kept by the code.  models.go: ErrStreamingInterrupted "indicates    *)
(* stream broke after starting"; a stream that is whole after a fallback   *)
(* is recorded as failed too.                                              *)
InterruptedIsTrue ==
    \A i \in RequestIds :
       journal[i].status = "failed" => journal[i].ending # "complete"
=============================================================================
