------------------------- MODULE ModelGateway_proofs -------------------------
(***************************************************************************)
(* What ModelGateway guarantees for any number of handlers, any request    *)
(* IDs and any plans.                                                      *)
(*                                                                         *)
(* The properties of journal and usage are not inductive by themselves:    *)
(* they need to know what a handler carries at each phase.  HandlersAre-   *)
(* Sound says it, and UsageIsClosed says that a usage event stands for a   *)
(* closed entry, so an entry that is still admitted has none.              *)
(*                                                                         *)
(* The last part is about Credentials, the connections whose secrets the   *)
(* gateway reads: an active one uses a key the provider accepted.          *)
(***************************************************************************)
EXTENDS ModelGateway, Credentials, FiniteSetTheorems, SequenceTheorems, TLAPS

\* Nothing was forwarded before the stream began, and nothing but the content
\* of the route being tried since; the answer of the chosen route ended, a
\* stream that broke left its error, and a client that left is known
\* (service.go ExecuteStream).
SoundHandler(r) ==
    /\ r.pc \in {"route", "stream"} => r.idx >= 1
    /\ r.pc \in {"idle", "admit", "budget", "route"} => r.from = {}
    /\ r.pc = "stream" => r.from = {r.idx} /\ r.stream
    /\ r.pc = "record" => r.from \subseteq {r.chose}
    /\ r.pc # "record" => r.chose = 0
    /\ r.chose = 0 <=> r.end = "none"
    /\ r.left <=> r.end = "left"
    /\ r.end = "broken" => r.stream /\ r.failed
    /\ r.failed => r.end = "broken" \/ r.retries > 0

HandlersAreSound == \A h \in Handlers : SoundHandler(handler[h])

UsageIsClosed == \A k \in DOMAIN usage : usage[k].entry.status \in Closed

UsageRecords == [id : RequestIds, entry : Entries, from : SUBSET Nat]

\* The shape of one handler, as TypeOK has it.
HandlerOK(r) ==
    /\ r \in HandlerRecords
    /\ r.pc # "idle" => r.routes # << >>
    /\ r.idx <= Len(r.routes) + 1
    /\ r.chose \in {0, r.idx}
    /\ r.chose <= Len(r.routes)

IInv ==
    /\ TypeOK
    /\ HandlersAreSound
    /\ AdmissionIsExclusive
    /\ UsageIsClosed
    /\ UsageMatchesJournal
    /\ OutcomeIsTrue

-----------------------------------------------------------------------------
(* What the helpers return.                                                *)

LEMMA TypeOfHandlers ==
    TypeOK <=> /\ journal \in [RequestIds -> Entries]
               /\ usage \in Seq(UsageRecords)
               /\ handler \in [Handlers -> HandlerRecords]
               /\ \A h \in Handlers : HandlerOK(handler[h])
  BY DEF TypeOK, HandlerOK, UsageRecords

LEMMA IdleOK == IdleHandler \in HandlerRecords /\ HandlerOK(IdleHandler)
                /\ SoundHandler(IdleHandler)
  BY GatewayAssumption DEF IdleHandler, HandlerRecords, HandlerOK, SoundHandler, Phases, Endings

\* The chain consists of offerings of the plan.
LEMMA ChainType ==
    ASSUME NEW p \in Plans, NEW a \in {"primary", "fast"}
    PROVE  buildRouteChain(p, a) \in Seq(Offerings)
<1>1. p \in PlanRecords
  BY GatewayAssumption
<1>2. \A o \in Offerings \cup {NoOffering} : Present(o) \in Seq(Offerings)
  BY DEF Present
<1>3. \A s, t, u \in Seq(Offerings) : s \o t \o u \in Seq(Offerings)
  OBVIOUS
<1>4. /\ p.primary \in Offerings \cup {NoOffering}
      /\ p.fast \in Offerings \cup {NoOffering}
      /\ p.fallbacks \in Seq(Offerings)
  BY <1>1 DEF PlanRecords
<1>5. Present(p.fast) \in Seq(Offerings) /\ Present(p.primary) \in Seq(Offerings)
  BY <1>2, <1>4
<1> QED BY <1>3, <1>4, <1>5 DEF buildRouteChain

LEMMA NoEntryType == NoEntry \in Entries
  BY DEF NoEntry, Entries, Statuses, Endings

LEMMA AdmittedType ==
    ASSUME NEW h \in Handlers, HandlerOK(handler[h]), handler[h].pc # "idle"
    PROVE  /\ Admitted(h) \in Entries
           /\ Admitted(h).status = "admitted"
           /\ Admitted(h).ending = "none"
           /\ Admitted(h).encodable = TRUE
<1>1. handler[h].routes[1] \in Offerings
  BY DEF HandlerOK, HandlerRecords
<1> QED BY <1>1 DEF Admitted, NoEntry, Entries, Statuses, Endings

\* The entry that closes a request: its status and its ending belong together.
LEMMA EntryOfHandler ==
    ASSUME NEW r, NEW x \in BOOLEAN, HandlerOK(r), SoundHandler(r), r.pc = "record"
    PROVE  /\ Entry(r, x) \in Entries
           /\ Entry(r, x).status \in Closed
           /\ Entry(r, x).encodable = x
           /\ Entry(r, x).ending # "none" <=> r.chose # 0
           /\ Entry(r, x).status = "succeeded" => Entry(r, x).ending \in {"complete", "cut"}
           /\ Entry(r, x).status = "client_disconnected" <=> Entry(r, x).ending = "left"
           /\ Entry(r, x).status = "failed" =>
                Entry(r, x).ending \in {"none", "broken"} \/ Entry(r, x).retries > 0
<1>1. /\ r.routes \in Seq(Offerings) /\ Len(r.routes) \in Nat /\ Len(r.routes) >= 1
      /\ r.chose \in Nat /\ r.idx \in Nat /\ r.retries \in Nat
      /\ r.left \in BOOLEAN /\ r.failed \in BOOLEAN /\ r.stream \in BOOLEAN
      /\ r.end \in Endings
  BY DEF HandlerOK, HandlerRecords
<1>2. r.routes[1] \in Offerings /\ (r.chose # 0 => r.routes[r.chose] \in Offerings)
  BY <1>1 DEF HandlerOK
<1>3. /\ Status(r) \in Closed
      /\ Status(r) = "succeeded" => r.end \in {"complete", "cut"}
      /\ Status(r) = "client_disconnected" <=> r.end = "left"
      /\ Status(r) = "failed" => r.end \in {"none", "broken"} \/ r.retries > 0
      /\ r.end # "none" <=> r.chose # 0
  BY <1>1 DEF SoundHandler, Status, Closed, Statuses, Endings
<1>4. /\ Entry(r, x).status = Status(r) /\ Entry(r, x).ending = r.end
      /\ Entry(r, x).encodable = x /\ Entry(r, x).retries = r.retries
  BY DEF Entry
<1>5. Entry(r, x) \in Entries
  BY <1>1, <1>2, <1>3 DEF Entry, Entries, Closed
<1> QED BY <1>3, <1>4, <1>5

-----------------------------------------------------------------------------
(* Steps that change one handler and neither the journal nor the usage.    *)

ServingPhases == {"budget", "route", "stream", "record"}

\* A handler that moves on within what it may carry disturbs nothing: it
\* serves only the request it served before.
LEMMA LocalStep ==
    ASSUME IInv, NEW h \in Handlers, NEW r,
           HandlerOK(r), SoundHandler(r),
           handler' = [handler EXCEPT ![h] = r],
           UNCHANGED <<journal, usage>>,
           r.pc \in ServingPhases => handler[h].pc \in ServingPhases /\ r.id = handler[h].id
    PROVE  IInv'
<1>1. handler \in [Handlers -> HandlerRecords] /\ r \in HandlerRecords
  BY DEF IInv, TypeOK, HandlerOK
<1>2. handler'[h] = r /\ \A g \in Handlers \ {h} : handler'[g] = handler[g]
  BY <1>1
<1>3. TypeOK'
  <2>1. \A g \in Handlers : HandlerOK(handler'[g])
    BY <1>2, TypeOfHandlers DEF IInv
  <2>2. handler' \in [Handlers -> HandlerRecords]
    BY <1>1
  <2> QED BY <2>1, <2>2 DEF IInv, TypeOK, HandlerOK
<1>4. HandlersAreSound'
  BY <1>2 DEF IInv, HandlersAreSound
<1>5. AdmissionIsExclusive'
  <2> SUFFICES ASSUME NEW f \in Serving'
               PROVE  /\ journal'[handler'[f].id].status = "admitted"
                      /\ \A g \in Serving' \ {f} : handler'[g].id # handler'[f].id
    BY DEF AdmissionIsExclusive
  <2>1. \A g \in Serving' : g \in Serving /\ handler'[g].id = handler[g].id
    BY <1>2 DEF Serving, ServingPhases
  <2> QED BY <2>1 DEF IInv, AdmissionIsExclusive
<1>6. UsageIsClosed' /\ UsageMatchesJournal' /\ OutcomeIsTrue'
  BY DEF IInv, UsageIsClosed, UsageMatchesJournal, OutcomeIsTrue
<1> QED BY <1>3, <1>4, <1>5, <1>6 DEF IInv

LEMMA ReturnStep ==
    ASSUME IInv, NEW h \in Handlers, Return(h), UNCHANGED <<journal, usage>>
    PROVE  IInv'
<1>1. IdleHandler.pc \notin ServingPhases
  BY DEF IdleHandler, ServingPhases
<1> QED BY <1>1, IdleOK, LocalStep DEF Return

LEMMA BeginStep ==
    ASSUME IInv, NEW h \in Handlers, Begin(h)
    PROVE  IInv'
<1>1. PICK i \in RequestIds, s \in BOOLEAN, p \in Plans, a \in {"primary", "fast"} :
        /\ buildRouteChain(p, a) # << >>
        /\ handler' = [handler EXCEPT ![h] =
             [IdleHandler EXCEPT !.pc = "admit", !.id = i, !.stream = s,
                                 !.routes = buildRouteChain(p, a)]]
  BY DEF Begin
<1> DEFINE c == buildRouteChain(p, a)
           r == [IdleHandler EXCEPT !.pc = "admit", !.id = i, !.stream = s, !.routes = c]
<1>2. c \in Seq(Offerings) /\ c # << >>
  BY <1>1, ChainType
<1> HIDE DEF c
<1>3. HandlerOK(r) /\ SoundHandler(r) /\ r.pc \notin ServingPhases
  <2>1. /\ IdleHandler \in HandlerRecords
        /\ IdleHandler.idx = 0 /\ IdleHandler.chose = 0 /\ IdleHandler.from = {}
        /\ IdleHandler.left = FALSE /\ IdleHandler.end = "none"
        /\ IdleHandler.failed = FALSE
    BY IdleOK DEF IdleHandler
  <2>2. Len(c) \in Nat
    BY <1>2
  <2>3. r \in HandlerRecords
    BY <1>2, <2>1 DEF HandlerRecords, Phases
  <2>4. /\ r.pc = "admit" /\ r.routes = c /\ r.idx = 0 /\ r.chose = 0
        /\ r.from = {} /\ r.left = FALSE /\ r.end = "none"
        /\ r.failed = FALSE
    BY <2>1 DEF HandlerRecords
  <2> QED BY <1>2, <2>2, <2>3, <2>4 DEF HandlerOK, SoundHandler, ServingPhases
<1>4. handler' = [handler EXCEPT ![h] = r] /\ UNCHANGED <<journal, usage>>
  BY <1>1 DEF Begin, c
<1> HIDE DEF r
<1> QED BY <1>3, <1>4, LocalStep

\* The steps of a handler that serves, each with what it leaves behind.
LEMMA ServingStep ==
    ASSUME IInv, NEW h \in Handlers,
           \/ CheckBudget(h) \/ RouteFails(h) \/ RouteAnswers(h) \/ FirstChunk(h)
           \/ StreamEnds(h) \/ StreamBreaks(h) \/ ChunkRefused(h)
           \/ RoutesExhausted(h) \/ ClientLeaves(h)
    PROVE  IInv'
<1> DEFINE o == handler[h]
           r == handler'[h]
<1>1. handler \in [Handlers -> HandlerRecords] /\ HandlerOK(o) /\ SoundHandler(o)
  BY TypeOfHandlers DEF IInv, HandlersAreSound
<1>2. o \in HandlerRecords
  BY <1>1
<1>3. handler' = [handler EXCEPT ![h] = r] /\ UNCHANGED <<journal, usage>>
  <2>1. handler' = [handler EXCEPT ![h] = r]
    BY <1>1 DEF CheckBudget, RouteFails, RouteAnswers, FirstChunk, StreamEnds,
                StreamBreaks, ChunkRefused, RoutesExhausted, ClientLeaves, Locked
  <2> QED BY <2>1 DEF CheckBudget, RouteFails, RouteAnswers, FirstChunk, StreamEnds,
                StreamBreaks, ChunkRefused, RoutesExhausted, ClientLeaves
<1>4. /\ HandlerOK(r) /\ SoundHandler(r)
      /\ r.id = o.id
      /\ r.pc \in ServingPhases => o.pc \in ServingPhases
  <2> USE <1>1, <1>2 DEF HandlerOK, HandlerRecords, SoundHandler, Phases, ServingPhases
  <2>1. CASE CheckBudget(h)
    <3>1. CASE handler' = [handler EXCEPT ![h].pc = "route", ![h].idx = 1]
      <4>1. /\ r.pc = "route" /\ r.idx = 1 /\ r.from = {} /\ r.chose = 0
            /\ r.routes = o.routes /\ r.id = o.id /\ r.left = FALSE /\ r.end = "none"
            /\ r.failed = o.failed /\ r.retries = o.retries
        BY <2>1, <3>1 DEF CheckBudget
      <4>2. r \in HandlerRecords
        BY <2>1, <3>1 DEF CheckBudget
      <4> QED BY <2>1, <4>1, <4>2 DEF CheckBudget
    <3>2. CASE handler' = [handler EXCEPT ![h].pc = "record"]
      BY <2>1, <3>2 DEF CheckBudget
    <3> QED BY <2>1, <3>1, <3>2 DEF CheckBudget
  <2>2. CASE RouteFails(h)
    BY <2>2 DEF RouteFails, Trying
  <2>3. CASE RouteAnswers(h)
    <3>1. PICK end \in Whole(h) :
            handler' = [handler EXCEPT ![h].pc = "record", ![h].chose = handler[h].idx,
                          ![h].from = IF handler[h].stream THEN @ ELSE {handler[h].idx},
                          ![h].end = end]
      BY <2>3 DEF RouteAnswers
    <3>2. end \in {"complete", "cut"}
      BY <3>1 DEF Whole
    <3>3. /\ o.pc = "route" /\ o.idx <= Len(o.routes) /\ o.chose = 0 /\ o.from = {}
          /\ o.left = FALSE
      BY <2>3 DEF RouteAnswers, Trying
    <3>4. CASE o.stream
      BY <3>1, <3>2, <3>3, <3>4 DEF Endings
    <3>5. CASE ~o.stream
      <4>1. handler' = [handler EXCEPT ![h].pc = "record", ![h].chose = o.idx,
                          ![h].from = {o.idx}, ![h].end = end]
        BY <3>1, <3>5
      <4>2. /\ r.pc = "record" /\ r.chose = o.idx /\ r.from = {o.idx} /\ r.end = end
            /\ r.left = FALSE /\ r.idx = o.idx /\ r.routes = o.routes /\ r.id = o.id
            /\ r.failed = o.failed /\ r.retries = o.retries
        BY <3>3, <4>1
      <4>3. r \in HandlerRecords
        BY <3>2, <4>1 DEF Endings
      <4> HIDE DEF r
      <4> QED BY <3>2, <3>3, <4>2, <4>3
    <3> QED BY <3>4, <3>5
  <2>4. CASE FirstChunk(h)
    BY <2>4 DEF FirstChunk, Trying
  <2>5. CASE StreamEnds(h)
    <3>1. PICK end \in {"complete", "cut"} : Locked(h, FALSE, end)
      BY <2>5 DEF StreamEnds, Whole
    <3>2. CASE end = "complete"
      <4>1. handler' = [handler EXCEPT ![h].pc = "record", ![h].chose = o.idx,
                          ![h].left = FALSE, ![h].end = "complete", ![h].failed = @ \/ FALSE]
        BY <3>1, <3>2 DEF Locked
      <4> QED BY <2>5, <4>1 DEF StreamEnds, Endings
    <3>3. CASE end = "cut"
      <4>1. handler' = [handler EXCEPT ![h].pc = "record", ![h].chose = o.idx,
                          ![h].left = FALSE, ![h].end = "cut", ![h].failed = @ \/ FALSE]
        BY <3>1, <3>3 DEF Locked
      <4> QED BY <2>5, <4>1 DEF StreamEnds, Endings
    <3> QED BY <3>1, <3>2, <3>3
  <2>6. CASE StreamBreaks(h)
    BY <2>6 DEF StreamBreaks, Locked, Endings
  <2>7. CASE ChunkRefused(h)
    BY <2>7 DEF ChunkRefused, Locked, Trying, Endings
  <2>8. CASE RoutesExhausted(h)
    BY <2>8 DEF RoutesExhausted
  <2>9. CASE ClientLeaves(h)
    BY <2>9 DEF ClientLeaves
  <2> QED BY <2>1, <2>2, <2>3, <2>4, <2>5, <2>6, <2>7, <2>8, <2>9
<1> HIDE DEF r, o
<1> QED BY <1>3, <1>4, LocalStep DEF o

-----------------------------------------------------------------------------
(* Steps that write to the journal.                                        *)

\* What does not depend on which handler wrote the entry: types and handlers.
LEMMA HandlersKept ==
    ASSUME IInv, NEW h \in Handlers, NEW r,
           HandlerOK(r), SoundHandler(r),
           handler' = [handler EXCEPT ![h] = r]
    PROVE  /\ handler'[h] = r /\ \A g \in Handlers \ {h} : handler'[g] = handler[g]
           /\ handler' \in [Handlers -> HandlerRecords]
           /\ \A g \in Handlers : HandlerOK(handler'[g])
           /\ HandlersAreSound'
<1>1. handler \in [Handlers -> HandlerRecords] /\ r \in HandlerRecords
  BY DEF IInv, TypeOK, HandlerOK
<1>2. handler'[h] = r /\ \A g \in Handlers \ {h} : handler'[g] = handler[g]
  BY <1>1
<1>3. \A g \in Handlers : HandlerOK(handler'[g])
  BY <1>2, TypeOfHandlers DEF IInv
<1>4. HandlersAreSound'
  BY <1>2 DEF IInv, HandlersAreSound
<1> QED BY <1>1, <1>2, <1>3, <1>4

\* The entry of a request ID that was not used: no handler serves it and no
\* usage event names it, so whoever is told of it serves it alone.
LEMMA AdmitStep ==
    ASSUME IInv, NEW h \in Handlers, NEW r,
           HandlerOK(r), SoundHandler(r),
           handler[h].pc = "admit",
           journal[handler[h].id].status = "none",
           journal' = [journal EXCEPT ![handler[h].id] = Admitted(h)],
           handler' = [handler EXCEPT ![h] = r],
           UNCHANGED usage,
           r.pc \in ServingPhases => r.id = handler[h].id
    PROVE  IInv'
<1> DEFINE i == handler[h].id
<1>1. HandlerOK(handler[h]) /\ i \in RequestIds
  BY TypeOfHandlers DEF IInv, HandlerOK, HandlerRecords
<1>2. /\ Admitted(h) \in Entries
      /\ Admitted(h).status = "admitted"
      /\ Admitted(h).ending = "none"
  BY <1>1, AdmittedType
<1>3. /\ journal \in [RequestIds -> Entries]
      /\ usage \in Seq(UsageRecords)
  BY TypeOfHandlers DEF IInv
<1>4. /\ journal' \in [RequestIds -> Entries]
      /\ journal'[i] = Admitted(h)
      /\ \A j \in RequestIds \ {i} : journal'[j] = journal[j]
  BY <1>1, <1>2, <1>3
<1>5. TypeOK'
  BY <1>3, <1>4, HandlersKept DEF TypeOK, HandlerOK, UsageRecords
<1>6. \A k \in DOMAIN usage : usage[k].id \in RequestIds /\ usage[k].id # i
  <2> SUFFICES ASSUME NEW k \in DOMAIN usage
               PROVE  usage[k].id \in RequestIds /\ usage[k].id # i
    OBVIOUS
  <2>1. usage[k].id \in RequestIds
    <3>1. usage[k] \in UsageRecords
      BY <1>3
    <3> QED BY <3>1 DEF UsageRecords
  <2>2. journal[usage[k].id].status \in Closed
    BY DEF IInv, UsageIsClosed, UsageMatchesJournal
  <2> QED BY <2>1, <2>2 DEF Closed
<1>7. AdmissionIsExclusive'
  <2>1. \A g \in Serving : handler[g].id # i /\ g # h /\ handler[g].id \in RequestIds
    BY TypeOfHandlers DEF IInv, AdmissionIsExclusive, Serving, HandlerOK, HandlerRecords
  <2>2. \A g \in Serving' \ {h} : g \in Serving /\ handler'[g] = handler[g]
    BY HandlersKept DEF Serving
  <2>3. h \in Serving' => handler'[h].id = i
    BY HandlersKept DEF Serving, ServingPhases
  <2>4. ASSUME NEW f \in Serving'
        PROVE  /\ journal'[handler'[f].id].status = "admitted"
               /\ \A g \in Serving' \ {f} : handler'[g].id # handler'[f].id
    <3>1. CASE f = h
      BY <1>2, <1>4, <2>1, <2>2, <2>3, <3>1
    <3>2. CASE f # h
      <4>1. f \in Serving /\ handler'[f] = handler[f]
        BY <2>2, <2>4, <3>2
      <4>2. journal'[handler'[f].id].status = "admitted"
        BY <1>4, <2>1, <4>1 DEF IInv, AdmissionIsExclusive
      <4>3. ASSUME NEW g \in Serving' \ {f} PROVE handler'[g].id # handler'[f].id
        <5>1. CASE g = h
          BY <2>1, <2>3, <4>1, <4>3, <5>1
        <5>2. CASE g # h
          BY <2>2, <4>1, <4>3, <5>2 DEF IInv, AdmissionIsExclusive
        <5> QED BY <5>1, <5>2
      <4> QED BY <4>2, <4>3
    <3> QED BY <3>1, <3>2
  <2> QED BY <2>4 DEF AdmissionIsExclusive
<1>8. UsageIsClosed'
  BY DEF IInv, UsageIsClosed
<1>9. UsageMatchesJournal'
  <2>1. \A k \in DOMAIN usage' : /\ journal'[usage'[k].id] = usage'[k].entry
                                 /\ usage'[k].entry.ending # "none"
                                 /\ \A j \in DOMAIN usage' : usage'[j].id = usage'[k].id => j = k
    BY <1>4, <1>6 DEF IInv, UsageMatchesJournal
  <2>2. \A j \in RequestIds :
          journal'[j].ending # "none" =>
             (journal'[j].encodable <=> \E k \in DOMAIN usage' : usage'[k].id = j)
    BY <1>2, <1>4 DEF IInv, UsageMatchesJournal
  <2> QED BY <2>1, <2>2 DEF UsageMatchesJournal
<1>10. OutcomeIsTrue'
  BY <1>2, <1>4 DEF IInv, OutcomeIsTrue
<1> QED BY <1>5, <1>7, <1>8, <1>9, <1>10, HandlersKept DEF IInv

\* The end of a request: the handler closes the entry it admitted, which has
\* no usage event yet.
LEMMA RecordStep ==
    ASSUME IInv, NEW h \in Handlers, Record(h)
    PROVE  IInv'
<1> PICK x \in BOOLEAN : CompleteRequest(h, x)
  BY DEF Record
<1> DEFINE o == handler[h]
           i == o.id
           e == Entry(o, x)
           u == [id |-> i, entry |-> e, from |-> o.from]
<1>1. /\ HandlerOK(o) /\ SoundHandler(o) /\ o.pc = "record"
      /\ i \in RequestIds /\ o.from \in SUBSET Nat
  BY TypeOfHandlers DEF IInv, HandlerOK, HandlerRecords, HandlersAreSound, Record
<1>2. /\ e \in Entries /\ e.status \in Closed /\ e.encodable = x
      /\ e.ending # "none" <=> o.chose # 0
      /\ e.status = "succeeded" => e.ending \in {"complete", "cut"}
      /\ e.status = "client_disconnected" <=> e.ending = "left"
      /\ e.status = "failed" => e.ending \in {"none", "broken"} \/ e.retries > 0
  BY <1>1, EntryOfHandler
<1>3. /\ journal' = [journal EXCEPT ![i] = e]
      /\ usage' = usage \o createUsageEvent(o, e)
      /\ handler' = [handler EXCEPT ![h] = IdleHandler]
  BY DEF Record, CompleteRequest, Return
<1>16. createUsageEvent(o, e) = IF o.chose = 0 \/ ~x THEN << >> ELSE <<u>>
  BY <1>2 DEF createUsageEvent
<1>4. u.id = i /\ u.entry = e /\ u \in UsageRecords
  BY <1>1, <1>2 DEF UsageRecords
<1> HIDE DEF u, e
<1>5. /\ journal \in [RequestIds -> Entries]
      /\ usage \in Seq(UsageRecords)
  BY TypeOfHandlers DEF IInv
<1>6. /\ journal' \in [RequestIds -> Entries]
      /\ journal'[i] = e
      /\ \A j \in RequestIds \ {i} : journal'[j] = journal[j]
  BY <1>1, <1>2, <1>3, <1>5
<1>7. /\ usage' = IF o.chose = 0 \/ ~x THEN usage ELSE Append(usage, u)
      /\ usage' \in Seq(UsageRecords)
  <2>1. usage \o << >> = usage /\ usage \o <<u>> = Append(usage, u)
    BY <1>4, <1>5
  <2> QED BY <1>3, <1>16, <1>4, <1>5, <2>1
<1>8. /\ handler'[h] = IdleHandler /\ \A g \in Handlers \ {h} : handler'[g] = handler[g]
      /\ handler' \in [Handlers -> HandlerRecords]
      /\ \A g \in Handlers : HandlerOK(handler'[g])
      /\ HandlersAreSound'
  BY <1>3, IdleOK, HandlersKept
<1>9. TypeOK'
  BY <1>6, <1>7, <1>8 DEF TypeOK, HandlerOK, UsageRecords
<1>10. h \in Serving /\ journal[i].status = "admitted"
  BY <1>1 DEF IInv, AdmissionIsExclusive, Serving
<1>11. \A k \in DOMAIN usage : usage[k].id \in RequestIds /\ usage[k].id # i
  <2> SUFFICES ASSUME NEW k \in DOMAIN usage
               PROVE  usage[k].id \in RequestIds /\ usage[k].id # i
    OBVIOUS
  <2>1. usage[k].id \in RequestIds
    <3>1. usage[k] \in UsageRecords
      BY <1>5
    <3> QED BY <3>1 DEF UsageRecords
  <2>2. journal[usage[k].id].status \in Closed
    BY DEF IInv, UsageIsClosed, UsageMatchesJournal
  <2> QED BY <1>10, <2>1, <2>2 DEF Closed
<1> HIDE DEF i, o
<1>12. AdmissionIsExclusive'
  <2>1. \A g \in Serving' : g # h /\ g \in Serving /\ handler'[g] = handler[g]
    BY <1>8 DEF Serving, IdleHandler
  <2>2. \A g \in Serving \ {h} : handler[g].id # i /\ handler[g].id \in RequestIds
    <3>1. \A g \in Handlers : handler[g].id \in RequestIds
      BY DEF IInv, TypeOK, HandlerRecords
    <3> QED BY <1>10, <3>1 DEF IInv, AdmissionIsExclusive, Serving, i, o
  <2> QED BY <1>6, <2>1, <2>2 DEF IInv, AdmissionIsExclusive
<1>13. ASSUME o.chose = 0 \/ ~x PROVE UsageIsClosed' /\ UsageMatchesJournal'
  <2>1. usage' = usage
    BY <1>7, <1>13
  <2>2. UsageIsClosed'
    BY <2>1 DEF IInv, UsageIsClosed
  <2>3. UsageMatchesJournal'
    <3>1. \A k \in DOMAIN usage' :
            /\ journal'[usage'[k].id] = usage'[k].entry
            /\ usage'[k].entry.ending # "none"
            /\ \A j \in DOMAIN usage' : usage'[j].id = usage'[k].id => j = k
      BY <1>6, <1>11, <2>1 DEF IInv, UsageMatchesJournal
    <3>2. \A j \in RequestIds :
            journal'[j].ending # "none" =>
               (journal'[j].encodable <=> \E k \in DOMAIN usage' : usage'[k].id = j)
      BY <1>2, <1>6, <1>11, <1>13, <2>1 DEF IInv, UsageMatchesJournal
    <3> QED BY <3>1, <3>2 DEF UsageMatchesJournal
  <2> QED BY <2>2, <2>3
<1>14. ASSUME o.chose # 0 /\ x PROVE UsageIsClosed' /\ UsageMatchesJournal'
  <2>1. usage' = Append(usage, u)
    BY <1>7, <1>14
  <2> DEFINE n == Len(usage) + 1
  <2>2. /\ n \in Nat /\ DOMAIN usage = 1 .. Len(usage) /\ Len(usage) \in Nat
        /\ DOMAIN usage' = 1 .. n
        /\ usage'[n] = u
        /\ \A k \in DOMAIN usage : usage'[k] = usage[k]
    BY <1>4, <1>5, <2>1
  <2>3. \A k \in DOMAIN usage' : k = n \/ k \in DOMAIN usage
    BY <2>2
  <2> HIDE DEF n
  <2>4. UsageIsClosed'
    BY <1>2, <1>4, <2>2, <2>3 DEF IInv, UsageIsClosed
  <2>5. ASSUME NEW k \in DOMAIN usage'
        PROVE  /\ journal'[usage'[k].id] = usage'[k].entry
               /\ usage'[k].entry.ending # "none"
               /\ \A j \in DOMAIN usage' : usage'[j].id = usage'[k].id => j = k
    <3>1. CASE k = n
      BY <1>2, <1>4, <1>6, <1>11, <1>14, <2>2, <2>3, <3>1
    <3>2. CASE k # n
      <4>1. k \in DOMAIN usage /\ usage'[k] = usage[k]
        BY <2>2, <2>3, <2>5, <3>2
      <4>2. /\ journal'[usage'[k].id] = usage'[k].entry
            /\ usage'[k].entry.ending # "none"
        BY <1>6, <1>11, <4>1 DEF IInv, UsageMatchesJournal
      <4>3. \A j \in DOMAIN usage' : usage'[j].id = usage'[k].id => j = k
        BY <1>4, <1>11, <2>2, <2>3, <4>1 DEF IInv, UsageMatchesJournal
      <4> QED BY <4>2, <4>3
    <3> QED BY <3>1, <3>2
  <2>6. \A j \in RequestIds :
          journal'[j].ending # "none" =>
             (journal'[j].encodable <=> \E k \in DOMAIN usage' : usage'[k].id = j)
    <3> SUFFICES ASSUME NEW j \in RequestIds, journal'[j].ending # "none"
                 PROVE  journal'[j].encodable <=> \E k \in DOMAIN usage' : usage'[k].id = j
      OBVIOUS
    <3>1. CASE j = i
      <4>1. n \in DOMAIN usage' /\ usage'[n].id = j
        BY <1>4, <2>2, <3>1 DEF n
      <4> QED BY <1>2, <1>6, <1>14, <3>1, <4>1
    <3>2. CASE j # i
      <4>1. (\E k \in DOMAIN usage' : usage'[k].id = j) <=> \E k \in DOMAIN usage : usage[k].id = j
        <5>1. \A k \in DOMAIN usage : k \in DOMAIN usage'
          BY <2>2 DEF n
        <5> QED BY <1>4, <2>2, <2>3, <3>2, <5>1
      <4> QED BY <1>6, <3>2, <4>1 DEF IInv, UsageMatchesJournal
    <3> QED BY <3>1, <3>2
  <2>7. UsageMatchesJournal'
    BY <2>5, <2>6 DEF UsageMatchesJournal
  <2> QED BY <2>4, <2>7
<1>15. OutcomeIsTrue'
  BY <1>2, <1>6 DEF IInv, OutcomeIsTrue
<1> QED BY <1>8, <1>9, <1>12, <1>13, <1>14, <1>15 DEF IInv

LEMMA AdmitRequestStep ==
    ASSUME IInv, NEW h \in Handlers, AdmitRequest(h)
    PROVE  IInv'
<1> DEFINE r == [handler[h] EXCEPT !.pc = "budget"]
<1>1. /\ handler \in [Handlers -> HandlerRecords]
      /\ HandlerOK(handler[h]) /\ SoundHandler(handler[h]) /\ handler[h].pc = "admit"
  BY TypeOfHandlers DEF IInv, HandlersAreSound, AdmitRequest
<1>2. CASE journal[handler[h].id].status = "none"
  <2>1. HandlerOK(r) /\ SoundHandler(r) /\ r.id = handler[h].id
    BY <1>1 DEF HandlerOK, HandlerRecords, SoundHandler, Phases
  <2>2. /\ journal' = [journal EXCEPT ![handler[h].id] = Admitted(h)]
        /\ handler' = [handler EXCEPT ![h] = r]
        /\ UNCHANGED usage
    BY <1>1, <1>2 DEF AdmitRequest
  <2> HIDE DEF r
  <2> QED BY <1>1, <1>2, <2>1, <2>2, AdmitStep
<1>3. CASE journal[handler[h].id].status # "none"
  BY <1>3, ReturnStep DEF AdmitRequest
<1> QED BY <1>2, <1>3

LEMMA AdmitFailedStep ==
    ASSUME IInv, NEW h \in Handlers, AdmitFailed(h)
    PROVE  IInv'
<1>1. CASE UNCHANGED journal
  BY <1>1, ReturnStep DEF AdmitFailed
<1>2. CASE /\ journal[handler[h].id].status = "none"
           /\ journal' = [journal EXCEPT ![handler[h].id] = Admitted(h)]
  <2>1. IdleHandler.pc \notin ServingPhases
    BY DEF IdleHandler, ServingPhases
  <2> QED BY <1>2, <2>1, IdleOK, AdmitStep DEF AdmitFailed, Return
<1> QED BY <1>1, <1>2 DEF AdmitFailed

-----------------------------------------------------------------------------
LEMMA InitIInv == Init => IInv
<1> SUFFICES ASSUME Init PROVE IInv
  OBVIOUS
<1>1. \A h \in Handlers : handler[h] = IdleHandler
  BY DEF Init
<1>2. TypeOK
  BY <1>1, IdleOK, NoEntryType, TypeOfHandlers DEF Init
<1>3. HandlersAreSound /\ Serving = {}
  <2>1. IdleHandler.pc = "idle"
    BY DEF IdleHandler
  <2> QED BY <1>1, <2>1, IdleOK DEF HandlersAreSound, Serving
<1>4. AdmissionIsExclusive
  BY <1>3 DEF AdmissionIsExclusive
<1>5. \A i \in RequestIds : journal[i].status = "none" /\ journal[i].ending = "none"
  BY DEF Init, NoEntry
<1>6. DOMAIN usage = {}
  <2>1. Len(usage) = 0 /\ usage \in Seq(UsageRecords)
    BY <1>2, TypeOfHandlers DEF Init
  <2> QED BY <2>1
<1>7. UsageIsClosed /\ UsageMatchesJournal /\ OutcomeIsTrue
  BY <1>5, <1>6 DEF UsageIsClosed, UsageMatchesJournal, OutcomeIsTrue
<1> QED BY <1>2, <1>3, <1>4, <1>7 DEF IInv

LEMMA NextIInv == IInv /\ [Next]_vars => IInv'
<1> SUFFICES ASSUME IInv, [Next]_vars PROVE IInv'
  OBVIOUS
<1>1. ASSUME NEW h \in Handlers, Step(h) PROVE IInv'
  <2>1. CASE Begin(h)
    BY <2>1, BeginStep
  <2>2. CASE AdmitRequest(h)
    BY <2>2, AdmitRequestStep
  <2>3. CASE AdmitFailed(h)
    BY <2>3, AdmitFailedStep
  <2>4. CASE \/ CheckBudget(h) \/ RouteFails(h) \/ RouteAnswers(h) \/ FirstChunk(h)
             \/ StreamEnds(h) \/ StreamBreaks(h) \/ ChunkRefused(h)
             \/ RoutesExhausted(h) \/ ClientLeaves(h)
    BY <2>4, ServingStep
  <2>5. CASE Record(h)
    BY <2>5, RecordStep
  <2>6. CASE RecordFailed(h) \/ Crash(h)
    BY <2>6, ReturnStep DEF RecordFailed, Crash
  <2> QED BY <1>1, <2>1, <2>2, <2>3, <2>4, <2>5, <2>6 DEF Step
<1>2. CASE UNCHANGED vars
  BY <1>2 DEF vars, IInv, TypeOK, HandlersAreSound, AdmissionIsExclusive, Serving,
              UsageIsClosed, UsageMatchesJournal, OutcomeIsTrue
<1> QED BY <1>1, <1>2 DEF Next

LEMMA Invariance == Spec => []IInv
  BY InitIInv, NextIInv, PTL DEF Spec

(* Journal entries, usage events and the local state of handlers stay well *)
(* formed, and a handler that serves has a chain of routes and chose one   *)
(* it tried (service.go Execute and ExecuteStream).                        *)
THEOREM TypeCorrect == Spec => []TypeOK
<1>1. IInv => TypeOK
  BY DEF IInv
<1> QED BY <1>1, Invariance, PTL

(* However many handlers carry one request ID, on whatever replicas: one   *)
(* serves it, and the entry it closes is the one it admitted               *)
(* (repository.go AdmitRequest).                                           *)
THEOREM RequestsAreServedOnce == Spec => []AdmissionIsExclusive
<1>1. IInv => AdmissionIsExclusive
  BY DEF IInv
<1> QED BY <1>1, Invariance, PTL

(* Journal and usage agree: one usage event for each entry a provider      *)
(* answered whose event could be encoded and none for others, also where   *)
(* clients leave, handlers crash and answers of the database are lost      *)
(* (service.go createUsageEvent, repository.go CompleteRequest).           *)
THEOREM UsageIsExact == Spec => []UsageMatchesJournal
<1>1. IInv => UsageMatchesJournal
  BY DEF IInv
<1> QED BY <1>1, Invariance, PTL

(* A client never gets content of two routes: after the first chunk the    *)
(* route is not changed (service.go ExecuteStream).                        *)
THEOREM StreamsKeepTheirRoute == Spec => []StreamIsLocked
<1>1. IInv => StreamIsLocked
  <2> SUFFICES ASSUME IInv, NEW h \in Handlers
               PROVE  /\ Cardinality(handler[h].from) <= 1
                      /\ handler[h].pc = "record" => handler[h].from \subseteq {handler[h].chose}
    BY DEF StreamIsLocked
  <2>1. SoundHandler(handler[h]) /\ handler[h].pc \in Phases
    BY DEF IInv, HandlersAreSound, TypeOK, HandlerRecords
  <2>2. CASE handler[h].from = {}
    BY <2>1, <2>2, FS_EmptySet DEF SoundHandler
  <2>3. CASE handler[h].from # {}
    <3>1. PICK x : handler[h].from = {x}
      <4>1. CASE handler[h].pc = "stream"
        BY <2>1, <4>1 DEF SoundHandler
      <4>2. CASE handler[h].pc = "record"
        <5>1. handler[h].from = {handler[h].chose}
          BY <2>1, <2>3, <4>2 DEF SoundHandler
        <5> QED BY <5>1
      <4> QED BY <2>1, <2>3, <4>1, <4>2 DEF SoundHandler, Phases
    <3>2. Cardinality({x}) = 1
      BY FS_Singleton
    <3> QED BY <2>1, <3>1, <3>2 DEF SoundHandler
  <2> QED BY <2>2, <2>3
<1> QED BY <1>1, Invariance, PTL

(* An entry that says succeeded stands for an answer that no error and no  *)
(* refused chunk ended, one that says the client disconnected for a client *)
(* that did, and one that says failed for an answer that broke or that     *)
(* followed a failed route (service.go ExecuteStream: clientDisconnected,  *)
(* lastErr).                                                               *)
THEOREM OutcomesAreTrue == Spec => []OutcomeIsTrue
<1>1. IInv => OutcomeIsTrue
  BY DEF IInv
<1> QED BY <1>1, Invariance, PTL

-----------------------------------------------------------------------------
(***************************************************************************)
(* The credential of a BYOK connection (Credentials).                      *)
(* The row of an active connection names a version of the secret; that     *)
(* version was written or compared by the request that promoted it, and    *)
(* until the connection is archived a version of Vault only ever becomes   *)
(* destroyed.  Only a purge numbers the versions anew, and a purge is      *)
(* queued by the archiving transaction, after which no request can make    *)
(* the connection active.                                                  *)
(***************************************************************************)
CredentialRequests ==
    [pc : {"idle", "ensure", "write", "recover", "compare", "mark", "read", "verify",
           "accepted", "rejected"},
     kind : {"none", "create", "rotate"}, key : Keys \cup {NoKey},
     idem : IdemKeys \cup {"none"}, known : Nat, version : Nat,
     stored : Keys \cup {NoKey, Destroyed}]

\* A request under way is a create or a rotation of some key.
RequestsAreTyped ==
    /\ request \in [Requests -> CredentialRequests]
    /\ \A r \in Requests :
          request[r].pc # "idle" => request[r].key \in Keys /\ request[r].kind \in {"create", "rotate"}

\* A purge waits only where the connection is archived, and a worker holds an
\* item of the queue.
PurgesAreLast ==
    /\ \A n \in 1 .. Len(cleanup) : cleanup[n].action = "purge_secret" => connection.status = "archived"
    /\ \A w \in Workers : worker[w].item \in 0 .. Len(cleanup)

Holds(version, key) == version \in 1 .. Len(vault) /\ vault[version] \in {key, Destroyed}

\* What a request has written, or found and compared, is its own key.
RequestsHoldTheirKeys ==
    \A r \in Requests :
       request[r].pc \in {"mark", "read", "verify", "accepted", "rejected"} =>
          connection.status = "archived" \/ Holds(request[r].version, request[r].key)

ActiveHolds ==
    connection.status = "active" =>
       /\ credential.state # "none"
       /\ Holds(credential.active, credential.fingerprint)
       /\ \E a \in audit : a.key = credential.fingerprint /\ a.outcome = "succeeded"

CredentialInv ==
    /\ CredentialsTypeOK /\ RequestsAreTyped
    /\ PurgesAreLast /\ RequestsHoldTheirKeys /\ ActiveHolds

CleanupItems == [action : {"destroy_version", "purge_secret"}, version : Nat, done : BOOLEAN]

\* A request that was answered, or one under way of some key.
Typed(q) ==
    /\ q \in CredentialRequests
    /\ q.pc # "idle" => q.key \in Keys /\ q.kind \in {"create", "rotate"}

HasSecret(q) == q.pc \in {"mark", "read", "verify", "accepted", "rejected"}

\* Step: a version is in Vault and may be destroyed, but is not replaced.
VaultKeeps ==
    /\ Len(vault') >= Len(vault)
    /\ \A v \in 1 .. Len(vault) : vault'[v] \in {vault[v], Destroyed}

LEMMA HoldsStays ==
    ASSUME CredentialsTypeOK, VaultKeeps, CredentialsTypeOK', NEW v, NEW k, Holds(v, k)
    PROVE  v \in 1 .. Len(vault') /\ vault'[v] \in {k, Destroyed}
<1>1. Len(vault) \in Nat /\ Len(vault') \in Nat
  BY LenProperties DEF CredentialsTypeOK
<1>2. v \in 1 .. Len(vault) /\ vault[v] \in {k, Destroyed}
  BY DEF Holds
<1>3. v \in 1 .. Len(vault')
  BY <1>1, <1>2 DEF VaultKeeps
<1>4. vault'[v] \in {vault[v], Destroyed}
  BY <1>2 DEF VaultKeeps
<1> QED BY <1>2, <1>3, <1>4

\* The parts of the invariant that no row changes.
LEMMA RequestsKeep ==
    ASSUME CredentialsTypeOK, CredentialsTypeOK', RequestsAreTyped, RequestsHoldTheirKeys,
           connection.status = "archived" => connection'.status = "archived",
           connection'.status = "archived" \/ VaultKeeps,
           \/ request' = request
           \/ \E r \in Requests, next \in CredentialRequests :
                 /\ request' = [request EXCEPT ![r] = next]
                 /\ Typed(next)
                 /\ HasSecret(next) =>
                       \/ connection'.status = "archived"
                       \/ next.version \in 1 .. Len(vault') /\ vault'[next.version] \in {next.key, Destroyed}
    PROVE  RequestsAreTyped' /\ RequestsHoldTheirKeys'
<1>1. ASSUME NEW q \in Requests, HasSecret(request[q]), connection'.status # "archived"
      PROVE  /\ request[q].version \in 1 .. Len(vault')
             /\ vault'[request[q].version] \in {request[q].key, Destroyed}
  <2>1. Holds(request[q].version, request[q].key)
    BY <1>1 DEF RequestsHoldTheirKeys, HasSecret
  <2> QED BY <1>1, <2>1, HoldsStays
<1>2. CASE request' = request
  <2>1. RequestsAreTyped'
    BY <1>2 DEF RequestsAreTyped, CredentialRequests, NoKey, Destroyed
  <2>2. RequestsHoldTheirKeys'
    BY <1>1, <1>2 DEF RequestsHoldTheirKeys, HasSecret, Holds, Destroyed
  <2> QED BY <2>1, <2>2
<1>3. ASSUME NEW r \in Requests, NEW next \in CredentialRequests,
             request' = [request EXCEPT ![r] = next], Typed(next),
             HasSecret(next) =>
                \/ connection'.status = "archived"
                \/ next.version \in 1 .. Len(vault') /\ vault'[next.version] \in {next.key, Destroyed}
      PROVE  RequestsAreTyped' /\ RequestsHoldTheirKeys'
  <2>1. request' \in [Requests -> CredentialRequests]
    BY <1>3 DEF RequestsAreTyped
  <2>2. \A q \in Requests : request'[q] = IF q = r THEN next ELSE request[q]
    BY <1>3 DEF RequestsAreTyped
  <2>3. RequestsAreTyped'
    <3>1. \A q \in Requests : Typed(request'[q])
      BY <1>3, <2>2 DEF Typed, RequestsAreTyped
    <3> QED BY <2>1, <3>1 DEF RequestsAreTyped, Typed, CredentialRequests, NoKey, Destroyed
  <2>4. RequestsHoldTheirKeys'
    <3>1. ASSUME NEW q \in Requests, HasSecret(request'[q])
          PROVE  \/ connection'.status = "archived"
                 \/ /\ request'[q].version \in 1 .. Len(vault')
                    /\ vault'[request'[q].version] \in {request'[q].key, Destroyed}
      BY <1>1, <1>3, <2>2, <3>1
    <3> QED BY <3>1 DEF RequestsHoldTheirKeys, HasSecret, Holds, Destroyed
  <2> QED BY <2>3, <2>4
<1> QED BY <1>2, <1>3

\* The parts about the queue: it is unchanged, or an item is added that is no
\* purge unless the connection is archived.
LEMMA PurgesStayLast ==
    ASSUME CredentialsTypeOK, PurgesAreLast, connection.status = "archived" => connection'.status = "archived",
           worker' = worker,
           \/ cleanup' = cleanup
           \/ \E item \in CleanupItems :
                 /\ cleanup' = Append(cleanup, item)
                 /\ item.action = "purge_secret" => connection'.status = "archived"
    PROVE  PurgesAreLast'
<1>1. CASE cleanup' = cleanup
  BY <1>1 DEF PurgesAreLast
<1>2. ASSUME NEW item \in CleanupItems, cleanup' = Append(cleanup, item),
             item.action = "purge_secret" => connection'.status = "archived"
      PROVE  PurgesAreLast'
  <2>1. cleanup \in Seq(CleanupItems) /\ Len(cleanup) \in Nat
    BY LenProperties DEF CredentialsTypeOK, CleanupItems
  <2>2. /\ Len(cleanup') = Len(cleanup) + 1
        /\ \A n \in 1 .. Len(cleanup) : cleanup'[n] = cleanup[n]
        /\ cleanup'[Len(cleanup) + 1] = item
    BY <1>2, <2>1, AppendProperties
  <2>3. \A n \in 1 .. Len(cleanup') : n \in 1 .. Len(cleanup) \/ n = Len(cleanup) + 1
    BY <2>1, <2>2
  <2> QED BY <1>2, <2>1, <2>2, <2>3 DEF PurgesAreLast
<1> QED BY <1>1, <1>2

\* An active connection stays so with the same version and key.
LEMMA ActiveStays ==
    ASSUME CredentialsTypeOK, CredentialsTypeOK', ActiveHolds, VaultKeeps,
           connection'.status = "active" =>
              /\ connection.status = "active"
              /\ credential'.active = credential.active
              /\ credential'.fingerprint = credential.fingerprint
              /\ credential.state # "none" => credential'.state # "none",
           audit \subseteq audit'
    PROVE  ActiveHolds'
<1> SUFFICES ASSUME connection'.status = "active"
             PROVE  /\ credential'.state # "none"
                    /\ credential'.active \in 1 .. Len(vault')
                    /\ vault'[credential'.active] \in {credential'.fingerprint, Destroyed}
                    /\ \E a \in audit' : a.key = credential'.fingerprint /\ a.outcome = "succeeded"
  BY DEF ActiveHolds, Holds, Destroyed
<1>1. /\ credential.state # "none"
      /\ Holds(credential.active, credential.fingerprint)
      /\ \E a \in audit : a.key = credential.fingerprint /\ a.outcome = "succeeded"
  BY DEF ActiveHolds
<1> QED BY <1>1, HoldsStays

\* A step that changes no version of the secret.
LEMMA SameVault ==
    ASSUME CredentialsTypeOK, vault' = vault
    PROVE  VaultKeeps
  BY LenProperties DEF VaultKeeps, CredentialsTypeOK

-----------------------------------------------------------------------------
(* What a step of a request has to keep, so that the invariant holds.      *)

GoesOn ==
    \/ request' = request
    \/ \E r \in Requests, next \in CredentialRequests :
          /\ request' = [request EXCEPT ![r] = next]
          /\ Typed(next)
          /\ HasSecret(next) =>
                \/ connection'.status = "archived"
                \/ next.version \in 1 .. Len(vault') /\ vault'[next.version] \in {next.key, Destroyed}

StaysVerified ==
    /\ connection'.status = "active" =>
          /\ connection.status = "active"
          /\ credential'.active = credential.active
          /\ credential'.fingerprint = credential.fingerprint
          /\ credential.state # "none" => credential'.state # "none"
    /\ audit \subseteq audit'

Queues ==
    \/ cleanup' = cleanup
    \/ \E item \in CleanupItems :
          /\ cleanup' = Append(cleanup, item)
          /\ item.action = "purge_secret" => connection'.status = "archived"

ArchivedStays == connection.status = "archived" => connection'.status = "archived"

LEMMA RowsStep ==
    ASSUME CredentialInv, CredentialsTypeOK', GoesOn, Queues, ArchivedStays,
           StaysVerified \/ ActiveHolds', UNCHANGED <<vault, worker>>
    PROVE  CredentialInv'
<1>1. VaultKeeps
  BY SameVault DEF CredentialInv
<1>2. RequestsAreTyped' /\ RequestsHoldTheirKeys'
  BY <1>1, RequestsKeep DEF CredentialInv, GoesOn, ArchivedStays
<1>3. PurgesAreLast'
  BY PurgesStayLast DEF CredentialInv, Queues, ArchivedStays
<1>4. ActiveHolds'
  BY <1>1, ActiveStays DEF CredentialInv, StaysVerified
<1> QED BY <1>2, <1>3, <1>4 DEF CredentialInv

\* A step that changes no row.
LEMMA QuietStep ==
    ASSUME CredentialInv, GoesOn,
           UNCHANGED <<connection, history, credential, operation, audit, cleanup, vault, worker>>,
           started' \in Nat
    PROVE  CredentialInv'
<1>1. CredentialsTypeOK'
  BY DEF CredentialInv, CredentialsTypeOK, ConnectionStatuses, Events, States, NoKey, Destroyed, None
<1>2. Queues /\ ArchivedStays /\ StaysVerified
  BY DEF Queues, ArchivedStays, StaysVerified
<1> QED BY <1>1, <1>2, RowsStep

LEMMA IdleIsTyped == Typed(Idle) /\ ~HasSecret(Idle) /\ Idle \in CredentialRequests
  BY DEF Typed, HasSecret, Idle, CredentialRequests, None, NoKey

LEMMA Answered ==
    ASSUME NEW r \in Requests, request' = [request EXCEPT ![r] = Idle]
    PROVE  GoesOn
  BY IdleIsTyped DEF GoesOn

\* Of a request under way.
LEMMA UnderWay ==
    ASSUME CredentialInv, NEW r \in Requests, request[r].pc # "idle"
    PROVE  /\ request[r] \in CredentialRequests /\ Typed(request[r])
           /\ request[r].key \in Keys /\ request[r].kind \in {"create", "rotate"}
           /\ request[r].version \in Nat /\ request[r].known \in Nat
           /\ HasSecret(request[r]) =>
                 connection.status = "archived" \/ Holds(request[r].version, request[r].key)
<1>1. request[r] \in CredentialRequests /\ Typed(request[r])
  BY DEF CredentialInv, RequestsAreTyped, Typed
<1>2. HasSecret(request[r]) => connection.status = "archived" \/ Holds(request[r].version, request[r].key)
  BY DEF CredentialInv, RequestsHoldTheirKeys, HasSecret
<1> QED BY <1>1, <1>2 DEF Typed, CredentialRequests

-----------------------------------------------------------------------------
(* The steps.                                                              *)

LEMMA StoreKeeps ==
    ASSUME CredentialInv, NEW r \in Requests, writeCredentialRecoverably(r)
    PROVE  CredentialInv'
<1> DEFINE q == request[r]
<1>1. UNCHANGED <<connection, history, credential, operation, audit, cleanup, worker, started>>
  BY DEF writeCredentialRecoverably, WriteCredential, RecoverVersion, CompareSecret, rows
<1>2. q.pc # "idle"
  BY DEF writeCredentialRecoverably, WriteCredential, RecoverVersion, CompareSecret, At
<1>3. /\ q \in CredentialRequests /\ Typed(q) /\ q.key \in Keys /\ q.kind \in {"create", "rotate"}
  BY <1>2, UnderWay
<1>4. vault \in Seq(Keys \cup {Destroyed}) /\ Len(vault) \in Nat /\ started \in Nat
  BY LenProperties DEF CredentialInv, CredentialsTypeOK
<1>5. CASE WriteCAS(q.key, q.known) /\ Go(r, [q EXCEPT !.pc = "mark", !.version = Len(vault) + 1])
  <2> DEFINE next == [q EXCEPT !.pc = "mark", !.version = Len(vault) + 1]
  <2>1. vault' = Append(vault, q.key) /\ request' = [request EXCEPT ![r] = next]
    BY <1>5 DEF WriteCAS, Go
  <2>2. /\ vault' \in Seq(Keys \cup {Destroyed}) /\ Len(vault') = Len(vault) + 1
        /\ \A v \in 1 .. Len(vault) : vault'[v] = vault[v]
        /\ vault'[Len(vault) + 1] = q.key
    BY <1>3, <1>4, <2>1, AppendProperties
  <2>3. /\ next \in CredentialRequests /\ next.key = q.key /\ next.kind = q.kind
        /\ next.version = Len(vault) + 1
    <3>1. ASSUME NEW m \in Nat
          PROVE  LET new == [q EXCEPT !.pc = "mark", !.version = m]
                 IN  /\ new \in CredentialRequests /\ new.key = q.key /\ new.kind = q.kind
                     /\ new.version = m
      BY <1>3 DEF CredentialRequests
    <3>2. Len(vault) + 1 \in Nat
      BY <1>4
    <3> QED BY <3>1, <3>2
  <2> HIDE DEF next
  <2>4. CredentialsTypeOK'
    BY <1>1, <2>2 DEF CredentialInv, CredentialsTypeOK, ConnectionStatuses, Events, States, NoKey, Destroyed, None
  <2>5. VaultKeeps
    BY <1>4, <2>2 DEF VaultKeeps
  <2>6. next.version \in 1 .. Len(vault') /\ vault'[next.version] \in {next.key, Destroyed}
    BY <1>4, <2>2, <2>3
  <2>7. RequestsAreTyped' /\ RequestsHoldTheirKeys'
    BY <1>1, <1>3, <2>1, <2>3, <2>4, <2>5, <2>6, RequestsKeep DEF CredentialInv, Typed
  <2>8. PurgesAreLast' /\ ActiveHolds'
    BY <1>1, <2>4, <2>5, PurgesStayLast, ActiveStays DEF CredentialInv
  <2> QED BY <2>4, <2>7, <2>8 DEF CredentialInv
<1>6. ASSUME vault' = vault, GoesOn PROVE CredentialInv'
  BY <1>1, <1>4, <1>6, QuietStep
<1>7. ASSUME NEW pc \in {"recover", "compare"}, NEW version \in Nat,
             request' = [request EXCEPT ![r] = [q EXCEPT !.pc = pc, !.version = version]]
      PROVE  GoesOn
  <2> DEFINE next == [q EXCEPT !.pc = pc, !.version = version]
  <2>1. next \in CredentialRequests /\ Typed(next) /\ ~HasSecret(next)
    BY <1>3 DEF CredentialRequests, Typed, HasSecret
  <2> QED BY <1>7, <2>1 DEF GoesOn
<1>8. CASE Go(r, [q EXCEPT !.pc = "recover"]) /\ UNCHANGED vault
  <2> DEFINE next == [q EXCEPT !.pc = "recover"]
  <2>1. next \in CredentialRequests /\ Typed(next) /\ ~HasSecret(next)
    BY <1>3 DEF CredentialRequests, Typed, HasSecret
  <2>2. GoesOn
    BY <1>8, <2>1 DEF GoesOn, Go
  <2> QED BY <1>6, <1>8, <2>2
<1>9. CASE RecoverVersion(r)
  <2>1. CASE Go(r, [q EXCEPT !.pc = "compare", !.version = CurrentVersion])
    BY <1>4, <1>6, <1>7, <1>9, <2>1 DEF RecoverVersion, Go, CurrentVersion
  <2>2. CASE Reply(r)
    BY <1>6, <1>9, <2>2, Answered DEF RecoverVersion, Reply, Go
  <2> QED BY <1>9, <2>1, <2>2 DEF RecoverVersion
<1>10. CASE CompareSecret(r)
  <2>0. vault' = vault
    BY <1>10 DEF CompareSecret
  <2>1. CASE IsOwnSecret(r) /\ Go(r, [q EXCEPT !.pc = "mark"])
    <3> DEFINE next == [q EXCEPT !.pc = "mark"]
    <3>1. next \in CredentialRequests /\ Typed(next) /\ next.version = q.version /\ next.key = q.key
      BY <1>3 DEF CredentialRequests, Typed
    <3>2. q.version \in 1 .. Len(vault) /\ vault[q.version] = q.key
      BY <2>1 DEF IsOwnSecret, Readable
    <3>3. request' = [request EXCEPT ![r] = next]
      BY <2>1 DEF Go
    <3> HIDE DEF next
    <3>4. GoesOn
      BY <2>0, <3>1, <3>2, <3>3 DEF GoesOn
    <3> QED BY <1>6, <2>0, <3>4
  <2>2. CASE Reply(r)
    BY <1>6, <2>0, <2>2, Answered DEF Reply, Go
  <2> QED BY <1>10, <2>1, <2>2 DEF CompareSecret
<1> QED BY <1>5, <1>8, <1>9, <1>10 DEF writeCredentialRecoverably, WriteCredential

\* The row of a connection that a transaction sets.
LEMMA ConnectionIsSet ==
    ASSUME CredentialsTypeOK, NEW status \in ConnectionStatuses, NEW event \in Events,
           SetConnection(status, event)
    PROVE  /\ connection' \in [status : ConnectionStatuses, version : Nat] /\ connection'.status = status
           /\ history' \in Seq([status : ConnectionStatuses, event : Events])
<1>1. /\ connection' = [status |-> status, version |-> connection.version + 1]
      /\ history' = Append(history, [status |-> status, event |-> event])
  BY DEF SetConnection
<1>2. connection.version + 1 \in Nat
  BY DEF CredentialsTypeOK
<1>3. /\ history \in Seq([status : ConnectionStatuses, event : Events])
      /\ [status |-> status, event |-> event] \in [status : ConnectionStatuses, event : Events]
  BY DEF CredentialsTypeOK
<1>4. history' \in Seq([status : ConnectionStatuses, event : Events])
  BY <1>1, <1>3, AppendProperties
<1> QED BY <1>1, <1>2, <1>4

LEMMA VerifyKeeps ==
    ASSUME CredentialInv, NEW r \in Requests, ReadVersion(r) \/ Verify(r) \/ Abort(r)
    PROVE  CredentialInv'
<1> DEFINE q == request[r]
<1>1. q.pc # "idle"
  BY DEF ReadVersion, Verify, Abort, At
<1>2. /\ q \in CredentialRequests /\ Typed(q) /\ q.key \in Keys /\ q.kind \in {"create", "rotate"}
      /\ HasSecret(q) => connection.status = "archived" \/ Holds(q.version, q.key)
      /\ q.version \in Nat /\ started \in Nat
  BY <1>1, UnderWay DEF CredentialInv, CredentialsTypeOK
<1>3. ASSUME NEW next \in CredentialRequests, request' = [request EXCEPT ![r] = next],
             UNCHANGED <<connection, vault>>, HasSecret(q),
             next.kind = q.kind, next.key = q.key, next.version = q.version
      PROVE  GoesOn
  <2>1. Typed(next)
    BY <1>2, <1>3 DEF Typed
  <2>2. connection'.status = "archived" \/
        (next.version \in 1 .. Len(vault') /\ vault'[next.version] \in {next.key, Destroyed})
    BY <1>2, <1>3 DEF Holds
  <2> QED BY <1>3, <2>1, <2>2 DEF GoesOn
<1>4. CASE Abort(r)
  <2>1. /\ UNCHANGED <<connection, history, credential, operation, audit, cleanup, vault, worker, started>>
        /\ request' = [request EXCEPT ![r] = Idle]
    BY <1>4 DEF Abort, Reply, Go, rows
  <2> QED BY <1>2, <2>1, Answered, QuietStep
<1>5. CASE ReadVersion(r)
  <2>1. /\ UNCHANGED <<connection, history, credential, operation, audit, cleanup, vault, worker, started>>
        /\ q.pc = "read"
    BY <1>5 DEF ReadVersion, At, rows
  <2>2. CASE Readable(q.version) /\ Go(r, [q EXCEPT !.pc = "verify", !.stored = vault[q.version]])
    <3>1. vault[q.version] \in Keys
      <4>1. vault \in [1 .. Len(vault) -> Keys \cup {Destroyed}]
        BY LenProperties DEF CredentialInv, CredentialsTypeOK
      <4> QED BY <2>2, <4>1 DEF Readable
    <3> DEFINE next == [q EXCEPT !.pc = "verify", !.stored = vault[q.version]]
    <3>2. /\ next \in CredentialRequests
          /\ next.kind = q.kind /\ next.key = q.key /\ next.version = q.version
      BY <1>2, <3>1 DEF CredentialRequests
    <3>3. request' = [request EXCEPT ![r] = next]
      BY <2>2 DEF Go
    <3> HIDE DEF next
    <3>4. GoesOn
      BY <1>3, <2>1, <3>2, <3>3 DEF HasSecret
    <3> QED BY <1>2, <2>1, <3>4, QuietStep
  <2>3. CASE Reply(r)
    BY <1>2, <2>1, <2>3, Answered, QuietStep DEF Reply, Go
  <2> QED BY <1>5, <2>2, <2>3 DEF ReadVersion
<1>6. CASE Verify(r)
  <2>1. /\ UNCHANGED <<connection, history, credential, operation, cleanup, vault, worker, started>>
        /\ q.pc = "verify"
    BY <1>6 DEF Verify, At
  <2>2. PICK answer \in Answers(q.stored) :
           IF answer = "unavailable"
             THEN RecordTransientVerification(r) /\ Reply(r)
             ELSE Go(r, [q EXCEPT !.pc = answer]) /\ UNCHANGED audit
    BY <1>6 DEF Verify
  <2>3. answer \in {"accepted", "rejected", "unavailable"}
    BY <2>2 DEF Answers
  <2>4. CASE answer = "unavailable"
    <3>1. /\ audit' = audit \cup {[kind |-> q.kind, key |-> q.key, outcome |-> "transient_failure"]}
          /\ request' = [request EXCEPT ![r] = Idle]
      BY <2>2, <2>4 DEF RecordTransientVerification, insertVerification, Outcome, Reply, Go
    <3>2. CredentialsTypeOK'
      <4>1. audit' \subseteq [kind : {"create", "rotate"}, key : Keys,
                              outcome : {"succeeded", "rejected", "transient_failure"}]
        BY <1>2, <3>1 DEF CredentialInv, CredentialsTypeOK
      <4> QED BY <2>1, <4>1
            DEF CredentialInv, CredentialsTypeOK, ConnectionStatuses, Events, States, NoKey, Destroyed, None
    <3>3. GoesOn /\ Queues /\ ArchivedStays /\ StaysVerified
      BY <2>1, <3>1, Answered DEF Queues, ArchivedStays, StaysVerified
    <3> QED BY <2>1, <3>2, <3>3, RowsStep
  <2>5. CASE answer # "unavailable"
    <3> DEFINE next == [q EXCEPT !.pc = answer]
    <3>1. /\ next \in CredentialRequests
          /\ next.kind = q.kind /\ next.key = q.key /\ next.version = q.version
      BY <1>2, <2>3, <2>5 DEF CredentialRequests
    <3>2. request' = [request EXCEPT ![r] = next] /\ UNCHANGED audit
      BY <2>2, <2>5 DEF Go
    <3> HIDE DEF next
    <3>3. GoesOn
      BY <1>3, <2>1, <3>1, <3>2 DEF HasSecret
    <3> QED BY <1>2, <2>1, <3>2, <3>3, QuietStep
  <2> QED BY <2>4, <2>5
<1> QED BY <1>4, <1>5, <1>6

\* The requests that begin.
LEMMA BeginKeeps ==
    ASSUME CredentialInv, NEW r \in Requests, NEW k \in Keys,
           CreateBYOKMetadata(r, k) \/ RotateBYOKCredential(r, k)
    PROVE  CredentialInv'
<1>0. /\ started \in Nat /\ connection.version \in Nat /\ credential.latest \in Nat
      /\ history \in Seq([status : ConnectionStatuses, event : Events])
  BY DEF CredentialInv, CredentialsTypeOK
<1>1. CASE CreateBYOKMetadata(r, k)
  <2>1. /\ UNCHANGED <<credential, operation, audit, cleanup, vault, worker>>
        /\ request' = [request EXCEPT ![r] = [Idle EXCEPT !.pc = "ensure", !.kind = "create", !.key = k]]
        /\ started' = started + 1
        /\ CreateConnection
    BY <1>1 DEF CreateBYOKMetadata, Start, Go
  <2> DEFINE next == [Idle EXCEPT !.pc = "ensure", !.kind = "create", !.key = k]
  <2>2. next \in CredentialRequests /\ Typed(next) /\ ~HasSecret(next)
    BY DEF Idle, CredentialRequests, Typed, HasSecret, None, NoKey
  <2> HIDE DEF next
  <2>3. GoesOn
    BY <2>1, <2>2 DEF GoesOn, next
  <2>4. \/ UNCHANGED <<connection, history>>
        \/ connection.status = "none" /\ SetConnection("pending_verification", "created")
    BY <2>1 DEF CreateConnection, None
  <2>5. CredentialsTypeOK'
    <3>1. /\ connection' \in [status : ConnectionStatuses, version : Nat]
          /\ history' \in Seq([status : ConnectionStatuses, event : Events])
          /\ started' \in Nat
      <4>1. "pending_verification" \in ConnectionStatuses /\ "created" \in Events
        BY DEF ConnectionStatuses, Events
      <4>2. connection \in [status : ConnectionStatuses, version : Nat]
        BY DEF CredentialInv, CredentialsTypeOK
      <4>3. UNCHANGED <<connection, history>> \/
            (/\ connection' \in [status : ConnectionStatuses, version : Nat]
             /\ history' \in Seq([status : ConnectionStatuses, event : Events]))
        BY <2>4, <4>1, ConnectionIsSet DEF CredentialInv
      <4> QED BY <1>0, <2>1, <4>2, <4>3
    <3> QED BY <2>1, <3>1
          DEF CredentialInv, CredentialsTypeOK, ConnectionStatuses, Events, States, NoKey, Destroyed, None
  <2>6. Queues /\ ArchivedStays /\ StaysVerified
    BY <2>1, <2>4 DEF SetConnection, Queues, ArchivedStays, StaysVerified
  <2> QED BY <2>1, <2>3, <2>5, <2>6, RowsStep
<1>2. CASE RotateBYOKCredential(r, k)
  <2>1. PICK i \in IdemKeys, expired \in BOOLEAN :
           PrepareBYOKRotation(r, i, k, connection.version, expired)
    BY <1>2 DEF RotateBYOKCredential
  <2> DEFINE old == OperationOf(i, expired)
             row == IF old.state = None
                      THEN [state |-> "prepared", key |-> k, expected |-> connection.version] ELSE old
             next == [Idle EXCEPT !.pc = "write", !.kind = "rotate", !.key = k,
                                     !.idem = i, !.known = credential.latest]
             Ops == [state : {None, "prepared", "secret_stored", "succeeded", "rejected"},
                     key : Keys \cup {NoKey}, expected : Nat]
  <2>2. /\ UNCHANGED <<connection, history, credential, audit, cleanup, vault, worker>>
        /\ operation' = [operation EXCEPT ![i] = row]
        /\ started' = started + 1
        /\ \/ request' = [request EXCEPT ![r] = Idle]
           \/ request' = [request EXCEPT ![r] = next]
    BY <2>1 DEF PrepareBYOKRotation, Start, Go
  <2>3. operation \in [IdemKeys -> Ops]
    BY DEF CredentialInv, CredentialsTypeOK
  <2>4. old \in Ops
    BY <2>1, <2>3 DEF OperationOf, NoKey, None
  <2>5. row \in Ops
    BY <1>0, <2>4
  <2>6. next \in CredentialRequests /\ Typed(next) /\ ~HasSecret(next)
    BY <1>0 DEF Idle, CredentialRequests, Typed, HasSecret, None, NoKey
  <2> HIDE DEF old, row, next, Ops
  <2>7. GoesOn
    BY <2>2, <2>6, Answered DEF GoesOn
  <2>8. CredentialsTypeOK'
    <3>1. operation' \in [IdemKeys -> Ops] /\ started' \in Nat
      BY <1>0, <2>2, <2>3, <2>5
    <3> QED BY <2>2, <3>1
          DEF Ops, CredentialInv, CredentialsTypeOK, ConnectionStatuses, Events, States, NoKey, Destroyed, None
  <2>9. Queues /\ ArchivedStays /\ StaysVerified
    BY <2>2 DEF Queues, ArchivedStays, StaysVerified
  <2> QED BY <2>2, <2>7, <2>8, <2>9, RowsStep
<1> QED BY <1>1, <1>2

CredentialRows == [state : States, fingerprint : Keys \cup {NoKey},
                   active : Nat, latest : Nat, pending : Nat]
OperationRows == [state : {None, "prepared", "secret_stored", "succeeded", "rejected"},
                  key : Keys \cup {NoKey}, expected : Nat]
AuditRows == [kind : {"create", "rotate"}, key : Keys,
              outcome : {"succeeded", "rejected", "transient_failure"}]
ConnectionOk(row, log) ==
    /\ row \in [status : ConnectionStatuses, version : Nat]
    /\ log \in Seq([status : ConnectionStatuses, event : Events])

\* TypeOK, part by part.
LEMMA TypesTogether ==
    ASSUME CredentialsTypeOK, ConnectionOk(connection', history'), credential' \in CredentialRows,
           operation' \in [IdemKeys -> OperationRows], audit' \subseteq AuditRows,
           cleanup' \in Seq(CleanupItems), UNCHANGED <<vault, worker>>, started' \in Nat
    PROVE  CredentialsTypeOK'
  BY DEF CredentialsTypeOK, ConnectionOk, CredentialRows, OperationRows, AuditRows, CleanupItems,
         ConnectionStatuses, Events, States, NoKey, Destroyed, None

LEMMA TypesApart ==
    ASSUME CredentialsTypeOK
    PROVE  /\ ConnectionOk(connection, history) /\ credential \in CredentialRows
           /\ operation \in [IdemKeys -> OperationRows] /\ audit \subseteq AuditRows
           /\ cleanup \in Seq(CleanupItems) /\ started \in Nat
  BY DEF CredentialsTypeOK, ConnectionOk, CredentialRows, OperationRows, AuditRows, CleanupItems

LEMMA GreatestIsNat ==
    ASSUME NEW a \in Nat, NEW b \in Nat
    PROVE  Greatest(a, b) \in Nat
  BY DEF Greatest

LEMMA EnsureKeeps ==
    ASSUME CredentialInv, NEW r \in Requests, EnsureBYOKCredential(r)
    PROVE  CredentialInv'
<1> DEFINE q == request[r]
           row == Ensured(q.key)
<1>1. /\ UNCHANGED <<connection, history, operation, audit, cleanup, vault, worker, started>>
      /\ q.pc = "ensure"
  BY DEF EnsureBYOKCredential, At
<1>2. CredentialsTypeOK /\ q \in CredentialRequests /\ Typed(q) /\ q.key \in Keys /\ q.kind \in {"create", "rotate"}
  BY <1>1, UnderWay DEF CredentialInv
<1>3. row \in CredentialRows
  <2>1. credential \in CredentialRows
    BY <1>2, TypesApart
  <2>2. [state |-> "pending_store", fingerprint |-> q.key, active |-> 0, latest |-> 0, pending |-> 0]
           \in CredentialRows
    BY <1>2 DEF CredentialRows, States
  <2> QED BY <2>1, <2>2 DEF Ensured
<1>4. /\ credential.state # "none" => row = credential
      /\ credential.state = "none" => connection.status # "active"
  BY DEF CredentialInv, ActiveHolds, Ensured, None
<1> DEFINE next == [q EXCEPT !.pc = "write", !.known = row.latest]
<1>5. next \in CredentialRequests /\ Typed(next) /\ ~HasSecret(next)
  <2>1. row.latest \in Nat
    BY <1>3 DEF CredentialRows
  <2> HIDE DEF row
  <2> QED BY <1>2, <2>1 DEF CredentialRequests, Typed, HasSecret
<1>6. /\ credential' = credential \/ credential' = row
      /\ request' = [request EXCEPT ![r] = Idle] \/ request' = [request EXCEPT ![r] = next]
  BY DEF EnsureBYOKCredential, Reply, Go
<1> HIDE DEF row, next
<1>7. GoesOn
  BY <1>5, <1>6, Answered DEF GoesOn
<1>8. CredentialsTypeOK'
  BY <1>1, <1>2, <1>3, <1>6, TypesApart, TypesTogether
<1>9. Queues /\ ArchivedStays /\ StaysVerified
  BY <1>1, <1>4, <1>6 DEF Queues, ArchivedStays, StaysVerified
<1> QED BY <1>1, <1>7, <1>8, <1>9, RowsStep

LEMMA MarkKeeps ==
    ASSUME CredentialInv, NEW r \in Requests,
           MarkBYOKSecretStored(r) \/ MarkBYOKRotationSecretStored(r)
    PROVE  CredentialInv'
<1> DEFINE q == request[r]
           next == [q EXCEPT !.pc = "read"]
<1>1. /\ UNCHANGED <<connection, history, audit, cleanup, vault, worker, started>>
      /\ q.pc = "mark" /\ request' = [request EXCEPT ![r] = next]
  BY DEF MarkBYOKSecretStored, MarkBYOKRotationSecretStored, At, Go
<1>2. /\ CredentialsTypeOK /\ q \in CredentialRequests /\ Typed(q) /\ q.key \in Keys /\ q.kind \in {"create", "rotate"}
      /\ q.version \in Nat /\ (connection.status = "archived" \/ Holds(q.version, q.key))
  BY <1>1, UnderWay DEF CredentialInv, HasSecret
<1>3. /\ next \in CredentialRequests /\ Typed(next)
      /\ next.version = q.version /\ next.key = q.key
  BY <1>2 DEF CredentialRequests, Typed
<1> HIDE DEF next
<1>4. GoesOn
  BY <1>1, <1>2, <1>3 DEF GoesOn, Holds
<1>5. /\ credential \in CredentialRows /\ operation \in [IdemKeys -> OperationRows]
      /\ credential.latest \in Nat
  BY <1>2, TypesApart DEF CredentialRows
<1>6. /\ credential' \in CredentialRows
      /\ credential'.active = credential.active /\ credential'.fingerprint = credential.fingerprint
      /\ credential.state # "none" => credential'.state # "none"
  <2> DEFINE latest == Greatest(credential.latest, q.version)
  <2>1. latest \in Nat
    BY <1>2, <1>5, GreatestIsNat
  <2>2. \/ credential' = [credential EXCEPT !.state = "pending_verification", !.latest = latest,
                                            !.pending = q.version]
        \/ credential' = [credential EXCEPT !.latest = latest, !.pending = q.version]
    BY DEF MarkBYOKSecretStored, MarkBYOKRotationSecretStored
  <2> HIDE DEF latest
  <2> QED BY <1>2, <1>5, <2>1, <2>2 DEF CredentialRows, States
<1>7. operation' \in [IdemKeys -> OperationRows]
  <2>1. CASE operation' = operation
    BY <1>5, <2>1
  <2>2. CASE operation' = [operation EXCEPT ![q.idem].state =
                              IF @ \in {"prepared", "secret_stored"} THEN "secret_stored" ELSE @]
    BY <1>5, <2>2 DEF OperationRows
  <2> QED BY <2>1, <2>2 DEF MarkBYOKSecretStored, MarkBYOKRotationSecretStored
<1>8. CredentialsTypeOK'
  BY <1>1, <1>2, <1>6, <1>7, TypesApart, TypesTogether
<1>9. Queues /\ ArchivedStays /\ StaysVerified
  BY <1>1, <1>6 DEF Queues, ArchivedStays, StaysVerified
<1> QED BY <1>1, <1>4, <1>8, <1>9, RowsStep

\* A request that its provider accepted puts its own key in the row.
LEMMA PromotionHolds ==
    ASSUME CredentialInv, NEW r \in Requests, request[r].pc = "accepted",
           connection.status # "archived", credential' = Promoted(r), vault' = vault,
           NEW kind, audit' = audit \cup {[kind |-> kind, key |-> request[r].key, outcome |-> "succeeded"]}
    PROVE  ActiveHolds' /\ credential' \in CredentialRows
<1> DEFINE q == request[r]
           latest == Greatest(credential.latest, q.version)
<1>1. q.key \in Keys /\ q.version \in Nat /\ Holds(q.version, q.key)
  BY UnderWay DEF HasSecret
<1>2. credential \in CredentialRows
  BY TypesApart DEF CredentialInv
<1>3. latest \in Nat
  BY <1>1, <1>2, GreatestIsNat DEF CredentialRows
<1>4. credential' = [credential EXCEPT !.state = "active", !.fingerprint = q.key, !.active = q.version,
                                       !.latest = latest, !.pending = 0]
  BY DEF Promoted
<1> HIDE DEF latest
<1>5. /\ credential' \in CredentialRows /\ credential'.state = "active"
      /\ credential'.active = q.version /\ credential'.fingerprint = q.key
  <2>1. ASSUME NEW k \in Keys, NEW v \in Nat, NEW l \in Nat,
               credential' = [credential EXCEPT !.state = "active", !.fingerprint = k, !.active = v,
                                                !.latest = l, !.pending = 0]
        PROVE  /\ credential' \in CredentialRows /\ credential'.state = "active"
               /\ credential'.active = v /\ credential'.fingerprint = k
    <3>1. credential' = [state |-> "active", fingerprint |-> k, active |-> v, latest |-> l, pending |-> 0]
      BY <1>2, <2>1 DEF CredentialRows
    <3> QED BY <3>1 DEF CredentialRows, States
  <2> QED BY <1>1, <1>3, <1>4, <2>1
<1>6. \E a \in audit' : a.key = q.key /\ a.outcome = "succeeded"
  <2> DEFINE a == [kind |-> kind, key |-> q.key, outcome |-> "succeeded"]
  <2>1. a \in audit' /\ a.key = q.key /\ a.outcome = "succeeded"
    OBVIOUS
  <2> QED BY <2>1
<1> QED BY <1>1, <1>5, <1>6 DEF ActiveHolds, Holds, Destroyed

LEMMA QueueGrows ==
    ASSUME CredentialsTypeOK, NEW version \in Nat, NEW action \in {"destroy_version", "purge_secret"},
           insertSecretCleanup(version, action),
           action = "purge_secret" => connection'.status = "archived"
    PROVE  Queues /\ cleanup' \in Seq(CleanupItems)
<1> DEFINE item == [action |-> action, version |-> version, done |-> FALSE]
<1>1. item \in CleanupItems /\ item.action = action
  BY DEF CleanupItems
<1>2. cleanup' = Append(cleanup, item)
  BY DEF insertSecretCleanup
<1> HIDE DEF item
<1>3. cleanup' \in Seq(CleanupItems)
  BY <1>1, <1>2, TypesApart, AppendProperties
<1> QED BY <1>1, <1>2, <1>3 DEF Queues

LEMMA AuditGrows ==
    ASSUME CredentialsTypeOK, NEW kind \in {"create", "rotate"}, NEW key \in Keys,
           NEW outcome \in {"succeeded", "rejected", "transient_failure"},
           insertVerification(kind, key, outcome)
    PROVE  /\ audit' = audit \cup {[kind |-> kind, key |-> key, outcome |-> outcome]}
           /\ audit' \subseteq AuditRows
  BY TypesApart DEF insertVerification, AuditRows

LEMMA EndKeeps ==
    ASSUME CredentialInv, NEW r \in Requests,
           \/ ActivateBYOK(r) \/ FailInitialBYOKVerification(r)
           \/ CompleteBYOKRotation(r) \/ RejectBYOKRotation(r)
    PROVE  CredentialInv'
<1> DEFINE q == request[r]
<1>1. /\ UNCHANGED <<vault, worker, started>> /\ request' = [request EXCEPT ![r] = Idle]
      /\ q.pc \in {"accepted", "rejected"}
  BY DEF ActivateBYOK, FailInitialBYOKVerification, CompleteBYOKRotation,
         RejectBYOKRotation, At, Reply, Go
<1>2. /\ CredentialsTypeOK /\ q.key \in Keys /\ q.version \in Nat
      /\ connection.status = "archived" \/ Holds(q.version, q.key)
  BY <1>1, UnderWay DEF CredentialInv, HasSecret
<1>3. /\ ConnectionOk(connection, history) /\ credential \in CredentialRows
      /\ operation \in [IdemKeys -> OperationRows] /\ audit \subseteq AuditRows
      /\ cleanup \in Seq(CleanupItems) /\ started \in Nat
  BY <1>2, TypesApart
<1>4. GoesOn
  BY <1>1, Answered
<1>5. /\ "active" \in ConnectionStatuses /\ "verification_failed" \in ConnectionStatuses
      /\ "activated" \in Events /\ "verification_failed" \in Events
      /\ "credential_rotated" \in Events
      /\ Outcome("accepted") = "succeeded" /\ Outcome("rejected") = "rejected"
  BY DEF ConnectionStatuses, Events, Outcome
<1>6. ASSUME UNCHANGED <<connection, history, credential, operation, audit, cleanup>> PROVE CredentialInv'
  BY <1>1, <1>3, <1>4, <1>6, QuietStep
<1>7. CASE ActivateBYOK(r)
  <2>1. CASE connection.status \in {"pending_verification", "verification_failed"} /\ RefreshRowFits
    <3>1. /\ credential' = Promoted(r) /\ SetConnection("active", "activated")
          /\ insertVerification("create", q.key, "succeeded") /\ UNCHANGED <<operation, cleanup>>
          /\ q.pc = "accepted"
      BY <1>5, <1>7, <2>1 DEF ActivateBYOK, At
    <3>2. /\ audit' = audit \cup {[kind |-> "create", key |-> q.key, outcome |-> "succeeded"]}
          /\ audit' \subseteq AuditRows
      BY <1>2, <3>1, AuditGrows
    <3>3. ActiveHolds' /\ credential' \in CredentialRows
      BY <1>1, <2>1, <3>1, <3>2, PromotionHolds
    <3>4. ConnectionOk(connection', history') /\ connection'.status = "active"
      BY <1>2, <1>5, <3>1, ConnectionIsSet DEF ConnectionOk
    <3>5. CredentialsTypeOK'
      BY <1>1, <1>2, <1>3, <3>1, <3>2, <3>3, <3>4, TypesTogether
    <3>6. Queues /\ ArchivedStays
      BY <2>1, <3>1 DEF Queues, ArchivedStays
    <3> QED BY <1>1, <1>4, <3>3, <3>5, <3>6, RowsStep
  <2>2. CASE ~(connection.status \in {"pending_verification", "verification_failed"} /\ RefreshRowFits)
    BY <1>6, <1>7, <2>2 DEF ActivateBYOK
  <2> QED BY <2>1, <2>2
<1>8. CASE FailInitialBYOKVerification(r)
  <2>1. CASE StatusMayBecome("verification_failed")
    <3> DEFINE latest == Greatest(credential.latest, q.version)
    <3>1. /\ credential' = [credential EXCEPT !.state = "verification_failed", !.latest = latest, !.pending = 0]
          /\ SetConnection("verification_failed", "verification_failed")
          /\ insertVerification("create", q.key, "rejected") /\ UNCHANGED operation
          /\ insertSecretCleanup(q.version, "destroy_version")
      BY <1>5, <1>8, <2>1 DEF FailInitialBYOKVerification
    <3>2. latest \in Nat
      BY <1>2, <1>3, GreatestIsNat DEF CredentialRows
    <3> HIDE DEF latest
    <3>3. credential' \in CredentialRows
      BY <1>3, <3>1, <3>2 DEF CredentialRows, States
    <3>4. audit \subseteq audit' /\ audit' \subseteq AuditRows
      BY <1>2, <3>1, AuditGrows
    <3>5. ConnectionOk(connection', history') /\ connection'.status = "verification_failed"
      BY <1>2, <1>5, <3>1, ConnectionIsSet DEF ConnectionOk
    <3>6. Queues /\ cleanup' \in Seq(CleanupItems)
      BY <1>2, <3>1, QueueGrows
    <3>7. CredentialsTypeOK'
      BY <1>1, <1>2, <1>3, <3>1, <3>3, <3>4, <3>5, <3>6, TypesTogether
    <3>8. ArchivedStays /\ StaysVerified
      BY <2>1, <3>4, <3>5 DEF ArchivedStays, StaysVerified, StatusMayBecome
    <3> QED BY <1>1, <1>4, <3>6, <3>7, <3>8, RowsStep
  <2>2. CASE ~StatusMayBecome("verification_failed")
    BY <1>6, <1>8, <2>2 DEF FailInitialBYOKVerification
  <2> QED BY <2>1, <2>2
<1>9. CASE CompleteBYOKRotation(r)
  <2>1. CASE StatusMayBecome("active") /\ RefreshRowFits
    <3>1. /\ credential' = Promoted(r) /\ SetConnection("active", "credential_rotated")
          /\ insertVerification("rotate", q.key, "succeeded")
          /\ RetireVersion(credential.active, q.version)
          /\ operation' = [operation EXCEPT ![q.idem].state = IF @ = None THEN None ELSE "succeeded"]
          /\ q.pc = "accepted" /\ connection.status # "archived"
      BY <1>5, <1>9, <2>1 DEF CompleteBYOKRotation, At, StatusMayBecome
    <3>2. /\ audit' = audit \cup {[kind |-> "rotate", key |-> q.key, outcome |-> "succeeded"]}
          /\ audit' \subseteq AuditRows
      BY <1>2, <3>1, AuditGrows
    <3>3. ActiveHolds' /\ credential' \in CredentialRows
      BY <1>1, <3>1, <3>2, PromotionHolds
    <3>4. ConnectionOk(connection', history') /\ connection'.status = "active"
      BY <1>2, <1>5, <3>1, ConnectionIsSet DEF ConnectionOk
    <3>5. Queues /\ cleanup' \in Seq(CleanupItems)
      <4>1. cleanup' = cleanup \/ insertSecretCleanup(credential.active, "destroy_version")
        BY <3>1 DEF RetireVersion
      <4>2. credential.active \in Nat
        BY <1>3 DEF CredentialRows
      <4> QED BY <1>2, <1>3, <4>1, <4>2, QueueGrows DEF Queues
    <3>6. operation' \in [IdemKeys -> OperationRows]
      BY <1>3, <3>1 DEF OperationRows
    <3>7. CredentialsTypeOK'
      BY <1>1, <1>2, <1>3, <3>2, <3>3, <3>4, <3>5, <3>6, TypesTogether
    <3>8. ArchivedStays
      BY <3>1 DEF ArchivedStays
    <3> QED BY <1>1, <1>4, <3>3, <3>5, <3>7, <3>8, RowsStep
  <2>2. CASE ~(StatusMayBecome("active") /\ RefreshRowFits)
    BY <1>6, <1>9, <2>2 DEF CompleteBYOKRotation
  <2> QED BY <2>1, <2>2
<1>10. CASE RejectBYOKRotation(r)
  <2>1. /\ insertVerification("rotate", q.key, "rejected")
        /\ insertSecretCleanup(q.version, "destroy_version")
        /\ operation' = [operation EXCEPT ![q.idem].state = IF @ = None THEN None ELSE "rejected"]
        /\ UNCHANGED <<connection, history, credential>>
    BY <1>5, <1>10 DEF RejectBYOKRotation
  <2>2. audit \subseteq audit' /\ audit' \subseteq AuditRows
    BY <1>2, <2>1, AuditGrows
  <2>3. Queues /\ cleanup' \in Seq(CleanupItems)
    BY <1>2, <2>1, QueueGrows
  <2>4. operation' \in [IdemKeys -> OperationRows]
    BY <1>3, <2>1 DEF OperationRows
  <2>5. CredentialsTypeOK'
    BY <1>1, <1>2, <1>3, <2>1, <2>2, <2>3, <2>4, TypesTogether
  <2>6. ArchivedStays /\ StaysVerified
    BY <2>1, <2>2 DEF ArchivedStays, StaysVerified
  <2> QED BY <1>1, <1>4, <2>3, <2>5, <2>6, RowsStep
<1> QED BY <1>7, <1>8, <1>9, <1>10

LEMMA OwnerKeeps ==
    ASSUME CredentialInv, UpdateConnection \/ ArchiveConnection
    PROVE  CredentialInv'
<1>0. CredentialsTypeOK
  BY DEF CredentialInv
<1>1. /\ UNCHANGED <<operation, audit, vault, request, worker, started>>
      /\ connection.status \notin {"none", "archived"}
  BY DEF UpdateConnection, ArchiveConnection, None
<1>2. /\ ConnectionOk(connection, history) /\ credential \in CredentialRows
      /\ operation \in [IdemKeys -> OperationRows] /\ audit \subseteq AuditRows
      /\ cleanup \in Seq(CleanupItems) /\ started \in Nat /\ connection.status \in ConnectionStatuses
  BY <1>0, TypesApart DEF ConnectionOk
<1>3. GoesOn
  BY <1>1 DEF GoesOn
<1>4. "archived" \in ConnectionStatuses /\ "updated" \in Events /\ "archived" \in Events
  BY DEF ConnectionStatuses, Events
<1>5. CASE UpdateConnection
  <2>1. SetConnection(connection.status, "updated") /\ UNCHANGED <<credential, cleanup>>
    BY <1>5 DEF UpdateConnection
  <2>2. ConnectionOk(connection', history') /\ connection'.status = connection.status
    BY <1>0, <1>2, <1>4, <2>1, ConnectionIsSet DEF ConnectionOk
  <2>3. CredentialsTypeOK'
    BY <1>0, <1>1, <1>2, <2>1, <2>2, TypesTogether
  <2>4. Queues /\ ArchivedStays /\ StaysVerified
    BY <1>1, <2>1, <2>2 DEF Queues, ArchivedStays, StaysVerified
  <2> QED BY <1>1, <1>3, <2>3, <2>4, RowsStep
<1>6. CASE ArchiveConnection
  <2>1. SetConnection("archived", "archived") /\ purgeArchivedBYOKSecret
    BY <1>6 DEF ArchiveConnection
  <2>2. ConnectionOk(connection', history') /\ connection'.status = "archived"
    BY <1>0, <1>4, <2>1, ConnectionIsSet DEF ConnectionOk
  <2>3. Queues /\ cleanup' \in Seq(CleanupItems)
    <3>1. cleanup' = cleanup \/ insertSecretCleanup(0, "purge_secret")
      BY <2>1 DEF purgeArchivedBYOKSecret
    <3> QED BY <1>0, <1>2, <2>2, <3>1, QueueGrows DEF Queues
  <2>4. credential' \in CredentialRows
    BY <1>2, <2>1 DEF purgeArchivedBYOKSecret, CredentialRows, States
  <2>5. CredentialsTypeOK'
    BY <1>0, <1>1, <1>2, <2>2, <2>3, <2>4, TypesTogether
  <2>6. ArchivedStays /\ StaysVerified
    BY <1>1, <2>2 DEF ArchivedStays, StaysVerified
  <2> QED BY <1>1, <1>3, <2>3, <2>5, <2>6, RowsStep
<1> QED BY <1>5, <1>6

LEMMA CleanersKeep ==
    ASSUME CredentialInv, NEW w \in Workers,
           \/ ClaimSecretCleanup(w) \/ CleanupOne(w)
           \/ CompleteSecretCleanup(w) \/ ReleaseSecretCleanup(w)
    PROVE  CredentialInv'
<1> DEFINE Hands == [item : Nat, cleaned : BOOLEAN]
           n == worker[w].item
<1>1. /\ UNCHANGED <<connection, history, credential, operation, audit, request, started>>
  BY DEF ClaimSecretCleanup, CleanupOne, CompleteSecretCleanup,
         ReleaseSecretCleanup, rows
<1>2. /\ CredentialsTypeOK /\ worker \in [Workers -> Hands]
      /\ cleanup \in Seq(CleanupItems) /\ Len(cleanup) \in Nat
      /\ vault \in Seq(Keys \cup {Destroyed}) /\ Len(vault) \in Nat
      /\ n \in 0 .. Len(cleanup)
  BY LenProperties, TypesApart DEF CredentialInv, CredentialsTypeOK, PurgesAreLast
<1>3. ASSUME worker' \in [Workers -> Hands], cleanup' \in Seq(CleanupItems),
             vault' \in Seq(Keys \cup {Destroyed}), PurgesAreLast',
             connection.status = "archived" \/ VaultKeeps
      PROVE  CredentialInv'
  <2>1. CredentialsTypeOK'
    BY <1>1, <1>2, <1>3
       DEF CredentialsTypeOK, CleanupItems, ConnectionStatuses, Events, States, NoKey, Destroyed, None
  <2>2. RequestsAreTyped' /\ RequestsHoldTheirKeys'
    BY <1>1, <1>3, <2>1, RequestsKeep DEF CredentialInv
  <2>3. ActiveHolds'
    <3>1. CASE connection.status = "archived"
      BY <1>1, <3>1 DEF ActiveHolds
    <3>2. CASE VaultKeeps
      BY <1>1, <2>1, <3>2, ActiveStays DEF CredentialInv
    <3> QED BY <1>3, <3>1, <3>2
  <2> QED BY <1>3, <2>1, <2>2, <2>3 DEF CredentialInv
<1>4. ASSUME NEW k \in 0 .. Len(cleanup), NEW done \in BOOLEAN,
             worker' = [worker EXCEPT ![w] = [item |-> k, cleaned |-> done]],
             Len(cleanup') = Len(cleanup),
             \A m \in 1 .. Len(cleanup) : cleanup'[m].action = cleanup[m].action
      PROVE  worker' \in [Workers -> Hands] /\ PurgesAreLast'
  <2>1. worker' \in [Workers -> Hands]
    BY <1>2, <1>4
  <2>2. \A v \in Workers : worker'[v].item = IF v = w THEN k ELSE worker[v].item
    BY <1>2, <1>4
  <2> QED BY <1>1, <1>4, <2>1, <2>2 DEF CredentialInv, PurgesAreLast
<1>5. CASE ClaimSecretCleanup(w)
  <2>1. PICK k \in 1 .. Len(cleanup) : worker' = [worker EXCEPT ![w] = [item |-> k, cleaned |-> FALSE]]
    BY <1>5 DEF ClaimSecretCleanup
  <2>2. k \in 0 .. Len(cleanup) /\ UNCHANGED <<cleanup, vault>>
    BY <1>2, <1>5 DEF ClaimSecretCleanup, rows
  <2> QED BY <1>2, <1>3, <1>4, <2>1, <2>2, SameVault
<1>6. CASE ReleaseSecretCleanup(w)
  <2>1. worker' = [worker EXCEPT ![w] = [item |-> 0, cleaned |-> FALSE]] /\ UNCHANGED <<cleanup, vault>>
    BY <1>6 DEF ReleaseSecretCleanup, rows
  <2>2. 0 \in 0 .. Len(cleanup)
    BY <1>2
  <2> QED BY <1>2, <1>3, <1>4, <2>1, <2>2, SameVault
<1>7. CASE CompleteSecretCleanup(w)
  <2>1. /\ worker' = [worker EXCEPT ![w] = [item |-> 0, cleaned |-> FALSE]] /\ UNCHANGED vault
        /\ cleanup' = [cleanup EXCEPT ![n].done = TRUE]
    BY <1>7 DEF CompleteSecretCleanup
  <2>2. 0 \in 0 .. Len(cleanup)
    BY <1>2
  <2>3. /\ cleanup' \in Seq(CleanupItems) /\ Len(cleanup') = Len(cleanup)
        /\ \A m \in 1 .. Len(cleanup) : cleanup'[m].action = cleanup[m].action
    <3>1. CASE n \in 1 .. Len(cleanup)
      <4> DEFINE e == [cleanup[n] EXCEPT !.done = TRUE]
      <4>1. cleanup[n] \in CleanupItems
        BY <1>2, <3>1, ElementOfSeq
      <4>2. e \in CleanupItems /\ e.action = cleanup[n].action
        BY <4>1 DEF CleanupItems
      <4>3. cleanup' = [cleanup EXCEPT ![n] = e]
        BY <2>1
      <4> HIDE DEF e, n
      <4> QED BY <1>2, <3>1, <4>2, <4>3, ExceptSeq
    <3>2. CASE n \notin 1 .. Len(cleanup)
      <4>1. cleanup' = cleanup
        BY <1>2, <2>1, <3>2
      <4> QED BY <1>2, <4>1
    <3> QED BY <3>1, <3>2
  <2> QED BY <1>2, <1>3, <1>4, <2>1, <2>2, <2>3, SameVault
<1>8. CASE CleanupOne(w)
  <2>1. /\ worker' = [worker EXCEPT ![w].cleaned = TRUE] /\ UNCHANGED cleanup /\ n # 0
        /\ IF cleanup[n].action = "destroy_version" THEN DestroyVersion(cleanup[n].version) ELSE Purge
    BY <1>8 DEF CleanupOne, rows
  <2>2. worker' \in [Workers -> Hands] /\ \A v \in Workers : worker'[v].item = worker[v].item
    BY <1>2, <2>1
  <2>3. worker' \in [Workers -> Hands] /\ PurgesAreLast'
    BY <1>1, <2>1, <2>2 DEF CredentialInv, PurgesAreLast
  <2>4. n \in 1 .. Len(cleanup) /\ cleanup[n] \in CleanupItems
    BY <1>2, <2>1, ElementOfSeq
  <2>5. CASE cleanup[n].action = "destroy_version"
    <3> DEFINE v == cleanup[n].version
    <3>1. DestroyVersion(v)
      BY <2>1, <2>5
    <3>2. CASE v \in 1 .. Len(vault)
      <4>1. vault' = [vault EXCEPT ![v] = Destroyed]
        BY <3>1, <3>2 DEF DestroyVersion
      <4> HIDE DEF v
      <4>2. /\ vault' \in Seq(Keys \cup {Destroyed}) /\ Len(vault') = Len(vault)
            /\ \A m \in 1 .. Len(vault) : vault'[m] = IF m = v THEN Destroyed ELSE vault[m]
        BY <1>2, <3>2, <4>1, ExceptSeq
      <4>3. VaultKeeps
        BY <1>2, <4>2 DEF VaultKeeps
      <4> QED BY <1>2, <1>3, <2>1, <2>3, <4>2, <4>3
    <3>3. CASE v \notin 1 .. Len(vault)
      <4>1. vault' = vault
        BY <3>1, <3>3 DEF DestroyVersion
      <4> QED BY <1>2, <1>3, <2>1, <2>3, <4>1, SameVault
    <3> QED BY <3>2, <3>3
  <2>6. CASE cleanup[n].action # "destroy_version"
    <3>1. cleanup[n].action = "purge_secret"
      BY <2>4, <2>6 DEF CleanupItems
    <3>2. connection.status = "archived"
      BY <2>4, <3>1 DEF CredentialInv, PurgesAreLast
    <3>3. vault' = << >>
      BY <2>1, <2>6 DEF Purge
    <3>4. vault' \in Seq(Keys \cup {Destroyed})
      BY <3>3, EmptySeq
    <3> QED BY <1>2, <1>3, <2>1, <2>3, <3>2, <3>4
  <2> QED BY <2>5, <2>6
<1> QED BY <1>5, <1>6, <1>7, <1>8

LEMMA CredentialKeeps ==
    ASSUME CredentialInv, [CredentialsNext]_credentialsVars
    PROVE  CredentialInv'
<1>1. CASE UNCHANGED credentialsVars
  <2>1. UNCHANGED <<connection, history, credential, operation, audit, cleanup, vault, request, worker, started>>
    BY <1>1 DEF credentialsVars
  <2> QED BY <2>1, QuietStep DEF GoesOn, CredentialInv, CredentialsTypeOK
<1>2. ASSUME NEW r \in Requests, RequestStep(r) PROVE CredentialInv'
  BY <1>2, EnsureKeeps, MarkKeeps, EndKeeps, StoreKeeps, VerifyKeeps
     DEF RequestStep, CreateStep, RotateStep
<1> QED BY <1>1, <1>2, BeginKeeps, VerifyKeeps, OwnerKeeps, CleanersKeep DEF CredentialsNext

(* The row of an active connection names a version of the secret that      *)
(* holds the key with its fingerprint, or was destroyed since, and that    *)
(* key was accepted by the provider: for any keys, any number of requests, *)
(* retries and workers that overlap, also where a request recovers a       *)
(* version that another one wrote (application connection.go                     *)
(* writeCredentialRecoverably, postgres connection.go CompleteBYOKRotation,      *)
(* ActivateBYOK, secrets cleanup.go).                                      *)
THEOREM ActiveCredentialsAreVerified == CredentialsSpec => []ActiveIsVerified
<1>1. CredentialsInit => CredentialInv
  <2> SUFFICES ASSUME CredentialsInit PROVE CredentialInv
    OBVIOUS
  <2>1. connection.status = "none" /\ cleanup = << >> /\ vault = << >>
    BY DEF CredentialsInit, None
  <2>2. CredentialsTypeOK
    <3>1. /\ history \in Seq([status : ConnectionStatuses, event : Events])
          /\ cleanup \in Seq([action : {"destroy_version", "purge_secret"}, version : Nat, done : BOOLEAN])
          /\ vault \in Seq(Keys \cup {Destroyed})
      BY EmptySeq DEF CredentialsInit
    <3> QED BY <3>1 DEF CredentialsInit, CredentialsTypeOK, ConnectionStatuses, States, None
  <2>3. RequestsAreTyped /\ RequestsHoldTheirKeys
    BY IdleIsTyped DEF CredentialsInit, RequestsAreTyped, RequestsHoldTheirKeys, Typed, HasSecret
  <2>4. PurgesAreLast
    BY <2>1, EmptySeq DEF CredentialsInit, PurgesAreLast
  <2>5. ActiveHolds
    BY <2>1 DEF ActiveHolds
  <2> QED BY <2>2, <2>3, <2>4, <2>5 DEF CredentialInv
<1>2. CredentialInv /\ [CredentialsNext]_credentialsVars => CredentialInv'
  BY CredentialKeeps
<1>3. CredentialInv => ActiveIsVerified
  BY DEF CredentialInv, ActiveHolds, Holds, ActiveIsVerified
<1> QED BY <1>1, <1>2, <1>3, PTL DEF CredentialsSpec
=============================================================================
