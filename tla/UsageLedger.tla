----------------------------- MODULE UsageLedger -----------------------------
(***************************************************************************)
(* The usage of one thread.  UsageCounter counts in memory what the model  *)
(* answers cost; each count is recorded as a usage event that carries the  *)
(* total so far; the event goes to the thread's file and then to the       *)
(* ledger of the user data store.  The file is compacted now and then.  A  *)
(* restart seeds the counter from the file, and the usage route makes its  *)
(* report from the ledger or, for a thread that is not there, the file.    *)
(*                                                                         *)
(* A usage is a number of tokens.  One step is what runs between two       *)
(* awaits.                                                                 *)
(*                                                                         *)
(* KeptOfEachDay is a way to get the next definition wrong.                *)
(***************************************************************************)
EXTENDS Integers, FiniteSets, SequencesExt

CONSTANTS
  Source,      \* what may record usage of the thread at once: turns, summaries
  Model,
  Other,       \* in place of a model that is not known
  Retention,   \* days the usage of which compaction keeps in detail
  MaxFile,     \* the length beyond which the file is compacted
  MaxEvents,   \* bound: events
  MaxDay,      \* bound: days
  MaxDays,     \* the longest range of days a report is made for
  MaxTroubles  \* bound: restarts, failed writes and external usage

VARIABLES
  counter,   \* UsageCounter: the total of the thread
  nextSeq,   \* the counter of the event bus
  file,      \* the events of the file
  ledger,    \* the usage events of the user data store
  call,      \* the recorders
  day,
  used,      \* history: the tokens each model was really asked for
  forgotten, \* history: tokens no restart could know of
  behind,    \* history: the ledger has not heard of all usage
  together,  \* history: two usage events were recorded at once
  moved,     \* history: usage was counted with another model's event
  issued, troubles

vars == <<counter, nextSeq, file, ledger, call, day, used, forgotten, behind, together, moved,
          issued, troubles>>

Idle == [pc |-> "idle", model |-> Other, usage |-> 0, alloc |-> 0, seq |-> 0, day |-> 0, seen |-> <<>>]

Init ==
  /\ counter = 0 /\ nextSeq = 0 /\ file = <<>> /\ ledger = {}
  /\ call = [s \in Source |-> Idle]
  /\ day = 0 /\ used = [m \in Model |-> 0] /\ forgotten = 0
  /\ behind = FALSE /\ together = FALSE /\ moved = FALSE /\ issued = 0 /\ troubles = 0

highestSeq(events) == FoldLeft(LAMBDA m, e : IF e.seq > m THEN e.seq ELSE m, 0, events)

Busy == {s \in Source : call[s].pc # "idle"}
-----------------------------------------------------------------------------
(***************************************************************************)
(* Recording.                                                              *)
(***************************************************************************)
\* A model answers: the counter takes its usage, and the event begins to be recorded.
Use(s, m) ==
  /\ call[s].pc = "idle" /\ issued < MaxEvents
  /\ issued' = issued + 1
  /\ used' = [used EXCEPT ![m] = @ + 1]
  /\ counter' = counter + 1
  /\ nextSeq' = nextSeq + 1
  /\ call' = [call EXCEPT ![s] = [Idle EXCEPT !.pc = "reading", !.model = m,
                                    !.usage = counter + 1, !.alloc = nextSeq + 1]]
  /\ behind' = TRUE
  /\ together' = (together \/ Busy # {})
  /\ UNCHANGED <<file, ledger, day, forgotten, moved, troubles>>

Stamp(s) ==
  LET next == highestSeq(file) + 1 IN IF call[s].alloc > next THEN call[s].alloc ELSE next

ReadHighest(s) ==
  /\ call[s].pc = "reading"
  /\ call' = [call EXCEPT ![s].pc = "append", ![s].seq = Stamp(s), ![s].day = day]
  /\ UNCHANGED <<counter, nextSeq, file, ledger, day, used, forgotten, behind, together, moved,
                 issued, troubles>>

AppendEvent(s) ==
  /\ call[s].pc = "append"
  /\ file' = Append(file, [seq |-> call[s].seq, model |-> call[s].model, usage |-> call[s].usage,
                           day |-> call[s].day])
  /\ call' = [call EXCEPT ![s].pc = IF Len(file) >= MaxFile THEN "compact" ELSE "sink"]
  /\ UNCHANGED <<counter, nextSeq, ledger, day, used, forgotten, behind, together, moved, issued,
                 troubles>>

KeptOfEachDay(events, today) ==
  SelectSeq(events, LAMBDA e : e.day + Retention >= today)

\* compactUsageEvents: of the usage events, the last of each day and model since the
\* cutoff, the last before it, and the last of all.
Compacted(events, today) ==
  LET all == DOMAIN events
      old == {i \in all : events[i].day + Retention < today}
      LastOf(I, i) == i \in I /\ \A j \in I : j <= i
      Alike(i) == {j \in all \ old :
                     events[j].model = events[i].model /\ events[j].day = events[i].day}
      kept == {i \in all : LastOf(old, i) \/ LastOf(Alike(i), i) \/ LastOf(all, i)}
      At(n) == CHOOSE i \in kept : Cardinality({j \in kept : j <= i}) = n
  IN  [n \in 1 .. Cardinality(kept) |-> events[At(n)]]

\* compactUsageEventsIfLarge: the file is read, and written back if it became shorter.
ReadForCompaction(s) ==
  /\ call[s].pc = "compact"
  /\ call' = [call EXCEPT ![s].pc = "rewrite", ![s].seen = file]
  /\ UNCHANGED <<counter, nextSeq, file, ledger, day, used, forgotten, behind, together, moved,
                 issued, troubles>>

Rewrite(s) ==
  /\ call[s].pc = "rewrite"
  /\ LET shorter == Compacted(call[s].seen, day) IN
     file' = IF Len(shorter) < Len(call[s].seen) THEN shorter ELSE file
  /\ call' = [call EXCEPT ![s].pc = "sink", ![s].seen = <<>>]
  /\ UNCHANGED <<counter, nextSeq, ledger, day, used, forgotten, behind, together, moved, issued,
                 troubles>>

\* usageSink: the ledger takes one event of a seq.
Sink(s) ==
  /\ call[s].pc = "sink"
  /\ ledger' = IF \E e \in ledger : e.seq = call[s].seq THEN ledger
               ELSE ledger \cup {[seq |-> call[s].seq, model |-> call[s].model,
                                  usage |-> call[s].usage, day |-> call[s].day]}
  /\ behind' = (call[s].usage < counter \/ (behind /\ ledger' = ledger))
  /\ call' = [call EXCEPT ![s] = Idle]
  /\ UNCHANGED <<counter, nextSeq, file, day, used, forgotten, together, moved, issued, troubles>>

\* A write fails: recording ends there, with an error for the caller.
WriteFails(s) ==
  /\ call[s].pc \in {"append", "sink"} /\ troubles < MaxTroubles
  /\ troubles' = troubles + 1
  /\ call' = [call EXCEPT ![s] = Idle]
  /\ moved' = TRUE
  /\ UNCHANGED <<counter, nextSeq, file, ledger, day, used, forgotten, behind, together, issued>>

\* recordExternalUsage: what a child used is counted, and no event is recorded.
UseExternally(m) ==
  /\ troubles < MaxTroubles
  /\ troubles' = troubles + 1
  /\ counter' = counter + 1 /\ used' = [used EXCEPT ![m] = @ + 1]
  /\ behind' = TRUE /\ moved' = TRUE
  /\ UNCHANGED <<nextSeq, file, ledger, call, day, forgotten, together, issued>>

NextDay ==
  /\ day < MaxDay /\ day' = day + 1
  /\ UNCHANGED <<counter, nextSeq, file, ledger, call, used, forgotten, behind, together, moved,
                 issued, troubles>>

\* seedUsageCarryover: the total of the usage event of the highest seq.
Seed ==
  FoldLeft(LAMBDA latest, e : IF e.seq > latest.seq THEN e ELSE latest,
           [seq |-> 0, usage |-> 0], file).usage

Restart ==
  /\ troubles < MaxTroubles
  /\ troubles' = troubles + 1
  /\ counter' = Seed /\ nextSeq' = 0
  /\ call' = [s \in Source |-> Idle]
  /\ forgotten' = forgotten + (counter - Seed)
  /\ moved' = (moved \/ Busy # {})
  /\ UNCHANGED <<file, ledger, day, used, behind, together, issued>>

Next ==
  \/ \E s \in Source :
       \/ \E m \in Model : Use(s, m)
       \/ ReadHighest(s) \/ AppendEvent(s) \/ ReadForCompaction(s) \/ Rewrite(s) \/ Sink(s)
       \/ WriteFails(s)
  \/ \E m \in Model : UseExternally(m)
  \/ NextDay \/ Restart

Spec == Init /\ [][Next]_vars
-----------------------------------------------------------------------------
(***************************************************************************)
(* The usage route.                                                        *)
(***************************************************************************)
BySeq(events) ==
  LET Before(i, j) == events[i].seq < events[j].seq \/ (events[i].seq = events[j].seq /\ i < j)
      order == SetToSortSeq(DOMAIN events, Before)
  IN  [n \in DOMAIN events |-> events[order[n]]]

UsageOf(e, amount) == [model |-> e.model, day |-> e.day, usage |-> amount]

\* diffUsage of each event and the one before it; a total that fell adds nothing.
Differences(events) ==
  FoldLeft(LAMBDA sofar, e :
             [latest |-> e.usage,
              records |-> IF e.usage > sofar.latest
                            THEN Append(sofar.records, UsageOf(e, e.usage - sofar.latest))
                            ELSE sofar.records],
           [latest |-> 0, records |-> <<>>], events).records

RecordsOfLedger == Differences(BySeq(SetToSeq(ledger)))

\* What the counter has beyond the last event of the file is live; it is told with the model
\* of the last turn, which is not modelled.
RecordsOfFile ==
  LET events == BySeq(file)
      latest == IF events = <<>> THEN 0 ELSE Last(events).usage
  IN  Differences(events) \o
        (IF counter > latest THEN <<[model |-> Other, day |-> day, usage |-> counter - latest]>>
         ELSE <<>>)

usageRecords == IF ledger # {} THEN RecordsOfLedger ELSE RecordsOfFile

addUsageCounters(records) == FoldLeft(LAMBDA sum, r : sum + r.usage, 0, records)

ThreadUsage(records) == addUsageCounters(records)

\* resolveUsageWindow: the days a query names, or so many days up to today.
Window(query, today) ==
  IF query.days = 0 THEN query ELSE [query EXCEPT !.from = today - (query.days - 1), !.to = today]

inclusiveDayCount(query) == query.to - query.from + 1

IsValid(query) == inclusiveDayCount(query) \in 1 .. MaxDays

DailyUsage(records, query) ==
  [d \in query.from .. query.to |->
     addUsageCounters(SelectSeq(records, LAMBDA r : r.day = d))]

ModelUsage(records, query) ==
  [m \in Model \cup {Other} |->
     addUsageCounters(SelectSeq(records, LAMBDA r : r.model = m /\ r.day \in query.from .. query.to))]
-----------------------------------------------------------------------------
Query ==
  {query \in [from : 0 .. MaxDay, to : 0 .. MaxDay, days : 0 .. MaxDays] :
     query.days > 0 => query.from = 0 /\ query.to = 0}

AllDays == [from |-> 0, to |-> MaxDay]

\* Once the ledger has heard of all usage, or if it has never heard of the thread, nothing is
\* left out of the report but what no restart could know of. Nothing is reported twice,
\* however often the file is compacted, a write fails or the server restarts, unless two
\* usage events of the thread were recorded at once. While every event was written, the
\* ledger charges each model with its own; the file, once compacted, could not. And the
\* reports of a range by day and by model agree, with one another and, if it has all days, with that
\* of the thread.
UsageIsReportedOnce ==
  LET known == SumFunction(used) - forgotten
      records == usageRecords
      reported == ThreadUsage(records) IN
  /\ ledger = {} \/ ~behind => reported >= known
  /\ ~together => reported <= known
  /\ ~together /\ ~moved /\ Busy = {} /\ ledger # {} =>
       \A m \in Model : ModelUsage(records, AllDays)[m] = used[m]
  /\ Busy = {} /\ day = MaxDay =>
       \A asked \in Query :
         LET query == Window(asked, day)
             total == SumFunction(DailyUsage(records, query)) IN
         IsValid(query) =>
           /\ SumFunction(ModelUsage(records, query)) = total
           /\ query.from <= 0 /\ query.to >= day => total = reported
=============================================================================
