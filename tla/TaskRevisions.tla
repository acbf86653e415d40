---------------------------- MODULE TaskRevisions ----------------------------
(***************************************************************************)
(* The task state of one run in FileTaskStateStore: prepared revisions,    *)
(* the active pointer and the commit lock, for writers of several          *)
(* processes; a run has two when its lease was taken over. A writer is one *)
(* that projects progress, or a compaction, which also appends its item to *)
(* the session before the commit and takes it back after a failed one.     *)
(*                                                                         *)
(* A token is the writer that prepared the revision. CommitsAnyway is a    *)
(* way to get the next definition wrong.                                   *)
(***************************************************************************)
EXTENDS Naturals, FiniteSets

CONSTANTS
  Writer, Compaction,  \* the writers, and those that are compactions
  MaxStops             \* bound: writers that crash, or stall for the lock's ten seconds

VARIABLES
  pc,        \* where each writer is
  base,      \* the active revision each one has loaded
  files,     \* prepared revisions, [rev, token]
  current,   \* the active pointer
  holder,    \* commit.lock, and
  old,       \* ... it is older than LOCK_STALE_MS
  items,     \* the compaction items in the session
  original,  \* the items each compaction has read, to go back to
  stops,     \* crashes and stalls so far
  committed, \* history: the revisions that were active
  seized,    \* history: a lock was removed that a live writer held
  rewound    \* history: a compaction that went back changed the items of others

taskVars == <<pc, base, files, current, holder, old, items, original, stops, committed, seized, rewound>>

Unset == [rev |-> 0, token |-> "none"]
Mine(w) == [rev |-> base[w] + 1, token |-> w]
Ended == {"done", "failed", "gone"}

Init ==
  /\ pc = [w \in Writer |-> "idle"] /\ base = [w \in Writer |-> 0]
  /\ files = {} /\ current = Unset /\ holder = "none" /\ old = FALSE
  /\ items = {} /\ original = [w \in Writer |-> {}]
  /\ stops = 0 /\ committed = {} /\ seized = FALSE /\ rewound = FALSE

Goes(w, where) == pc' = [pc EXCEPT ![w] = where]

Load(w) ==
  /\ pc[w] = "idle" /\ Goes(w, "loaded") /\ base' = [base EXCEPT ![w] = current.rev]
  /\ UNCHANGED <<files, current, holder, old, items, stops, committed, seized, original, rewound>>

ReadItems(w) ==
  /\ pc[w] = "loaded" /\ w \in Compaction /\ Goes(w, "read")
  /\ original' = [original EXCEPT ![w] = items]
  /\ UNCHANGED <<base, files, current, holder, old, items, stops, committed, seized, rewound>>

Prepare(w) ==
  /\ pc[w] = IF w \in Compaction THEN "read" ELSE "loaded"
  /\ IF current.rev = base[w]
     THEN files' = files \cup {Mine(w)} /\ Goes(w, IF w \in Compaction THEN "appending" ELSE "locking")
     ELSE files' = files /\ Goes(w, "failed")
  /\ UNCHANGED <<base, current, holder, old, items, stops, committed, seized, original, rewound>>

AppendItem(w) ==
  /\ pc[w] = "appending" /\ Goes(w, "locking") /\ items' = items \cup {w}
  /\ UNCHANGED <<base, files, current, holder, old, stops, committed, seized, original, rewound>>

Lock(w) ==
  /\ pc[w] = "locking" /\ holder = "none"
  /\ holder' = w /\ old' = FALSE /\ Goes(w, "checking")
  /\ UNCHANGED <<base, files, current, items, stops, committed, seized, original, rewound>>

\* stat says that the lock is old; rm removes the one that is there by then.
FindStale(w) ==
  /\ pc[w] = "locking" /\ holder # "none" /\ old /\ Goes(w, "removing")
  /\ UNCHANGED <<base, files, current, holder, old, items, stops, committed, seized, original, rewound>>

RemoveStale(w) ==
  /\ pc[w] = "removing" /\ Goes(w, "locking")
  /\ seized' = (seized \/ (holder # "none" /\ pc[holder] # "gone"))
  /\ holder' = "none" /\ old' = FALSE
  /\ UNCHANGED <<base, files, current, items, stops, committed, original, rewound>>

\* A hundred attempts are a second, less than the lock of a dead writer lasts.
GiveUp(w) ==
  /\ pc[w] = "locking" /\ holder # "none" /\ ~old /\ Goes(w, "undoing")
  /\ UNCHANGED <<base, files, current, holder, old, items, stops, committed, seized, original, rewound>>

CommitsAnyway(w) == TRUE

IsStillActive(w) == current.rev = base[w]

Check(w) ==
  /\ pc[w] = "checking"
  /\ Goes(w, IF Mine(w) \in files /\ IsStillActive(w) THEN "writing" ELSE "conflict")
  /\ UNCHANGED <<base, files, current, holder, old, items, stops, committed, seized, original, rewound>>

WriteActive(w) ==
  /\ pc[w] = "writing" /\ Goes(w, "written")
  /\ current' = Mine(w) /\ committed' = committed \cup {Mine(w)}
  /\ UNCHANGED <<base, files, holder, old, items, stops, seized, original, rewound>>

\* rm by path, whoever holds it by now.
Unlock(w) ==
  /\ pc[w] \in {"written", "conflict"}
  /\ Goes(w, IF pc[w] = "written" THEN "done" ELSE "undoing")
  /\ seized' = (seized \/ holder \notin {"none", w})
  /\ holder' = "none" /\ old' = FALSE
  /\ UNCHANGED <<base, files, current, items, stops, committed, original, rewound>>

AsItWas(w) == original[w]

RewriteItems(w) ==
  /\ pc[w] = "undoing" /\ Goes(w, "aborting")
  /\ IF w \in Compaction
     THEN items' = AsItWas(w) /\ rewound' = (rewound \/ original[w] # items \ {w})
     ELSE UNCHANGED <<items, rewound>>
  /\ UNCHANGED <<base, files, current, holder, old, original, stops, committed, seized>>

Aborts(w) == {Mine(w)}

Abort(w) ==
  /\ pc[w] = "aborting" /\ files' = files \ Aborts(w) /\ Goes(w, "failed")
  /\ UNCHANGED <<base, current, holder, old, items, stops, committed, seized, original, rewound>>

WriterDies(w) ==
  /\ pc[w] \notin Ended \cup {"idle"} /\ stops < MaxStops /\ stops' = stops + 1 /\ Goes(w, "gone")
  /\ UNCHANGED <<base, files, current, holder, old, items, committed, seized, original, rewound>>

\* Ten seconds pass: a lock that nobody gives back is old, and so is that of a writer
\* that stalls.
Age ==
  /\ holder # "none" /\ ~old /\ old' = TRUE
  /\ IF pc[holder] = "gone" THEN stops' = stops ELSE stops < MaxStops /\ stops' = stops + 1
  /\ UNCHANGED <<pc, base, files, current, holder, items, committed, seized, original, rewound>>

Act(w) ==
  \/ Load(w) \/ ReadItems(w) \/ Prepare(w) \/ AppendItem(w) \/ Lock(w) \/ FindStale(w) \/ RemoveStale(w) \/ GiveUp(w)
  \/ Check(w) \/ WriteActive(w) \/ Unlock(w) \/ RewriteItems(w) \/ Abort(w)

Next == (\E w \in Writer : Act(w) \/ WriterDies(w)) \/ Age

Spec == Init /\ [][Next]_taskVars
-----------------------------------------------------------------------------
TypeOK ==
  /\ base \in [Writer -> 0 .. Cardinality(Writer)] /\ items \subseteq Compaction
  /\ holder \in Writer \cup {"none"} /\ stops \in 0 .. MaxStops

\* The active pointer names a revision that is there: an abort removes only what was
\* never committed, also when two writers prepared the same revision.
ActiveIsThere == current # Unset => current \in files

\* Two writers commit the same revision only when a lock was taken from a live writer.
RevisionsAreCommittedOnce ==
  \A a, b \in committed : a.rev = b.rev => a = b \/ seized

\* When a compaction is over, its item is in the session if and only if its revision was
\* committed, unless one that went back took its older copy of the session with it.
ItemFollowsRevision ==
  \A w \in Compaction : pc[w] \in {"done", "failed"} =>
    (w \in items <=> Mine(w) \in committed) \/ rewound

\* Pointer, revisions and session agree when writers and compactions overlap.
RevisionsAgree == TypeOK /\ ActiveIsThere /\ RevisionsAreCommittedOnce /\ ItemFollowsRevision
=============================================================================
