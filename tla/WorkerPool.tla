----------------------------- MODULE WorkerPool -----------------------------
(***************************************************************************)
(* qiongqi worker --pool-size: runWorkerPool, which spawns one worker      *)
(* process per shard and spawns it anew, after a pause, when it exits,     *)
(* until it is told to shut down or a shard has been restarted too often.  *)
(*                                                                         *)
(* SpawnsAnyway is a way to get the next definition wrong.                 *)
(***************************************************************************)
EXTENDS Naturals, FiniteSets

CONSTANTS
  Shard,
  MaxRestarts, \* --max-restarts
  MaxExits     \* bound: workers that exit of themselves

\* parseWorkerPoolMaxRestarts.
ASSUME PoolAssumption == MaxRestarts \in Nat

VARIABLES
  pool,     \* where runWorkerPool is
  toSpawn,  \* shards of the plan without a first worker
  workers,  \* spawned worker processes: shard and number
  up,       \* the ones that have not exited
  noticed,  \* the ones whose exit event has been handled
  pausing,  \* shards in the pause before their next worker
  restarts, \* restartCounts
  stopping,
  signalled \* workers that were sent SIGTERM

poolVars == <<pool, toSpawn, workers, up, noticed, pausing, restarts, stopping, signalled>>

WorkersOf(s) == {w \in workers : w[1] = s}

PoolInit ==
  /\ pool = "spawning" /\ toSpawn = Shard /\ workers = {} /\ up = {} /\ noticed = {}
  /\ pausing = {} /\ restarts = [s \in Shard |-> 0] /\ stopping = FALSE /\ signalled = {}

SpawnShard(s) ==
  LET w == <<s, Cardinality(WorkersOf(s))>> IN workers' = workers \cup {w} /\ up' = up \cup {w}

SpawnFirst(s) ==
  /\ pool = "spawning" /\ s \in toSpawn /\ toSpawn' = toSpawn \ {s} /\ SpawnShard(s)
  /\ UNCHANGED <<pool, noticed, pausing, restarts, stopping, signalled>>
AllSpawned ==
  /\ pool = "spawning" /\ toSpawn = {} /\ pool' = "running"
  /\ UNCHANGED <<toSpawn, workers, up, noticed, pausing, restarts, stopping, signalled>>

\* The pool is over, with SIGTERM for every worker it ever had: the shutdown signal, a
\* spawn that throws, or a shard that exited too often.
Stop ==
  /\ pool' = "over" /\ stopping' = TRUE /\ signalled' = workers
  /\ UNCHANGED <<toSpawn, workers, up, restarts>>
ShutDown == pool = "running" /\ Stop /\ UNCHANGED <<noticed, pausing>>
SpawnThrows ==
  \/ pool = "spawning" /\ toSpawn # {} /\ Stop /\ UNCHANGED <<noticed, pausing>>
  \/ pool = "running" /\ \E s \in pausing : pausing' = pausing \ {s} /\ Stop /\ UNCHANGED noticed

\* Before it has spawned them all nothing catches a signal.
KilledEarly ==
  /\ pool = "spawning" /\ pool' = "killed"
  /\ UNCHANGED <<toSpawn, workers, up, noticed, pausing, restarts, stopping, signalled>>

WorkerExits(w) ==
  /\ w \in up /\ up' = up \ {w}
  /\ w \in signalled \/ Cardinality(workers \ up) < MaxExits
  /\ UNCHANGED <<pool, toSpawn, workers, noticed, pausing, restarts, stopping, signalled>>

\* The handler of the exit event, and the end of its pause.
Notice(w) ==
  /\ pool \in {"running", "over"} /\ w \in workers \ (up \cup noticed) /\ noticed' = noticed \cup {w}
  /\ \/ stopping /\ UNCHANGED <<pool, toSpawn, workers, up, pausing, restarts, stopping, signalled>>
     \/ /\ ~stopping /\ restarts[w[1]] >= MaxRestarts
        /\ Stop /\ UNCHANGED pausing
     \/ /\ ~stopping /\ restarts[w[1]] < MaxRestarts
        /\ restarts' = [restarts EXCEPT ![w[1]] = @ + 1] /\ pausing' = pausing \cup {w[1]}
        /\ UNCHANGED <<pool, toSpawn, workers, up, stopping, signalled>>

SpawnsAnyway == TRUE
SpawnsAgain == ~stopping

Respawn(s) ==
  /\ s \in pausing /\ pausing' = pausing \ {s}
  /\ IF SpawnsAgain THEN SpawnShard(s) ELSE UNCHANGED <<workers, up>>
  /\ UNCHANGED <<pool, toSpawn, noticed, restarts, stopping, signalled>>

Tend == (\E s \in Shard : Respawn(s)) \/ (\E w \in workers : Notice(w))

PoolNext ==
  \/ \E s \in Shard : SpawnFirst(s)
  \/ \E w \in workers : WorkerExits(w)
  \/ AllSpawned \/ ShutDown \/ SpawnThrows \/ KilledEarly \/ Tend

PoolSpec == PoolInit /\ [][PoolNext]_poolVars /\ WF_poolVars(Tend)
-----------------------------------------------------------------------------
\* A shard has one worker at a time; a pool that runs has one for each shard, has one about
\* to come, or has yet to hear of its exit; and one that is over has told every worker.
OneWorkerPerShard == \A s \in Shard : Cardinality(WorkersOf(s) \cap up) <= 1
EveryShardIsServed ==
  pool = "running" =>
    \A s \in Shard : s \in pausing \/ WorkersOf(s) \cap up # {} \/ WorkersOf(s) \ (up \cup noticed) # {}
NoWorkerIsLeft == pool = "over" => up \subseteq signalled
RestartsAreFew == \A s \in Shard : Cardinality(WorkersOf(s)) <= MaxRestarts + 1

PoolKeepsItsWorkers == OneWorkerPerShard /\ EveryShardIsServed /\ NoWorkerIsLeft /\ RestartsAreFew

\* A shard whose worker exits has another one, or the pool is over.
ShardComesBack ==
  \A s \in Shard :
    pool = "running" /\ WorkersOf(s) \cap up = {} ~> WorkersOf(s) \cap up # {} \/ pool = "over"
=============================================================================
