SPECIFICATION MCSpec
CONSTANTS
  Recorder = {r1, r2}
  Client = {c1}
  Key = {"k"}
  Plain = {Usage}
  NoKey = NoKey
  Usage = Usage
  MaxEvents = 3
  MaxRestarts = 1
  MaxBeats = 1
  MaxFile = 1
  AtOnce = 2
  MaxPlan = 2
  MaxCalls = 3
INVARIANTS RecordedOnceInOrder MissedOnlyInFlight
PROPERTIES LostOnlyByCompaction TodosFollowThePlan
SYMMETRY Symmetry
