-------------------------- MODULE RoundAuditProofs ---------------------------
(***************************************************************************)
(* Proofs about RoundAudit, for any number of rounds, any round ids and    *)
(* any pool of tracks.                                                     *)
(***************************************************************************)
EXTENDS RoundAudit, TLAPS

Saving == {"temp", "copied", "manifest"}

\* Where the Godot process of a job can be when the job is where it is.
ProcessFollows(j) ==
  /\ jPc[j] \in {"off", "prepared"} => gPc[j] = "off"
  /\ jPc[j] = "running" => gPc[j] \notin {"off", "gone"}
  /\ jPc[j] \in {"result", "saved"} \cup Saving => gPc[j] = "gone"

\* What Save has in its hands, from the status file to the finished entry.
SaveHolds(j) ==
  /\ jPc[j] \in {"result"} \cup Saving => result[j] \in Status /\ result[j].ok
  /\ jPc[j] \in Saving => tmp[j] \in Entry /\ copied[j] \in Blob
  /\ jPc[j] \in {"copied", "manifest"} => tmp[j].replay = copied[j]
  /\ jPc[j] = "manifest" => tmp[j].manifest = result[j] /\ tmp[j].sha = copied[j]

Own(j, blob) == blob \in Blob /\ blob.by = j /\ blob.size # "open"

\* What a job that is alone finds in its work directory, or has taken from it.
OwnFiles(j) ==
  alone[j] =>
    /\ jPc[j] = "prepared" => status[jId[j]] = None /\ replay[jId[j]] = None
    /\ jPc[j] = "running" =>
         /\ gPc[j] \in {"racing", "writing", "written"} => status[jId[j]] = None
         /\ gPc[j] = "racing" => replay[jId[j]] = None
         /\ gPc[j] = "writing" => replay[jId[j]] = [by |-> j, size |-> "open"]
         /\ gPc[j] \in {"written", "exited"} => Own(j, replay[jId[j]])
         /\ gPc[j] = "exited" => (status[jId[j]] # None => status[jId[j]].by = j)
    /\ jPc[j] \in {"result", "temp"} => Own(j, replay[jId[j]])
    /\ jPc[j] \in {"result"} \cup Saving => result[j].by = j
    /\ jPc[j] \in Saving => Own(j, copied[j])

\* What a job that has saved has left in the store: something, and its own race
\* if it was alone.
StoredFor(j) ==
  jPc[j] = "saved" =>
    /\ store[jId[j]] # None
    /\ alone[j] => /\ store[jId[j]].manifest.by = j /\ store[jId[j]].replay.by = j
                   /\ store[jId[j]].replay.size # "open"

JobInv(j) == ProcessFollows(j) /\ SaveHolds(j) /\ OwnFiles(j) /\ StoredFor(j)

\* A job that is still alone shares its work directory with no one.
AloneIsAlone ==
  \A j, k \in Jobs :
    alone[j] /\ j # k /\ jId[j] = jId[k] /\ InWorkDir(j) => ~InWorkDir(k)

\* roundd runs one round after the other.
OneAtATime ==
  roundd => \A j \in Jobs : \A k \in 1..(j - 1) :
              jPc[j] # "off" => jPc[k] \in Ended \ {"off"}

\* The track of the round that runs is not the one of the round stored last.
TrackIsNew ==
  /\ roundd => \A j \in Jobs : jPc[j] \notin Ended => track \in SelectTrack
  /\ aired # <<>> => previous = aired[Len(aired)]

LoopInv == OneAtATime /\ TrackIsNew /\ AiredTracksAlternate

AuditInv ==
  TypeOK /\ VisibleIsVerified /\ AloneIsAlone /\ LoopInv /\ \A j \in Jobs : JobInv(j)

JobPoints == {"off", "prepared", "running", "result", "temp", "copied", "manifest", "saved",
              "failed", "dead"}
SimPoints == {"off", "racing", "writing", "written", "exited", "crashed", "gone"}
-----------------------------------------------------------------------------
(* What a step of one job does to the others.                              *)

\* At the start nothing has begun.
LEMMA InitInv == Init => AuditInv
<1> SUFFICES ASSUME Init PROVE AuditInv
  OBVIOUS
<1>1. TypeOK
  BY DEF Init, TypeOK
<1>2. VisibleIsVerified /\ AloneIsAlone /\ \A j \in Jobs : JobInv(j)
  BY DEF Init, VisibleIsVerified, AloneIsAlone, InWorkDir, Alive, Ended, JobInv, ProcessFollows,
         SaveHolds, OwnFiles, StoredFor, Saving
<1>3. OneAtATime
  <2> SUFFICES ASSUME NEW j \in Jobs PROVE jPc[j] = "off"
    BY DEF OneAtATime
  <2> QED BY DEF Init
<1>4. TrackIsNew /\ AiredTracksAlternate
  BY DEF Init, TrackIsNew, Ended, AiredTracksAlternate
<1> QED BY <1>1, <1>2, <1>3, <1>4 DEF AuditInv, LoopInv

\* A job of which nothing changes but that others come into its work directory
\* and that rounds are added to the store.
LEMMA OtherJob ==
  ASSUME NEW k \in Jobs, JobInv(k), jId \in [Jobs -> RoundIds],
         jPc'[k] = jPc[k], gPc'[k] = gPc[k], result'[k] = result[k], copied'[k] = copied[k],
         tmp'[k] = tmp[k], jId' = jId, alone'[k] => alone[k],
         alone'[k] /\ InWorkDir(k) => /\ status'[jId[k]] = status[jId[k]]
                                      /\ replay'[jId[k]] = replay[jId[k]],
         \A r \in RoundIds : store[r] # None => store'[r] = store[r]
  PROVE  JobInv(k)'
<1>1. ProcessFollows(k)' /\ SaveHolds(k)'
  BY DEF JobInv, ProcessFollows, SaveHolds
<1>2. OwnFiles(k)'
  BY DEF JobInv, OwnFiles, InWorkDir, Ended, Saving, Own
<1>3. StoredFor(k)'
  BY DEF JobInv, StoredFor
<1> QED BY <1>1, <1>2, <1>3 DEF JobInv

\* The loop goes on as long as no job begins and none is stored.
LEMMA LoopFrame ==
  ASSUME LoopInv, UNCHANGED loopVars,
         \A k \in Jobs : /\ jPc[k] \in Ended \ {"off"} => jPc'[k] \in Ended \ {"off"}
                         /\ jPc[k] = "off" => jPc'[k] = "off"
  PROVE  LoopInv'
<1> USE DEF LoopInv, loopVars
<1>1. OneAtATime'
  <2> SUFFICES ASSUME roundd, NEW j \in Jobs, NEW k \in 1..(j - 1), jPc'[j] # "off"
               PROVE  jPc'[k] \in Ended \ {"off"}
    BY DEF OneAtATime, Ended
  <2>1. k \in Jobs
    BY JobsAssumption DEF Jobs
  <2>2. jPc[k] \in Ended \ {"off"}
    BY DEF OneAtATime
  <2> QED BY <2>1, <2>2
<1>2. TrackIsNew' /\ AiredTracksAlternate'
  BY DEF TrackIsNew, SelectTrack, AiredTracksAlternate, Ended
<1> QED BY <1>1, <1>2

\* A step of a job that is in its work directory, or of its Godot process,
\* disturbs no other job.
LEMMA StepFrame ==
  ASSUME AuditInv, NEW j \in Jobs, TypeOK', JobInv(j)', InWorkDir(j),
         UNCHANGED <<loopVars, jId, alone, store>>,
         \A k \in Jobs \ {j} :
           /\ jPc'[k] = jPc[k] /\ gPc'[k] = gPc[k] /\ result'[k] = result[k]
           /\ copied'[k] = copied[k] /\ tmp'[k] = tmp[k],
         \A r \in RoundIds \ {jId[j]} : status'[r] = status[r] /\ replay'[r] = replay[r],
         jPc[j] \in Ended => jPc'[j] = jPc[j]
  PROVE  AuditInv'
<1>1. \A k \in Jobs \ {j} : InWorkDir(k)' <=> InWorkDir(k)
  BY DEF InWorkDir, Alive
<1>2. AloneIsAlone'
  BY <1>1 DEF AuditInv, AloneIsAlone
<1>3. \A k \in Jobs \ {j} : JobInv(k)'
  <2> SUFFICES ASSUME NEW k \in Jobs \ {j} PROVE JobInv(k)'
    OBVIOUS
  <2>1. alone[k] /\ InWorkDir(k) => jId[k] # jId[j]
    BY DEF AuditInv, AloneIsAlone
  <2>2. JobInv(k) /\ jId \in [Jobs -> RoundIds]
    BY DEF AuditInv, TypeOK
  <2> QED BY <2>1, <2>2, OtherJob
<1>4. LoopInv'
  BY LoopFrame DEF AuditInv, Ended
<1>5. VisibleIsVerified'
  BY DEF AuditInv, VisibleIsVerified
<1> QED BY <1>2, <1>3, <1>4, <1>5 DEF AuditInv
-----------------------------------------------------------------------------
(* sim.Run.                                                                *)

\* The ways sim.Run fails, each of which leaves the files as they are.
LEMMA RunFailsInv ==
  ASSUME AuditInv, NEW j \in Jobs,
         CannotSpawn(j) \/ Timeout(j) \/ SeeCrash(j) \/ NoStatus(j) \/ CallerFails(j) \/ RefuseSave(j)
  PROVE  AuditInv'
<1>1. /\ jPc[j] \in {"prepared", "running", "result"} /\ jPc' = [jPc EXCEPT ![j] = "failed"]
      /\ gPc' = gPc \/ gPc' = [gPc EXCEPT ![j] = "gone"]
      /\ UNCHANGED <<loopVars, jId, alone, result, copied, filesVars, storeVars>>
  BY DEF CannotSpawn, Timeout, SeeCrash, NoStatus, CallerFails, RefuseSave, RunMoves, JobMoves,
         SaveMoves, loopVars
<1>2. TypeOK /\ tmp[j] = tmp'[j]
  BY <1>1 DEF AuditInv, storeVars
<1>3. TypeOK'
  <2>1. jPc' \in [Jobs -> JobPoints] /\ gPc' \in [Jobs -> SimPoints]
    BY <1>1, <1>2 DEF TypeOK, JobPoints, SimPoints
  <2>2. \A k \in Jobs : tmp[k] # None => jPc'[k] \in {"temp", "copied", "manifest", "dead"}
    BY <1>1, <1>2 DEF TypeOK
  <2> QED BY <1>1, <1>2, <2>1, <2>2
          DEF TypeOK, JobPoints, SimPoints, loopVars, filesVars, storeVars
<1>4. JobInv(j)'
  BY <1>1, <1>2 DEF TypeOK, JobInv, ProcessFollows, SaveHolds, OwnFiles, StoredFor, Saving
<1>5. \A k \in Jobs \ {j} : jPc'[k] = jPc[k] /\ gPc'[k] = gPc[k]
  BY <1>1, <1>2 DEF TypeOK
<1>6. InWorkDir(j) /\ jPc[j] \notin Ended
  BY <1>1 DEF InWorkDir, Ended
<1> QED BY <1>1, <1>3, <1>4, <1>5, <1>6, StepFrame DEF filesVars, storeVars

\* The process is started.
LEMMA SpawnInv ==
  ASSUME AuditInv, NEW j \in Jobs, Spawn(j)
  PROVE  AuditInv'
<1>1. /\ jPc[j] = "prepared" /\ jPc' = [jPc EXCEPT ![j] = "running"]
      /\ gPc' = [gPc EXCEPT ![j] = "racing"]
      /\ UNCHANGED <<loopVars, jId, alone, result, copied, filesVars, storeVars>>
  BY DEF Spawn, RunMoves, JobMoves, loopVars
<1>2. TypeOK /\ JobInv(j)
  BY DEF AuditInv
<1>3. TypeOK'
  <2>1. jPc' \in [Jobs -> JobPoints] /\ gPc' \in [Jobs -> SimPoints]
    BY <1>1, <1>2 DEF TypeOK, JobPoints, SimPoints
  <2>2. \A k \in Jobs : tmp[k] # None => jPc'[k] \in {"temp", "copied", "manifest", "dead"}
    BY <1>1, <1>2 DEF TypeOK
  <2> QED BY <1>1, <1>2, <2>1, <2>2
          DEF TypeOK, JobPoints, SimPoints, loopVars, filesVars, storeVars
<1>4. JobInv(j)'
  BY <1>1, <1>2
  DEF TypeOK, JobInv, ProcessFollows, SaveHolds, OwnFiles, StoredFor, Saving, filesVars, storeVars
<1>5. \A k \in Jobs \ {j} : jPc'[k] = jPc[k] /\ gPc'[k] = gPc[k]
  BY <1>1, <1>2 DEF TypeOK
<1>6. InWorkDir(j) /\ jPc[j] \notin Ended
  BY <1>1 DEF InWorkDir, Ended
<1> QED BY <1>1, <1>3, <1>4, <1>5, <1>6, StepFrame DEF filesVars, storeVars

\* Exit code 0 and a status file that tells of a winner.
LEMMA ReadStatusInv ==
  ASSUME AuditInv, NEW j \in Jobs, ReadStatus(j)
  PROVE  AuditInv'
<1>1. /\ jPc[j] = "running" /\ jPc' = [jPc EXCEPT ![j] = "result"]
      /\ gPc[j] = "exited" /\ gPc' = [gPc EXCEPT ![j] = "gone"]
      /\ status[jId[j]] # None /\ status[jId[j]].ok
      /\ result' = [result EXCEPT ![j] = status[jId[j]]]
      /\ UNCHANGED <<loopVars, jId, alone, copied, filesVars, storeVars>>
  BY DEF ReadStatus, RunMoves, JobMoves, loopVars
<1>2. TypeOK /\ JobInv(j)
  BY DEF AuditInv
<1>3. status[jId[j]] \in Status
  BY <1>1, <1>2 DEF TypeOK
<1>4. TypeOK'
  <2>1. jPc' \in [Jobs -> JobPoints] /\ gPc' \in [Jobs -> SimPoints]
    BY <1>1, <1>2 DEF TypeOK, JobPoints, SimPoints
  <2>2. \A k \in Jobs : tmp[k] # None => jPc'[k] \in {"temp", "copied", "manifest", "dead"}
    BY <1>1, <1>2 DEF TypeOK
  <2>3. result' \in [Jobs -> Status \cup {None}]
    BY <1>1, <1>2, <1>3 DEF TypeOK
  <2> QED BY <1>1, <1>2, <2>1, <2>2, <2>3
          DEF TypeOK, JobPoints, SimPoints, loopVars, filesVars, storeVars
<1>5. JobInv(j)'
  BY <1>1, <1>2, <1>3
  DEF TypeOK, JobInv, ProcessFollows, SaveHolds, OwnFiles, StoredFor, Saving, Own, filesVars, storeVars
<1>6. \A k \in Jobs \ {j} : jPc'[k] = jPc[k] /\ gPc'[k] = gPc[k] /\ result'[k] = result[k]
  BY <1>1, <1>2 DEF TypeOK
<1>7. InWorkDir(j) /\ jPc[j] \notin Ended
  BY <1>1 DEF InWorkDir, Ended
<1> QED BY <1>1, <1>4, <1>5, <1>6, <1>7, StepFrame DEF filesVars, storeVars
-----------------------------------------------------------------------------
(* The Godot process.                                                      *)

\* Whether its job still waits or has died, the process writes in its own
\* directory only.
LEMMA GodotInv ==
  ASSUME AuditInv, NEW j \in Jobs, GodotStep(j)
  PROVE  AuditInv'
<1>1. /\ Alive(j) /\ UNCHANGED <<loopVars, jPc, jId, alone, result, copied, storeVars>>
      /\ \E to \in {"writing", "written", "exited", "crashed"} : gPc' = [gPc EXCEPT ![j] = to]
  BY DEF GodotStep, OpenReplay, WriteReplay, WriteStatus, SkipStatus, GodotCrashes, SimMoves, Alive
<1>2. TypeOK /\ JobInv(j)
  BY DEF AuditInv
<1>3. /\ \A k \in Jobs \ {j} : gPc'[k] = gPc[k]
      /\ gPc' \in [Jobs -> SimPoints] /\ gPc'[j] \in {"writing", "written", "exited", "crashed"}
  BY <1>1, <1>2 DEF TypeOK, SimPoints
<1>4. /\ status' \in [RoundIds -> Status \cup {None}] /\ replay' \in [RoundIds -> Blob \cup {None}]
      /\ \A r \in RoundIds \ {jId[j]} : status'[r] = status[r] /\ replay'[r] = replay[r]
      /\ OwnFiles(j)'
  <2>0. jId[j] \in RoundIds /\ gPc'[j] # gPc[j] /\ jId' = jId /\ alone' = alone /\ jPc' = jPc
    BY <1>1, <1>2, <1>3 DEF TypeOK, SimPoints, GodotStep, OpenReplay, WriteReplay, WriteStatus,
       SkipStatus, GodotCrashes, SimMoves, Alive
  <2>1. CASE OpenReplay(j)
    <3>1. PICK blob \in Blob : blob = [by |-> j, size |-> "open"]
      BY DEF Blob
    <3>2. /\ gPc[j] = "racing" /\ gPc'[j] = "writing"
          /\ replay' = [replay EXCEPT ![jId[j]] = blob] /\ status' = status
      BY <1>2, <2>1, <3>1 DEF OpenReplay, SimMoves, TypeOK
    <3>3. /\ replay' \in [RoundIds -> Blob \cup {None}] /\ replay'[jId[j]] = blob
          /\ \A r \in RoundIds \ {jId[j]} : replay'[r] = replay[r]
      BY <1>2, <2>0, <3>2 DEF TypeOK
    <3>4. OwnFiles(j)'
      BY <1>2, <2>0, <3>1, <3>2, <3>3 DEF JobInv, OwnFiles, ProcessFollows, Saving
    <3> QED BY <1>2, <3>2, <3>3, <3>4 DEF TypeOK
  <2>2. CASE WriteReplay(j)
    <3>1. PICK size \in {"whole", "short"} :
            replay' = [replay EXCEPT ![jId[j]] =
                         IF @ = None THEN None
                         ELSE [by |-> j, size |-> IF @.by = j THEN size ELSE "short"]]
      BY <2>2 DEF WriteReplay
    <3>2. \A z \in {"whole", "short"} : [by |-> j, size |-> z] \in Blob
      BY DEF Blob
    <3>3. gPc[j] = "writing" /\ gPc'[j] = "written" /\ status' = status
      BY <1>2, <2>2 DEF WriteReplay, SimMoves, TypeOK
    <3>4. PICK blob \in Blob \cup {None} : replay' = [replay EXCEPT ![jId[j]] = blob]
      BY <3>1, <3>2
    <3>5. /\ replay' \in [RoundIds -> Blob \cup {None}] /\ replay'[jId[j]] = blob
          /\ \A r \in RoundIds \ {jId[j]} : replay'[r] = replay[r]
      BY <1>2, <2>0, <3>4 DEF TypeOK
    <3>6. replay[jId[j]] = [by |-> j, size |-> "open"] => Own(j, blob)
      <4> SUFFICES ASSUME replay[jId[j]] = [by |-> j, size |-> "open"] PROVE Own(j, blob)
        OBVIOUS
      <4>1. replay[jId[j]] \in Blob /\ replay[jId[j]].by = j
        BY DEF Blob
      <4>2. replay[jId[j]] # None
        BY <4>1, NoneAssumption
      <4>3. blob = [by |-> j, size |-> size]
        BY <1>2, <2>0, <3>1, <3>5, <4>1, <4>2 DEF TypeOK
      <4> QED BY <3>2, <4>3 DEF Own
    <3>7. OwnFiles(j)'
      BY <1>2, <2>0, <3>3, <3>5, <3>6 DEF JobInv, OwnFiles, ProcessFollows, Saving
    <3> QED BY <1>2, <3>3, <3>5, <3>7 DEF TypeOK
  <2>3. CASE WriteStatus(j)
    <3>1. PICK rec \in Status : rec.by = j /\ status' = [status EXCEPT ![jId[j]] = rec]
      BY <2>3 DEF WriteStatus, Status
    <3>2. gPc[j] = "written" /\ gPc'[j] = "exited" /\ replay' = replay
      BY <1>2, <2>3 DEF WriteStatus, SimMoves, TypeOK
    <3>3. /\ status' \in [RoundIds -> Status \cup {None}] /\ status'[jId[j]] = rec
          /\ \A r \in RoundIds \ {jId[j]} : status'[r] = status[r]
      BY <1>2, <2>0, <3>1 DEF TypeOK
    <3>4. OwnFiles(j)'
      BY <1>2, <2>0, <3>1, <3>2, <3>3 DEF JobInv, OwnFiles, ProcessFollows, Saving, Own
    <3> QED BY <1>2, <3>2, <3>3, <3>4 DEF TypeOK
  <2>4. CASE SkipStatus(j) \/ GodotCrashes(j)
    <3>1. UNCHANGED filesVars
      BY <2>4 DEF SkipStatus, GodotCrashes
    <3>2. (gPc[j] = "written" /\ gPc'[j] = "exited") \/ gPc'[j] = "crashed"
      BY <1>2, <2>4 DEF SkipStatus, GodotCrashes, SimMoves, TypeOK
    <3>3. OwnFiles(j)'
      <4> USE DEF JobInv, OwnFiles, filesVars
      <4>1. CASE gPc[j] = "written" /\ gPc'[j] = "exited"
        BY <1>1, <1>2, <2>0, <3>1, <4>1 DEF Own
      <4>2. CASE gPc'[j] = "crashed"
        BY <1>1, <1>2, <2>0, <3>1, <4>2 DEF Own
      <4> QED BY <3>2, <4>1, <4>2
    <3> QED BY <1>2, <3>1, <3>3 DEF TypeOK, filesVars
  <2> QED BY <2>1, <2>2, <2>3, <2>4 DEF GodotStep
<1>5. TypeOK'
  BY <1>1, <1>2, <1>3, <1>4 DEF TypeOK, SimPoints, loopVars, storeVars
<1>6. JobInv(j)'
  BY <1>1, <1>2, <1>3, <1>4 DEF JobInv, ProcessFollows, SaveHolds, StoredFor, Saving, Alive, storeVars
<1> QED BY <1>1, <1>3, <1>4, <1>5, <1>6, StepFrame DEF storeVars, InWorkDir
-----------------------------------------------------------------------------
(* Store.Save.                                                             *)

\* The steps of Save before the rename, of which only the job's own temporary
\* directory and what it has copied change.
LEMMA SaveFrame ==
  ASSUME AuditInv, NEW j \in Jobs, NEW to \in {"temp", "copied", "manifest", "failed"},
         jPc[j] \in {"result"} \cup Saving, SaveMoves(j, jPc[j], to),
         NEW t \in Entry \cup {None}, tmp' = [tmp EXCEPT ![j] = t],
         NEW c \in Blob \cup {None}, copied' = [copied EXCEPT ![j] = c],
         to = "failed" => t = None, UNCHANGED store,
         SaveHolds(j)', OwnFiles(j)'
  PROVE  AuditInv'
<1>1. /\ jPc' = [jPc EXCEPT ![j] = to]
      /\ UNCHANGED <<loopVars, jId, alone, result, gPc, filesVars, store>>
  BY DEF SaveMoves, RunMoves, JobMoves, loopVars
<1>2. TypeOK /\ JobInv(j)
  BY DEF AuditInv
<1>3. TypeOK'
  <2>1. jPc' \in [Jobs -> JobPoints]
    BY <1>1, <1>2 DEF TypeOK, JobPoints
  <2>2. tmp' \in [Jobs -> Entry \cup {None}] /\ copied' \in [Jobs -> Blob \cup {None}]
    BY <1>2 DEF TypeOK
  <2>3. \A k \in Jobs : tmp'[k] # None => jPc'[k] \in {"temp", "copied", "manifest", "dead"}
    BY <1>1, <1>2 DEF TypeOK
  <2> QED BY <1>1, <1>2, <2>1, <2>2, <2>3 DEF TypeOK, JobPoints, loopVars, filesVars
<1>4. JobInv(j)'
  BY <1>1, <1>2 DEF TypeOK, JobInv, ProcessFollows, StoredFor, Saving
<1>5. \A k \in Jobs \ {j} : jPc'[k] = jPc[k] /\ tmp'[k] = tmp[k] /\ copied'[k] = copied[k]
  BY <1>1, <1>2 DEF TypeOK
<1>6. InWorkDir(j) /\ jPc[j] \notin Ended
  BY DEF InWorkDir, Ended, Saving
<1> QED BY <1>1, <1>3, <1>4, <1>5, <1>6, StepFrame DEF filesVars

\* The replay is opened, and the temporary directory made.
LEMMA MakeTempInv ==
  ASSUME AuditInv, NEW j \in Jobs, MakeTemp(j)
  PROVE  AuditInv'
<1>1. /\ jPc[j] = "result" /\ jPc' = [jPc EXCEPT ![j] = "temp"]
      /\ tmp' = [tmp EXCEPT ![j] = NoEntry] /\ copied' = [copied EXCEPT ![j] = replay[jId[j]]]
      /\ replay[jId[j]] # None
      /\ UNCHANGED <<jId, alone, result, gPc, status, replay, store>>
  BY DEF MakeTemp, SaveMoves, RunMoves, JobMoves, filesVars
<1>2. TypeOK /\ JobInv(j)
  BY DEF AuditInv
<1>3. NoEntry \in Entry /\ replay[jId[j]] \in Blob
  BY <1>1, <1>2 DEF NoEntry, Entry, TypeOK
<1>4. jPc'[j] = "temp" /\ tmp'[j] = NoEntry /\ copied'[j] = replay[jId[j]]
  BY <1>1, <1>2 DEF TypeOK
<1>5. SaveHolds(j)'
  BY <1>1, <1>2, <1>3, <1>4 DEF JobInv, SaveHolds, Saving
<1>6. OwnFiles(j)'
  BY <1>1, <1>2, <1>4 DEF JobInv, OwnFiles, Saving, Own
<1> QED BY <1>1, <1>3, <1>5, <1>6, SaveFrame DEF MakeTemp

\* Copied from the file as it was opened, or as it is by now.
LEMMA CopyReplayInv ==
  ASSUME AuditInv, NEW j \in Jobs, CopyReplay(j)
  PROVE  AuditInv'
<1>1. /\ jPc[j] = "temp" /\ jPc' = [jPc EXCEPT ![j] = "copied"]
      /\ UNCHANGED <<jId, alone, result, gPc, status, replay, store>>
  BY DEF CopyReplay, SaveMoves, RunMoves, JobMoves, filesVars
<1>2. TypeOK /\ JobInv(j)
  BY DEF AuditInv
<1>3. PICK blob \in {copied[j], replay[jId[j]]} \ {None} :
        /\ tmp' = [tmp EXCEPT ![j] = [@ EXCEPT !.replay = blob]]
        /\ copied' = [copied EXCEPT ![j] = blob]
  BY DEF CopyReplay
<1>4. blob \in Blob /\ tmp[j] \in Entry
  BY <1>1, <1>2, <1>3 DEF TypeOK, JobInv, SaveHolds, Saving
<1>5. PICK t \in Entry : t = [tmp[j] EXCEPT !.replay = blob] /\ t.replay = blob
  <2>1. PICK m \in Status \cup {None}, h \in Blob \cup {None}, r \in Blob \cup {None} :
          tmp[j] = [manifest |-> m, sha |-> h, replay |-> r]
    BY <1>4 DEF Entry
  <2>2. [tmp[j] EXCEPT !.replay = blob] = [manifest |-> m, sha |-> h, replay |-> blob]
    BY <2>1
  <2> QED BY <1>4, <2>2 DEF Entry
<1>6. tmp' = [tmp EXCEPT ![j] = t] /\ tmp'[j] = t /\ copied'[j] = blob /\ jPc'[j] = "copied"
  BY <1>1, <1>2, <1>3, <1>5 DEF TypeOK
<1>7. SaveHolds(j)'
  BY <1>1, <1>2, <1>4, <1>5, <1>6 DEF JobInv, SaveHolds, Saving
<1>8. OwnFiles(j)'
  BY <1>1, <1>2, <1>3, <1>6 DEF JobInv, OwnFiles, Saving, Own
<1> QED BY <1>1, <1>3, <1>4, <1>6, <1>7, <1>8, SaveFrame DEF CopyReplay, Saving

\* The hash is the one of the copy, not of the file in the work directory.
LEMMA WriteManifestInv ==
  ASSUME AuditInv, NEW j \in Jobs, WriteManifest(j)
  PROVE  AuditInv'
<1>1. /\ jPc[j] = "copied" /\ jPc' = [jPc EXCEPT ![j] = "manifest"]
      /\ tmp' = [tmp EXCEPT ![j] = [@ EXCEPT !.manifest = result[j], !.sha = copied[j]]]
      /\ UNCHANGED <<jId, alone, result, gPc, copied, status, replay, store>>
  BY DEF WriteManifest, SaveMoves, RunMoves, JobMoves, filesVars
<1>2. TypeOK /\ JobInv(j)
  BY DEF AuditInv
<1>3. tmp[j] \in Entry /\ copied[j] \in Blob /\ result[j] \in Status /\ tmp[j].replay = copied[j]
  BY <1>1, <1>2 DEF JobInv, SaveHolds, Saving
<1>4. PICK t \in Entry : /\ t = [tmp[j] EXCEPT !.manifest = result[j], !.sha = copied[j]]
                         /\ t.manifest = result[j] /\ t.sha = copied[j] /\ t.replay = copied[j]
  <2> DEFINE e == [tmp[j] EXCEPT !.manifest = result[j], !.sha = copied[j]]
  <2>1. e \in Entry
    BY <1>3 DEF Entry
  <2>2. e.manifest = result[j] /\ e.sha = copied[j] /\ e.replay = tmp[j].replay
    BY <1>3 DEF Entry
  <2> QED BY <1>3, <2>1, <2>2
<1>5. tmp' = [tmp EXCEPT ![j] = t] /\ tmp'[j] = t /\ jPc'[j] = "manifest"
  BY <1>1, <1>2, <1>4 DEF TypeOK
<1>6. SaveHolds(j)'
  BY <1>1, <1>2, <1>4, <1>5 DEF JobInv, SaveHolds, Saving
<1>7. OwnFiles(j)'
  BY <1>1, <1>2, <1>5 DEF JobInv, OwnFiles, Saving, Own
<1>8. copied' = [copied EXCEPT ![j] = copied[j]]
  BY <1>1, <1>2 DEF TypeOK
<1> QED BY <1>1, <1>3, <1>5, <1>6, <1>7, <1>8, SaveFrame DEF WriteManifest, Saving

\* The deferred removal of the temporary directory.
LEMMA SaveFailsInv ==
  ASSUME AuditInv, NEW j \in Jobs, SaveFails(j)
  PROVE  AuditInv'
<1>1. TypeOK /\ JobInv(j)
  BY DEF AuditInv
<1>2. jPc'[j] = "failed" /\ copied' = [copied EXCEPT ![j] = copied[j]]
      /\ copied[j] \in Blob \cup {None}
  BY <1>1 DEF TypeOK, SaveFails, SaveMoves, RunMoves, JobMoves
<1>3. SaveHolds(j)' /\ OwnFiles(j)'
  BY <1>2 DEF SaveHolds, OwnFiles, Saving
<1> QED BY <1>2, <1>3, SaveFrame DEF SaveFails, Saving

\* The rename, which is refused when the round is there; roundd's loop goes on
\* with the track it picked.
LEMMA RenameInv ==
  ASSUME AuditInv, NEW j \in Jobs, Rename(j)
  PROVE  AuditInv'
<1>1. /\ jPc[j] = "manifest" /\ jPc' = [jPc EXCEPT ![j] = "saved"] /\ store[jId[j]] = None
      /\ store' = [store EXCEPT ![jId[j]] = tmp[j]] /\ tmp' = [tmp EXCEPT ![j] = None]
      /\ IF roundd THEN previous' = track /\ aired' = Append(aired, track)
                   ELSE UNCHANGED <<previous, aired>>
      /\ UNCHANGED <<roundd, track, jId, alone, result, copied, gPc, status, replay>>
  BY DEF Rename, Stored, JobMoves, filesVars
<1>2. TypeOK /\ JobInv(j) /\ LoopInv /\ jId[j] \in RoundIds
  BY DEF AuditInv, TypeOK
<1>3. /\ tmp[j] \in Entry /\ copied[j] \in Blob /\ result[j] \in Status /\ result[j].ok
      /\ tmp[j].replay = copied[j] /\ tmp[j].manifest = result[j] /\ tmp[j].sha = copied[j]
  BY <1>1, <1>2 DEF JobInv, SaveHolds, Saving
<1>4. /\ store'[jId[j]] = tmp[j] /\ \A r \in RoundIds \ {jId[j]} : store'[r] = store[r]
      /\ jPc'[j] = "saved" /\ tmp'[j] = None
      /\ \A k \in Jobs \ {j} : jPc'[k] = jPc[k] /\ tmp'[k] = tmp[k]
  BY <1>1, <1>2 DEF TypeOK
<1>5. roundd => track \in SelectTrack
  BY <1>1, <1>2 DEF LoopInv, TrackIsNew, Ended
<1>6. TypeOK'
  <2>1. jPc' \in [Jobs -> JobPoints]
    BY <1>1, <1>2 DEF TypeOK, JobPoints
  <2>2. tmp' \in [Jobs -> Entry \cup {None}] /\ store' \in [RoundIds -> Entry \cup {None}]
    BY <1>1, <1>2, <1>3 DEF TypeOK
  <2>3. \A k \in Jobs : tmp'[k] # None => jPc'[k] \in {"temp", "copied", "manifest", "dead"}
    BY <1>2, <1>4 DEF TypeOK
  <2>4. previous' \in Tracks \cup {None} /\ aired' \in Seq(Tracks)
    BY SMTT(30), <1>1, <1>2, <1>5 DEF TypeOK, SelectTrack
  <2> QED BY <1>1, <1>2, <2>1, <2>2, <2>3, <2>4 DEF TypeOK, JobPoints
<1>7. VisibleIsVerified'
  <2>1. result[j] # None /\ copied[j] # None
    BY <1>3, NoneAssumption
  <2> QED BY <1>3, <1>4, <2>1 DEF AuditInv, VisibleIsVerified
<1>8. AloneIsAlone'
  <2>1. \A k \in Jobs : InWorkDir(k)' => InWorkDir(k)
    BY <1>1, <1>4 DEF InWorkDir, Alive, Ended
  <2> QED BY <1>1, <2>1 DEF AuditInv, AloneIsAlone
<1>9. JobInv(j)'
  <2>1. store'[jId[j]] # None
    BY <1>3, <1>4, NoneAssumption
  <2>2. alone[j] => result[j].by = j /\ Own(j, copied[j])
    BY <1>1, <1>2 DEF JobInv, OwnFiles, Saving
  <2>3. StoredFor(j)'
    BY <1>1, <1>3, <1>4, <2>1, <2>2 DEF StoredFor, Own
  <2>4. ProcessFollows(j)' /\ SaveHolds(j)' /\ OwnFiles(j)'
    BY <1>1, <1>2, <1>4 DEF JobInv, ProcessFollows, SaveHolds, OwnFiles, Saving
  <2> QED BY <2>3, <2>4 DEF JobInv
<1>10. ASSUME NEW k \in Jobs \ {j}
       PROVE  JobInv(k)'
  <2>1. JobInv(k) /\ jId \in [Jobs -> RoundIds]
    BY <1>2 DEF AuditInv, TypeOK
  <2>2. \A r \in RoundIds : store[r] # None => store'[r] = store[r]
    BY <1>1, <1>4
  <2> QED BY <1>1, <1>4, <2>1, <2>2, OtherJob
<1>11. OneAtATime'
  <2> SUFFICES ASSUME roundd, NEW i \in Jobs, NEW k \in 1..(i - 1), jPc'[i] # "off"
               PROVE  jPc'[k] \in Ended \ {"off"}
    BY <1>1 DEF OneAtATime, Ended
  <2>1. k \in Jobs
    BY JobsAssumption DEF Jobs
  <2>2. jPc[k] \in Ended \ {"off"}
    BY <1>1, <1>2, <1>4 DEF LoopInv, OneAtATime
  <2> QED BY <1>4, <2>1, <2>2 DEF Ended
<1>12. roundd => \A k \in Jobs \ {j} : jPc[k] \in Ended
  <2> SUFFICES ASSUME roundd, NEW k \in Jobs \ {j}, jPc[k] \notin Ended PROVE FALSE
    OBVIOUS
  <2>1. k < j \/ j < k
    BY JobsAssumption DEF Jobs
  <2>2. CASE k < j
    BY <1>1, <1>2, <2>2, JobsAssumption DEF LoopInv, OneAtATime, Jobs, Ended
  <2>3. CASE j < k
    BY <1>1, <1>2, <2>3, JobsAssumption DEF LoopInv, OneAtATime, Jobs, Ended
  <2> QED BY <2>1, <2>2, <2>3
<1>13. TrackIsNew' /\ AiredTracksAlternate'
  <2>1. CASE ~roundd
    BY <1>1, <1>2, <2>1 DEF LoopInv, TrackIsNew, AiredTracksAlternate
  <2>2. CASE roundd
    <3>1. \A k \in Jobs : jPc'[k] \in Ended
      BY <1>4, <1>12, <2>2 DEF Ended
    <3>2. /\ aired \in Seq(Tracks) /\ track \in Tracks /\ aired' = Append(aired, track)
          /\ previous' = track
          /\ Cardinality(Tracks) > 1 => track # previous
      BY <1>1, <1>2, <1>5, <2>2 DEF TypeOK, SelectTrack
    <3>3. /\ Len(aired') = Len(aired) + 1 /\ aired'[Len(aired) + 1] = track
          /\ \A i \in 1..Len(aired) : aired'[i] = aired[i]
      BY <3>2
    <3>4. TrackIsNew'
      <4>1. previous' = aired'[Len(aired')]
        BY <3>2, <3>3
      <4>2. (roundd => \A k \in Jobs : jPc[k] \notin Ended => track \in SelectTrack)'
        BY <3>1 DEF Ended
      <4> QED BY <4>1, <4>2 DEF TrackIsNew
    <3>5. ASSUME Cardinality(Tracks) > 1, NEW i \in 1..(Len(aired') - 1)
          PROVE  aired'[i] # aired'[i + 1]
      <4>1. CASE i = Len(aired)
        <5>1. aired # <<>> /\ i \in 1..Len(aired)
          BY <3>2, <3>3, <4>1
        <5>2. aired'[i] = previous
          BY <1>2, <3>3, <4>1, <5>1 DEF LoopInv, TrackIsNew
        <5> QED BY <3>2, <3>3, <3>5, <4>1, <5>2
      <4>2. CASE i \in 1..(Len(aired) - 1)
        BY <1>2, <3>2, <3>3, <3>5, <4>2 DEF LoopInv, AiredTracksAlternate
      <4> QED BY <3>2, <3>3, <4>1, <4>2
    <3> QED BY <3>4, <3>5 DEF AiredTracksAlternate
  <2> QED BY <2>1, <2>2
<1> QED BY <1>6, <1>7, <1>8, <1>9, <1>10, <1>11, <1>13 DEF AuditInv, LoopInv
-----------------------------------------------------------------------------
(* The loops.                                                              *)

\* A job begins, or fails to: roundd's loop picks the track for it.
LEMMA PicksLoop ==
  ASSUME AuditInv, NEW j \in Jobs, NEW to \in {"prepared", "failed"}, JobMoves(j, "off", to), Picks(j)
  PROVE  LoopInv'
<1>1. TypeOK /\ LoopInv /\ MaxJobs \in Nat
  BY JobsAssumption DEF AuditInv
<1>2. jPc[j] = "off" /\ jPc'[j] = to /\ \A k \in Jobs \ {j} : jPc'[k] = jPc[k]
  BY <1>1 DEF TypeOK, JobMoves
<1>3. UNCHANGED <<roundd, previous, aired>>
  BY DEF JobMoves, Picks
<1>4. roundd => track' \in SelectTrack /\ \A k \in 1..(j - 1) : jPc[k] \in Ended \ {"off"}
  BY DEF Picks, MayBegin
<1>5. OneAtATime'
  <2> SUFFICES ASSUME roundd, NEW i \in Jobs, NEW k \in 1..(i - 1), jPc'[i] # "off"
               PROVE  jPc'[k] \in Ended \ {"off"}
    BY <1>3 DEF OneAtATime, Ended
  <2>1. k \in Jobs
    BY <1>1 DEF Jobs
  <2>2. CASE i = j
    <3>1. k # j
      BY <2>2 DEF Jobs
    <3> QED BY <1>2, <1>4, <2>1, <2>2, <3>1
  <2>3. CASE i # j
    <3>1. jPc[k] \in Ended \ {"off"}
      BY <1>1, <1>2, <2>3 DEF LoopInv, OneAtATime
    <3> QED BY <1>2, <2>1, <3>1
  <2> QED BY <2>2, <2>3
<1>6. TrackIsNew' /\ AiredTracksAlternate'
  BY <1>1, <1>3, <1>4 DEF LoopInv, TrackIsNew, AiredTracksAlternate, SelectTrack, Ended
<1> QED BY <1>5, <1>6 DEF LoopInv

\* The work directory is emptied: a job finds nothing of an earlier run there,
\* and whoever else is in it, or comes later, is not alone any more.
LEMMA StartInv ==
  ASSUME AuditInv, NEW j \in Jobs, Start(j)
  PROVE  AuditInv'
<1>1. /\ jPc[j] = "off" /\ jPc' = [jPc EXCEPT ![j] = "prepared"] /\ Meet(j)
      /\ status' = [status EXCEPT ![jId[j]] = None] /\ replay' = [replay EXCEPT ![jId[j]] = None]
      /\ UNCHANGED <<roundd, previous, aired, jId, result, copied, gPc, tmp, store>>
  BY DEF Start, JobMoves, Picks, storeVars
<1>2. TypeOK /\ JobInv(j) /\ AloneIsAlone
  BY DEF AuditInv
<1>3. /\ jPc'[j] = "prepared" /\ \A k \in Jobs \ {j} : jPc'[k] = jPc[k]
      /\ jId[j] \in RoundIds /\ status'[jId[j]] = None /\ replay'[jId[j]] = None
      /\ \A r \in RoundIds \ {jId[j]} : status'[r] = status[r] /\ replay'[r] = replay[r]
  BY <1>1, <1>2 DEF TypeOK
<1>4. /\ alone' \in [Jobs -> BOOLEAN] /\ \A k \in Jobs : alone'[k] => alone[k]
      /\ \A k \in Jobs \ {j} : /\ alone'[j] => ~Shares(j, k)
                               /\ alone'[k] => ~Shares(j, k)
  BY <1>1, <1>2 DEF Meet, TypeOK
<1>5. TypeOK'
  <2>1. jPc' \in [Jobs -> JobPoints]
    BY <1>1, <1>2 DEF TypeOK, JobPoints
  <2>2. status' \in [RoundIds -> Status \cup {None}] /\ replay' \in [RoundIds -> Blob \cup {None}]
    BY <1>1, <1>2 DEF TypeOK
  <2>3. \A k \in Jobs : tmp'[k] # None => jPc'[k] \in {"temp", "copied", "manifest", "dead"}
    BY <1>1, <1>2, <1>3 DEF TypeOK
  <2>4. track' \in Tracks \cup {None}
    BY <1>2 DEF Start, Picks, SelectTrack, TypeOK
  <2> QED BY <1>1, <1>2, <1>4, <2>1, <2>2, <2>3, <2>4 DEF TypeOK, JobPoints
<1>6. AloneIsAlone'
  <2> SUFFICES ASSUME NEW i \in Jobs, NEW k \in Jobs, alone'[i], i # k, jId[i] = jId[k],
                      InWorkDir(i)', InWorkDir(k)'
               PROVE  FALSE
    BY <1>1 DEF AloneIsAlone
  <2>1. \A h \in Jobs \ {j} : InWorkDir(h)' <=> InWorkDir(h)
    BY <1>1, <1>3 DEF InWorkDir, Alive
  <2>2. CASE i = j
    BY <1>4, <2>1, <2>2 DEF Shares
  <2>3. CASE k = j
    BY <1>4, <2>1, <2>3 DEF Shares
  <2>4. CASE i # j /\ k # j
    BY <1>2, <1>4, <2>1, <2>4 DEF AloneIsAlone
  <2> QED BY <2>2, <2>3, <2>4
<1>7. JobInv(j)'
  BY <1>1, <1>2, <1>3, NoneAssumption DEF JobInv, ProcessFollows, SaveHolds, OwnFiles, StoredFor, Saving
<1>8. ASSUME NEW k \in Jobs \ {j}
      PROVE  JobInv(k)'
  <2>1. JobInv(k) /\ jId \in [Jobs -> RoundIds]
    BY <1>2 DEF AuditInv, TypeOK
  <2>2. alone'[k] /\ InWorkDir(k) => jId[k] # jId[j]
    BY <1>4 DEF Shares
  <2> QED BY <1>1, <1>3, <1>4, <2>1, <2>2, OtherJob
<1>9. VisibleIsVerified' /\ LoopInv'
  BY <1>1, PicksLoop DEF AuditInv, VisibleIsVerified, Start
<1> QED BY <1>5, <1>6, <1>7, <1>8, <1>9 DEF AuditInv

LEMMA CannotStartInv ==
  ASSUME AuditInv, NEW j \in Jobs, CannotStart(j)
  PROVE  AuditInv'
<1>1. /\ jPc[j] = "off" /\ jPc' = [jPc EXCEPT ![j] = "failed"]
      /\ UNCHANGED <<roundd, previous, aired, jId, alone, result, copied, gPc, status, replay, tmp, store>>
  BY DEF CannotStart, JobMoves, Picks, filesVars, storeVars
<1>2. TypeOK /\ JobInv(j) /\ AloneIsAlone
  BY DEF AuditInv
<1>3. jPc'[j] = "failed" /\ \A k \in Jobs \ {j} : jPc'[k] = jPc[k]
  BY <1>1, <1>2 DEF TypeOK
<1>4. TypeOK'
  <2>1. jPc' \in [Jobs -> JobPoints]
    BY <1>1, <1>2 DEF TypeOK, JobPoints
  <2>2. \A k \in Jobs : tmp'[k] # None => jPc'[k] \in {"temp", "copied", "manifest", "dead"}
    BY <1>1, <1>2, <1>3 DEF TypeOK
  <2>3. track' \in Tracks \cup {None}
    BY <1>2 DEF CannotStart, Picks, SelectTrack, TypeOK
  <2> QED BY <1>1, <1>2, <2>1, <2>2, <2>3 DEF TypeOK, JobPoints
<1>5. AloneIsAlone'
  <2>1. \A k \in Jobs : InWorkDir(k)' => InWorkDir(k)
    BY <1>1, <1>3 DEF InWorkDir, Alive, Ended
  <2> QED BY <1>1, <1>2, <2>1 DEF AloneIsAlone
<1>6. JobInv(j)'
  BY <1>3 DEF JobInv, ProcessFollows, SaveHolds, OwnFiles, StoredFor, Saving
<1>7. ASSUME NEW k \in Jobs \ {j}
      PROVE  JobInv(k)'
  <2>1. JobInv(k) /\ jId \in [Jobs -> RoundIds]
    BY <1>2 DEF AuditInv, TypeOK
  <2> QED BY <1>1, <1>3, <2>1, OtherJob
<1>8. VisibleIsVerified' /\ LoopInv'
  BY <1>1, PicksLoop DEF AuditInv, VisibleIsVerified, CannotStart
<1> QED BY <1>4, <1>5, <1>6, <1>7, <1>8 DEF AuditInv

\* What was begun is dead, and what was stored remains.
LEMMA CrashInv ==
  ASSUME AuditInv, Crash
  PROVE  AuditInv'
<1>1. /\ previous' = None /\ aired' = <<>>
      /\ UNCHANGED <<roundd, track, jId, alone, result, copied, gPc, status, replay, tmp, store>>
  BY DEF Crash, filesVars, storeVars
<1>2. TypeOK /\ AloneIsAlone /\ LoopInv
  BY DEF AuditInv
<1>3. \A k \in Jobs : \/ jPc[k] \in Ended /\ jPc'[k] = jPc[k]
                      \/ jPc[k] \notin Ended /\ jPc'[k] = "dead"
  BY DEF Crash
<1>4. TypeOK'
  <2>1. jPc' \in [Jobs -> JobPoints]
    BY <1>2 DEF Crash, TypeOK, JobPoints
  <2>2. \A k \in Jobs : tmp'[k] # None => jPc'[k] \in {"temp", "copied", "manifest", "dead"}
    BY <1>1, <1>2, <1>3 DEF TypeOK
  <2> QED BY <1>1, <1>2, <2>1, <2>2 DEF TypeOK, JobPoints
<1>5. AloneIsAlone'
  <2>1. \A k \in Jobs : InWorkDir(k)' => InWorkDir(k)
    BY <1>1, <1>3 DEF InWorkDir, Alive, Ended
  <2> QED BY <1>1, <1>2, <2>1 DEF AloneIsAlone
<1>6. ASSUME NEW k \in Jobs
      PROVE  JobInv(k)'
  <2>1. JobInv(k) /\ jId \in [Jobs -> RoundIds]
    BY <1>2 DEF AuditInv, TypeOK
  <2>2. CASE jPc[k] \in Ended
    <3>1. jPc'[k] = jPc[k]
      BY <1>3, <2>2
    <3> QED BY <1>1, <2>1, <3>1, OtherJob
  <2>3. CASE jPc[k] \notin Ended
    <3>1. jPc'[k] = "dead"
      BY <1>3, <2>3
    <3> QED BY <3>1 DEF JobInv, ProcessFollows, SaveHolds, OwnFiles, StoredFor, Saving
  <2> QED BY <2>2, <2>3
<1>7. OneAtATime'
  <2> SUFFICES ASSUME roundd, NEW i \in Jobs, NEW k \in 1..(i - 1), jPc'[i] # "off"
               PROVE  jPc'[k] \in Ended \ {"off"}
    BY <1>1 DEF OneAtATime, Ended
  <2>1. k \in Jobs
    BY JobsAssumption DEF Jobs
  <2>2. jPc[i] # "off"
    BY <1>3 DEF Ended
  <2>3. jPc[k] \in Ended \ {"off"}
    BY <1>2, <2>2 DEF LoopInv, OneAtATime
  <2> QED BY <1>3, <2>1, <2>3
<1>8. TrackIsNew' /\ AiredTracksAlternate'
  BY <1>1, <1>3 DEF TrackIsNew, AiredTracksAlternate, Ended
<1>9. VisibleIsVerified'
  BY <1>1 DEF AuditInv, VisibleIsVerified
<1> QED BY <1>4, <1>5, <1>6, <1>7, <1>8, <1>9 DEF AuditInv, LoopInv
-----------------------------------------------------------------------------
(* The theorems.                                                           *)

LEMMA NextInv == AuditInv /\ [Next]_vars => AuditInv'
<1> SUFFICES ASSUME AuditInv, [Next]_vars PROVE AuditInv'
  OBVIOUS
<1>1. CASE UNCHANGED vars
  <2> USE <1>1 DEF vars, loopVars, filesVars, storeVars
  <2>1. TypeOK' /\ VisibleIsVerified'
    BY DEF AuditInv, TypeOK, VisibleIsVerified
  <2>2. AloneIsAlone' /\ LoopInv'
    BY DEF AuditInv, AloneIsAlone, InWorkDir, Alive, Ended, LoopInv, OneAtATime, TrackIsNew,
           SelectTrack, AiredTracksAlternate
  <2>3. \A j \in Jobs : JobInv(j)'
    BY ZenonT(30) DEF AuditInv, JobInv, ProcessFollows, SaveHolds, OwnFiles, Own, StoredFor
  <2> QED BY <2>1, <2>2, <2>3 DEF AuditInv
<1>2. ASSUME NEW j \in Jobs, Start(j) \/ CannotStart(j) PROVE AuditInv'
  BY <1>2, StartInv, CannotStartInv
<1>3. ASSUME NEW j \in Jobs, RunStep(j) PROVE AuditInv'
  BY <1>3, SpawnInv, ReadStatusInv, RunFailsInv DEF RunStep
<1>4. ASSUME NEW j \in Jobs, GodotStep(j) PROVE AuditInv'
  BY <1>4, GodotInv
<1>5. ASSUME NEW j \in Jobs, SaveStep(j) PROVE AuditInv'
  BY <1>5, RunFailsInv, MakeTempInv, CopyReplayInv, WriteManifestInv, RenameInv, SaveFailsInv
     DEF SaveStep
<1>6. CASE Crash
  BY <1>6, CrashInv
<1> QED BY <1>1, <1>2, <1>3, <1>4, <1>5, <1>6 DEF Next

LEMMA Invariance == Spec => []AuditInv
  BY InitInv, NextInv, PTL DEF Spec

\* The types, and that no temporary directory is left behind but by a crash.
THEOREM TypeCorrect == Spec => []TypeOK
<1>1. AuditInv => TypeOK
  BY DEF AuditInv
<1> QED BY <1>1, Invariance, PTL

\* Every round the store shows passes Verify, and its race had a winner.
THEOREM StoreIsVerified == Spec => []VisibleIsVerified
<1>1. AuditInv => VisibleIsVerified
  BY DEF AuditInv
<1> QED BY <1>1, Invariance, PTL

\* A job with a work directory to itself stores its own race and nothing else.
THEOREM OwnRaceIsStored == Spec => []StoresOwnRace
<1>1. AuditInv => StoresOwnRace
  BY DEF AuditInv, JobInv, StoredFor, StoresOwnRace
<1> QED BY <1>1, Invariance, PTL

\* roundd never stores two rounds in a row on one track.
THEOREM TracksAlternate == Spec => []AiredTracksAlternate
<1>1. AuditInv => AiredTracksAlternate
  BY DEF AuditInv, LoopInv
<1> QED BY <1>1, Invariance, PTL

\* The rename is the only step that touches a round directory, and only where
\* there was none.
THEOREM StoreOnlyGrows == Spec => AppendOnly
<1>1. ASSUME TypeOK, Next, NEW r \in RoundIds, store[r] # None
      PROVE  store'[r] = store[r]
  <2>1. ASSUME NEW j \in Jobs, Rename(j)
        PROVE  store'[r] = store[r]
    BY <1>1, <2>1 DEF Rename, Stored, TypeOK
  <2>2. ASSUME NEW j \in Jobs, \/ Start(j) \/ CannotStart(j) \/ RunStep(j) \/ GodotStep(j)
                               \/ CallerFails(j) \/ RefuseSave(j) \/ MakeTemp(j) \/ CopyReplay(j)
                               \/ WriteManifest(j) \/ SaveFails(j)
        PROVE  UNCHANGED store
    BY <2>2 DEF Start, CannotStart, RunStep, Spawn, CannotSpawn, Timeout, SeeCrash, ReadStatus,
                NoStatus, GodotStep, OpenReplay, WriteReplay, WriteStatus, SkipStatus, GodotCrashes,
                SimMoves, CallerFails, RefuseSave, MakeTemp, CopyReplay, WriteManifest, SaveFails,
                storeVars
  <2>3. CASE Crash
    BY <2>3 DEF Crash, storeVars
  <2> QED BY <1>1, <2>1, <2>2, <2>3 DEF Next, SaveStep
<1>2. TypeOK /\ [Next]_vars => [ \A r \in RoundIds : store[r] # None => store'[r] = store[r] ]_vars
  BY <1>1
<1> QED BY <1>2, TypeCorrect, PTL DEF Spec, AppendOnly
=============================================================================
