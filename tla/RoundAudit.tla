----------------------------- MODULE RoundAudit ------------------------------
(***************************************************************************)
(* How a race becomes an audit entry: sim.Run starts the Godot process in  *)
(* a work directory and reads back what it left there, then Store.Save     *)
(* copies the replay into the store.                                       *)
(*                                                                         *)
(* A member of Jobs is one round being produced: one sim.Run, then one     *)
(* Save.  The jobs are calls of RunNextRound, which rgsd makes side by     *)
(* side, or roundd's loop over runOneRound, one job at a time.  The work   *)
(* directory of a job is named after its round id, which is a clock        *)
(* reading, so that two jobs may meet in one directory.  The program may   *)
(* die between any two file operations; the Godot processes it started     *)
(* live on.  What a simulation computes is named by its job: a file holds  *)
(* the job that wrote it.                                                  *)
(***************************************************************************)
EXTENDS Integers, FiniteSets, Sequences

CONSTANTS
  MaxJobs,        \* bound: the rounds of a roundd
  ServerJobs,     \* bound: the rounds of an rgsd
  RoundIds,       \* clock readings, a set of numbers
  Tracks,         \* roundd's pool of tracks
  None            \* no file, no track

ASSUME JobsAssumption == MaxJobs \in Nat /\ ServerJobs \in Nat

Jobs == 1..MaxJobs

VARIABLES
  roundd,    \* the program is roundd, not an rgsd
  previous,  \* previousTrack of roundd's loop
  track,     \* the track of the round roundd runs
  aired,     \* the tracks of the rounds this roundd has stored, in order
  jPc,       \* control point of a job
  jId,       \* its round id
  alone,     \* no other job has used the work directory meanwhile
  result,    \* sim.Result: whose simulation the status file told of
  copied,    \* the replay Save has opened, then the one it copied
  gPc,       \* control point of the job's Godot process
  status,    \* status.json of every work directory: who wrote it
  replay,    \* replay.bin of every work directory
  tmp,       \* the pending-* directory of a job
  store      \* the round directories of the store

filesVars == <<status, replay>>
storeVars == <<tmp, store>>
loopVars == <<roundd, previous, track, aired>>
vars == <<loopVars, jPc, jId, alone, result, copied, gPc, filesVars, storeVars>>

\* A replay file: still being written, whole, or cut short by a failed write.
Blob == [by : Jobs, size : {"open", "whole", "short"}]

\* A status file: who wrote it, and whether its race had a winner.
Status == [by : Jobs, ok : BOOLEAN]

NoEntry == [manifest |-> None, sha |-> None, replay |-> None]

Entry == [manifest : Status \cup {None}, sha : Blob \cup {None}, replay : Blob \cup {None}]

\* None is Go's nil, or a file that is not there: no value of its own.
ASSUME NoneAssumption == None \notin Blob \cup Status \cup Entry

Init ==
  /\ roundd \in BOOLEAN
  /\ previous = None
  /\ track = None
  /\ aired = <<>>
  /\ jPc    = [j \in Jobs |-> "off"]
  /\ jId    \in {f \in [Jobs -> RoundIds] : roundd => \A j \in 2..MaxJobs : f[j - 1] <= f[j]}
  /\ alone  = [j \in Jobs |-> TRUE]
  /\ result = [j \in Jobs |-> None]
  /\ copied = [j \in Jobs |-> None]
  /\ gPc    = [j \in Jobs |-> "off"]
  /\ status = [r \in RoundIds |-> None]
  /\ replay = [r \in RoundIds |-> None]
  /\ tmp    = [j \in Jobs |-> None]
  /\ store  = [r \in RoundIds |-> None]
-----------------------------------------------------------------------------
(* sim.Run.                                                                *)

JobMoves(j, from, to) ==
  /\ jPc[j] = from
  /\ jPc' = [jPc EXCEPT ![j] = to]
  /\ UNCHANGED <<roundd, jId>>

SimMoves(j, from, to) ==
  /\ gPc[j] = from
  /\ gPc' = [gPc EXCEPT ![j] = to]
  /\ UNCHANGED <<loopVars, jPc, jId, alone, result, copied, storeVars>>

Ended == {"off", "saved", "failed", "dead"}

Alive(k) == gPc[k] \in {"racing", "writing", "written"}

InWorkDir(k) == jPc[k] \notin Ended \/ Alive(k)

Shares(j, k) == k # j /\ jId[k] = jId[j] /\ InWorkDir(k)

Meet(j) ==
  alone' = [k \in Jobs |-> alone[k] /\ IF k = j THEN \A i \in Jobs : ~Shares(j, i)
                                               ELSE ~Shares(j, k)]

\* The loops: a job of roundd begins when the ones before have ended.
MayBegin(j) ==
  IF roundd THEN \A k \in 1..(j - 1) : jPc[k] \in Ended \ {"off"} ELSE j <= ServerJobs

\* The candidate is the hash of the round id, which may be any, or the next one
\* of the pool when that was the track before.
SelectTrack == {t \in Tracks : Cardinality(Tracks) > 1 => t # previous}

Picks(j) ==
  /\ MayBegin(j)
  /\ IF roundd THEN track' \in SelectTrack ELSE UNCHANGED track
  /\ UNCHANGED <<previous, aired>>

\* A wrong start, that leaves the files of an earlier run where they are.
StartOver(j) ==
  /\ JobMoves(j, "off", "prepared")
  /\ Picks(j)
  /\ Meet(j)
  /\ UNCHANGED <<result, copied, gPc, filesVars, storeVars>>

\* MkdirAll and the removal of stale files.
Start(j) ==
  /\ JobMoves(j, "off", "prepared")
  /\ Picks(j)
  /\ Meet(j)
  /\ status' = [status EXCEPT ![jId[j]] = None]
  /\ replay' = [replay EXCEPT ![jId[j]] = None]
  /\ UNCHANGED <<result, copied, gPc, storeVars>>

RunMoves(j, from, to) == JobMoves(j, from, to) /\ UNCHANGED <<previous, track, aired>>

Spawn(j) ==
  /\ RunMoves(j, "prepared", "running")
  /\ gPc' = [gPc EXCEPT ![j] = "racing"]
  /\ UNCHANGED <<alone, result, copied, filesVars, storeVars>>

\* The work directory cannot be made.
CannotStart(j) ==
  /\ JobMoves(j, "off", "failed")
  /\ Picks(j)
  /\ UNCHANGED <<alone, result, copied, gPc, filesVars, storeVars>>

\* The spec file cannot be written or the process not started.
CannotSpawn(j) ==
  /\ RunMoves(j, "prepared", "failed")
  /\ UNCHANGED <<alone, result, copied, gPc, filesVars, storeVars>>

\* A wrong Run, that sets no deadline.
NeverTimesOut(j) == FALSE

\* The deadline, or the caller's context: the process is killed.
Timeout(j) ==
  /\ RunMoves(j, "running", "failed")
  /\ Alive(j)
  /\ gPc' = [gPc EXCEPT ![j] = "gone"]
  /\ UNCHANGED <<alone, result, copied, filesVars, storeVars>>

\* ErrGodotExit.
SeeCrash(j) ==
  /\ RunMoves(j, "running", "failed")
  /\ gPc[j] = "crashed"
  /\ gPc' = [gPc EXCEPT ![j] = "gone"]
  /\ UNCHANGED <<alone, result, copied, filesVars, storeVars>>

\* A wrong reading, that does not look at ok.
ReadAnyStatus(j) ==
  /\ RunMoves(j, "running", "result")
  /\ gPc[j] = "exited" /\ status[jId[j]] # None
  /\ gPc' = [gPc EXCEPT ![j] = "gone"]
  /\ result' = [result EXCEPT ![j] = status[jId[j]]]
  /\ UNCHANGED <<alone, copied, filesVars, storeVars>>

\* Exit code 0: the status file is read.
ReadStatus(j) ==
  /\ RunMoves(j, "running", "result")
  /\ gPc[j] = "exited" /\ status[jId[j]] # None /\ status[jId[j]].ok
  /\ gPc' = [gPc EXCEPT ![j] = "gone"]
  /\ result' = [result EXCEPT ![j] = status[jId[j]]]
  /\ UNCHANGED <<alone, copied, filesVars, storeVars>>

\* ErrNoStatus, ErrStatusNotOK.
NoStatus(j) ==
  /\ RunMoves(j, "running", "failed")
  /\ gPc[j] = "exited" /\ (status[jId[j]] # None => ~status[jId[j]].ok)
  /\ gPc' = [gPc EXCEPT ![j] = "gone"]
  /\ UNCHANGED <<alone, result, copied, filesVars, storeVars>>
-----------------------------------------------------------------------------
(* The Godot process: main.gd and its recorder.                            *)

OpenReplay(j) ==
  /\ SimMoves(j, "racing", "writing")
  /\ replay' = [replay EXCEPT ![jId[j]] = [by |-> j, size |-> "open"]]
  /\ UNCHANGED status

\* The rest of the bytes.  store_buffer may write fewer, which nobody looks at;
\* two processes in one directory may mix theirs.
WriteReplay(j) ==
  /\ SimMoves(j, "writing", "written")
  /\ \E size \in {"whole", "short"} :
       replay' = [replay EXCEPT ![jId[j]] =
                    IF @ = None THEN None
                    ELSE [by |-> j, size |-> IF @.by = j THEN size ELSE "short"]]
  /\ UNCHANGED status

WriteStatus(j) ==
  /\ SimMoves(j, "written", "exited")
  /\ \E ok \in BOOLEAN : status' = [status EXCEPT ![jId[j]] = [by |-> j, ok |-> ok]]
  /\ UNCHANGED replay

\* The status file cannot be opened; the process quits with code 0 all the same.
SkipStatus(j) ==
  /\ SimMoves(j, "written", "exited")
  /\ UNCHANGED filesVars

GodotCrashes(j) ==
  /\ Alive(j)
  /\ SimMoves(j, gPc[j], "crashed")
  /\ UNCHANGED filesVars
-----------------------------------------------------------------------------
(* Store.Save.                                                             *)

SaveMoves(j, from, to) ==
  /\ RunMoves(j, from, to)
  /\ UNCHANGED <<alone, result, gPc, filesVars>>

\* The caller fails between Run and Save: FinishRace, rtp.Settle, a credit.
CallerFails(j) ==
  /\ SaveMoves(j, "result", "failed")
  /\ UNCHANGED <<copied, storeVars>>

\* A replay that cannot be opened, or ErrRoundExists.
RefuseSave(j) ==
  /\ SaveMoves(j, "result", "failed")
  /\ replay[jId[j]] = None \/ store[jId[j]] # None
  /\ UNCHANGED <<copied, storeVars>>

MakeTemp(j) ==
  /\ SaveMoves(j, "result", "temp")
  /\ replay[jId[j]] # None /\ store[jId[j]] = None
  /\ tmp' = [tmp EXCEPT ![j] = NoEntry]
  /\ copied' = [copied EXCEPT ![j] = replay[jId[j]]]
  /\ UNCHANGED store

\* Copy and hash in one pass, then sync.  The file was opened before: it may
\* have been removed since, or written anew in place.
CopyReplay(j) ==
  /\ SaveMoves(j, "temp", "copied")
  /\ \E blob \in {copied[j], replay[jId[j]]} \ {None} :
       /\ tmp' = [tmp EXCEPT ![j] = [@ EXCEPT !.replay = blob]]
       /\ copied' = [copied EXCEPT ![j] = blob]
  /\ UNCHANGED store

\* A wrong hash, of the file in the work directory and not of the copy.
HashSource(j) ==
  /\ SaveMoves(j, "copied", "manifest")
  /\ tmp' = [tmp EXCEPT ![j] = [@ EXCEPT !.manifest = result[j], !.sha = replay[jId[j]]]]
  /\ UNCHANGED <<copied, store>>

WriteManifest(j) ==
  /\ SaveMoves(j, "copied", "manifest")
  /\ tmp' = [tmp EXCEPT ![j] = [@ EXCEPT !.manifest = result[j], !.sha = copied[j]]]
  /\ UNCHANGED <<copied, store>>

\* Save has returned: roundd's loop goes on with the track it picked.
Stored(j) ==
  /\ JobMoves(j, "manifest", "saved")
  /\ store' = [store EXCEPT ![jId[j]] = tmp[j]]
  /\ tmp' = [tmp EXCEPT ![j] = None]
  /\ IF roundd THEN previous' = track /\ aired' = Append(aired, track)
               ELSE UNCHANGED <<previous, aired>>
  /\ UNCHANGED <<track, alone, result, copied, gPc, filesVars>>

\* A wrong rename, that replaces what is there.
RenameOver(j) == Stored(j)

Rename(j) == Stored(j) /\ store[jId[j]] = None

\* A wrong failure, that leaves the temporary directory behind.
FailAndLeave(j) ==
  /\ jPc[j] \in {"temp", "copied", "manifest"}
  /\ SaveMoves(j, jPc[j], "failed")
  /\ UNCHANGED <<copied, storeVars>>

\* A wrong loop, that takes over the track of a failed round too.
FailAndThread(j) ==
  /\ jPc[j] \in {"temp", "copied", "manifest"}
  /\ JobMoves(j, jPc[j], "failed")
  /\ tmp' = [tmp EXCEPT ![j] = None]
  /\ previous' = IF roundd THEN track ELSE previous
  /\ UNCHANGED <<track, aired, alone, result, copied, gPc, filesVars, store>>

\* The round directory has appeared since Stat, or a file operation fails: the
\* temporary directory is removed.
SaveFails(j) ==
  /\ jPc[j] \in {"temp", "copied", "manifest"}
  /\ SaveMoves(j, jPc[j], "failed")
  /\ tmp' = [tmp EXCEPT ![j] = None]
  /\ UNCHANGED <<copied, store>>

\* The program dies; the files and the Godot processes stay.
Crash ==
  /\ \E j \in Jobs : jPc[j] \notin Ended
  /\ jPc' = [j \in Jobs |-> IF jPc[j] \in Ended THEN jPc[j] ELSE "dead"]
  /\ previous' = None /\ aired' = <<>>
  /\ UNCHANGED <<roundd, track, jId, alone, result, copied, gPc, filesVars, storeVars>>
-----------------------------------------------------------------------------
RunStep(j) ==
  \/ Spawn(j) \/ CannotSpawn(j) \/ Timeout(j) \/ SeeCrash(j) \/ ReadStatus(j) \/ NoStatus(j)

GodotStep(j) ==
  \/ OpenReplay(j) \/ WriteReplay(j) \/ WriteStatus(j) \/ SkipStatus(j) \/ GodotCrashes(j)

SaveStep(j) ==
  \/ CallerFails(j) \/ RefuseSave(j) \/ MakeTemp(j) \/ CopyReplay(j) \/ WriteManifest(j)
  \/ Rename(j) \/ SaveFails(j)

Next ==
  \/ \E j \in Jobs : Start(j) \/ CannotStart(j) \/ RunStep(j) \/ GodotStep(j) \/ SaveStep(j)
  \/ Crash

Spec == Init /\ [][Next]_vars

\* Run has a deadline and Save does not wait: while a job has begun and not
\* ended, one of them gets on.
FairSpec == Spec /\ WF_vars(\E j \in Jobs : RunStep(j) \/ SaveStep(j))
-----------------------------------------------------------------------------
\* Every variable keeps its type; only a job in the middle of Save, or one that
\* died there, has a temporary directory.
TypeOK ==
  /\ roundd \in BOOLEAN
  /\ previous \in Tracks \cup {None} /\ track \in Tracks \cup {None}
  /\ aired \in Seq(Tracks)
  /\ jPc \in [Jobs -> {"off", "prepared", "running", "result", "temp", "copied",
                       "manifest", "saved", "failed", "dead"}]
  /\ jId    \in [Jobs -> RoundIds]
  /\ alone  \in [Jobs -> BOOLEAN]
  /\ result \in [Jobs -> Status \cup {None}]
  /\ copied \in [Jobs -> Blob \cup {None}]
  /\ gPc \in [Jobs -> {"off", "racing", "writing", "written", "exited", "crashed", "gone"}]
  /\ status \in [RoundIds -> Status \cup {None}]
  /\ replay \in [RoundIds -> Blob \cup {None}]
  /\ tmp    \in [Jobs -> Entry \cup {None}]
  /\ store  \in [RoundIds -> Entry \cup {None}]
  /\ \A j \in Jobs : tmp[j] # None => jPc[j] \in {"temp", "copied", "manifest", "dead"}

\* The audit trail is append-only: whatever two saves of one id do, and
\* wherever the program dies, a stored round is never rewritten.
AppendOnly ==
  [][ \A r \in RoundIds : store[r] # None => store'[r] = store[r] ]_vars

\* A round that List shows has its manifest and its replay, and Verify accepts
\* it, even if the replay in the work directory changed while Save ran; the race
\* had a winner.
VisibleIsVerified ==
  \A r \in RoundIds : store[r] # None =>
    /\ store[r].manifest # None /\ store[r].manifest.ok
    /\ store[r].replay # None /\ store[r].sha = store[r].replay

\* A job that had its work directory to itself stores its own race: the winner
\* of its own simulation with the replay of it, never what an earlier run left
\* there nor a file that is still being written.
StoresOwnRace ==
  \A j \in Jobs : jPc[j] = "saved" /\ alone[j] =>
    LET entry == store[jId[j]] IN
    entry.manifest.by = j /\ entry.replay.by = j /\ entry.replay.size # "open"

\* roundd threads the track of a round into the next one: of the rounds one
\* process stores, no two in a row have the same track, whatever rounds fail in
\* between (selectTrack, main).
AiredTracksAlternate ==
  Cardinality(Tracks) > 1 => \A i \in 1..(Len(aired) - 1) : aired[i] # aired[i + 1]

\* Unless the program dies, the jobs that have begun end, saved or failed.
JobsEnd == []<>(\A j \in Jobs : jPc[j] \in Ended)
=============================================================================
