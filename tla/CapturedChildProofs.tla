------------------------ MODULE CapturedChildProofs ------------------------
(***************************************************************************)
(* What is proved of CapturedChild for any call, any number of streams,    *)
(* any size of the pipes and any limit: its types, that no process is left *)
(* behind, that a success is whole, and that it implements ChildContract.  *)
(***************************************************************************)
EXTENDS CapturedChild, TLAPS

-----------------------------------------------------------------------------
(* The inductive invariant.                                                *)

Polling == {"poll", "cancellation", "time", "capture"}

Verdicts == {"exited", "timed_out", "cancelled", "capture_failed", "wait_failed"}

States == {"succeeded", "failed", "timed_out", "cancelled"}

ShapesOK ==
    /\ call \in Calls /\ timeout = call.timeout
    /\ {captureFailed, expired, drained, cancelled, cleanup} \subseteq BOOLEAN
    /\ child \in {"none", "running", "gone"}
    /\ outcome \in States \union {"none"}
    /\ {written, pipe, kept, lost} \subseteq [Stream -> Nat]
    /\ reader \in [Stream -> {"reading", "broken", "ended"}]
    /\ {message, got} \subseteq [Stream -> {"none", "whole", "broken"}]

\* Where the worker is tells what has become of the call.
StageFits ==
    /\ pc = "spawn" => child = "none" /\ outcome = "none" /\ group = {} /\ holds = {}
    /\ pc \in Polling => child = "running" /\ outcome = "none" /\ cleanup
    /\ pc = "drain" => child = "gone" /\ outcome = "none" /\ verdict \in Verdicts
    /\ pc = "done" => outcome # "none"

\* ssh is in its group and holds its pipes for as long as it runs, and its
\* descendant only while it does.
GroupFits ==
    /\ "ssh" \in group <=> (Started /\ exit = "none")
    /\ "ssh" \in holds <=> "ssh" \in group
    /\ "heir" \in group \union holds => heir = "running"
    /\ ~ Started => exit = "none" /\ heir = "none"

\* A verdict has its reason, and every verdict but that of a client that ended
\* comes with the death of the group.
VerdictFits ==
    /\ verdict = "exited" => exit \in {"ok", "error"}
    /\ verdict = "timed_out" => timeout
    /\ verdict = "cancelled" => cancelled
    /\ pc = "drain" => \/ verdict = "exited" /\ cleanup
                       \/ Victims = {} /\ exit # "none"

\* One stream: what was written is in the pipe, kept or lost, nothing is lost
\* before the limit is reached, and the end of the stream is the end of those
\* who may write to it.
StreamFits(s) ==
    /\ kept[s] <= Limit /\ pipe[s] <= PipeSize
    /\ written[s] = pipe[s] + kept[s] + lost[s]
    /\ lost[s] > 0 => kept[s] = Limit
    /\ reader[s] # "reading" => Started
    /\ message[s] # "none" <=> reader[s] = "ended"
    /\ message[s] = "whole" => holds = {} /\ pipe[s] = 0
    /\ got[s] = "whole" => message[s] = "whole"
    /\ exit \in {"ok", "error"} => written[s] = Output[s]

CInv ==
    /\ TypeOK
    /\ ShapesOK
    /\ StageFits
    /\ GroupFits
    /\ VerdictFits
    /\ \A s \in Stream : StreamFits(s)
    /\ NoneLeftBehind
    /\ outcome = "succeeded" => /\ exit = "ok"
                                /\ \A s \in Stream : message[s] = "whole"

-----------------------------------------------------------------------------
(* The call, and the steps of one stream.                                   *)

LEMMA CallStays ==
    ASSUME UNCHANGED call
    PROVE  Stream' = Stream /\ Output' = Output
BY DEF Stream, Output

LEMMA CallFacts ==
    ASSUME CInv
    PROVE  /\ call \in Calls
           /\ {call.captured, call.timeout, call.ends, call.breaks} \subseteq BOOLEAN
           /\ call.captured => Stream # {}
           /\ \A s \in Stream : Output[s] \in Nat
           /\ Limit \in Nat /\ PipeSize \in Nat \ {0}
BY CaptureAssumption DEF CInv, ShapesOK, Stream, Output

\* A step that changes streams alone.
LEMMA StreamsMove ==
    ASSUME CInv, UNCHANGED <<processes, clocks, worker, cancelled>>,
           captureFailed' \in BOOLEAN,
           {written, pipe, kept, lost}' \subseteq [Stream -> Nat],
           reader' \in [Stream -> {"reading", "broken", "ended"}],
           message' \in [Stream -> {"none", "whole", "broken"}],
           \A s \in Stream : message[s] = "whole" => message'[s] = "whole",
           \A s \in Stream : StreamFits(s)'
    PROVE  CInv'
<1>. USE DEF processes, clocks, worker
<1>1. Stream' = Stream /\ Output' = Output
  BY CallStays
<1>2. ShapesOK'
  BY <1>1 DEF CInv, ShapesOK
<1>3. TypeOK'
  <2>1. \A s \in Stream : /\ kept'[s] \in 0 .. Limit /\ pipe'[s] \in 0 .. PipeSize
                          /\ (written[s] = pipe[s] + kept[s] + lost[s])'
    BY CallFacts DEF StreamFits, Started
  <2>. QED  BY <1>1, <1>2, <2>1 DEF CInv, TypeOK, ShapesOK
<1>4. StageFits' /\ GroupFits' /\ VerdictFits'
  BY DEF CInv, StageFits, GroupFits, VerdictFits, Started, Victims
<1>5. NoneLeftBehind'
  BY <1>1 DEF CInv, NoneLeftBehind, Over, Victims
<1>6. outcome' = "succeeded" => /\ exit' = "ok"
                                /\ \A s \in Stream' : message'[s] = "whole"
  BY <1>1 DEF CInv
<1>. QED  BY <1>1, <1>2, <1>3, <1>4, <1>5, <1>6 DEF CInv

LEMMA WriteKeeps == ASSUME CInv, NEW s \in Stream, Write(s) PROVE CInv'
<1>. USE DEF Write
<1>1. /\ written' = [written EXCEPT ![s] = written[s] + 1]
      /\ pipe' = [pipe EXCEPT ![s] = pipe[s] + 1]
      /\ UNCHANGED <<processes, kept, lost, reader, message, captureFailed, clocks, worker,
                     cancelled>>
      /\ UNCHANGED <<exit, holds, got, child>>
      /\ Stream' = Stream /\ Output' = Output
  BY CallStays DEF processes, worker, clocks
<1>2. {written, pipe, kept, lost} \subseteq [Stream -> Nat]
  BY DEF CInv, ShapesOK
<1>3. exit = "none" /\ holds # {} /\ pipe[s] < PipeSize
  BY DEF CInv, GroupFits
<1>4. ASSUME NEW r \in Stream PROVE StreamFits(r)'
  <2>1. StreamFits(r)
    BY DEF CInv
  <2>2. CASE r = s
    BY <1>1, <1>2, <1>3, <2>1, <2>2, CallFacts DEF StreamFits, Started
  <2>3. CASE r # s
    BY <1>1, <1>2, <2>1, <2>3 DEF StreamFits, Started
  <2>. QED  BY <2>2, <2>3
<1>5. {written, pipe, kept, lost}' \subseteq [Stream -> Nat]
  BY <1>1, <1>2
<1>. QED  BY <1>1, <1>4, <1>5, StreamsMove DEF CInv, ShapesOK

LEMMA ReadKeeps == ASSUME CInv, NEW s \in Stream, Read(s) PROVE CInv'
<1>. DEFINE fits == Minimum(Limit - kept[s], pipe[s])
<1>1. /\ kept' = [kept EXCEPT ![s] = kept[s] + fits]
      /\ lost' = [lost EXCEPT ![s] = lost[s] + pipe[s] - fits]
      /\ pipe' = [pipe EXCEPT ![s] = 0]
      /\ UNCHANGED <<processes, written, reader, message, captureFailed, clocks, worker,
                     cancelled>>
      /\ UNCHANGED <<exit, holds, got, child>>
      /\ Stream' = Stream /\ Output' = Output
  BY CallStays DEF Read, processes, worker, clocks
<1>2. {written, pipe, kept, lost} \subseteq [Stream -> Nat]
  BY DEF CInv, ShapesOK
<1>3. StreamFits(s) /\ reader[s] = "reading" /\ Limit \in Nat
  BY CallFacts DEF CInv, Read
<1>4. /\ fits \in Nat /\ fits <= pipe[s] /\ kept[s] + fits <= Limit
      /\ fits < pipe[s] => kept[s] + fits = Limit
  BY <1>2, <1>3 DEF Minimum, StreamFits
<1>. HIDE DEF fits
<1>5. {written, pipe, kept, lost}' \subseteq [Stream -> Nat]
  BY <1>1, <1>2, <1>4
<1>6. StreamFits(s)'
  <2>1. /\ kept'[s] = kept[s] + fits /\ lost'[s] = lost[s] + pipe[s] - fits /\ pipe'[s] = 0
        /\ {written[s], pipe[s], kept[s], lost[s]} \subseteq Nat
    BY <1>1, <1>2
  <2>2. kept'[s] <= Limit /\ pipe'[s] <= PipeSize /\ (lost'[s] > 0 => kept'[s] = Limit)
    BY <1>3, <1>4, <2>1, CallFacts DEF StreamFits
  <2>3. written[s] = pipe'[s] + kept'[s] + lost'[s]
    BY <1>3, <1>4, <2>1 DEF StreamFits
  <2>. QED  BY <1>1, <1>3, <2>1, <2>2, <2>3 DEF StreamFits, Started
<1>7. ASSUME NEW r \in Stream, r # s PROVE StreamFits(r)'
  BY <1>1, <1>2, <1>7 DEF CInv, StreamFits, Started
<1>. QED  BY <1>1, <1>5, <1>6, <1>7, StreamsMove DEF CInv, ShapesOK

\* What a reader sends at the end of its stream.
LEMMA SendKeeps ==
    ASSUME CInv, NEW s \in Stream, NEW what \in {"whole", "broken"}, Send(s, what),
           Started, reader[s] # "ended", what = "whole" => holds = {} /\ pipe[s] = 0,
           UNCHANGED <<processes, written, pipe, kept, lost, captureFailed, clocks, worker,
                       cancelled>>
    PROVE  CInv'
<1>1. /\ UNCHANGED <<exit, holds, got, child>>
      /\ Stream' = Stream /\ Output' = Output
  BY CallStays DEF processes, worker, clocks
<1>2. /\ reader' \in [Stream -> {"reading", "broken", "ended"}]
      /\ message' \in [Stream -> {"none", "whole", "broken"}]
      /\ reader'[s] = "ended" /\ message'[s] = what
      /\ \A r \in Stream : r # s => reader'[r] = reader[r] /\ message'[r] = message[r]
  BY DEF Send, CInv, ShapesOK
<1>3. message[s] = "none"
  BY DEF CInv, StreamFits, ShapesOK
<1>4. ASSUME NEW r \in Stream PROVE StreamFits(r)'
  <2>1. StreamFits(r)
    BY DEF CInv
  <2>2. CASE r = s
    BY <1>1, <1>2, <1>3, <2>1, <2>2 DEF StreamFits, Started
  <2>3. CASE r # s
    BY <1>1, <1>2, <2>1, <2>3 DEF StreamFits, Started
  <2>. QED  BY <2>2, <2>3
<1>. QED  BY <1>1, <1>2, <1>3, <1>4, StreamsMove DEF CInv, ShapesOK

LEMMA EndOfFileKeeps == ASSUME CInv, NEW s \in Stream, EndOfFile(s) PROVE CInv'
BY SendKeeps DEF EndOfFile

LEMMA SendBrokenKeeps == ASSUME CInv, NEW s \in Stream, SendBroken(s) PROVE CInv'
BY SendKeeps DEF SendBroken, CInv, StreamFits

LEMMA ReadFailsKeeps == ASSUME CInv, NEW s \in Stream, ReadFails(s) PROVE CInv'
<1>1. /\ UNCHANGED <<processes, written, pipe, kept, lost, message, clocks, worker,
                     cancelled>>
      /\ UNCHANGED <<exit, holds, got, child>>
      /\ Stream' = Stream /\ Output' = Output
      /\ captureFailed' \in BOOLEAN /\ Started
  BY CallStays DEF ReadFails, processes, worker, clocks
<1>2. /\ reader' \in [Stream -> {"reading", "broken", "ended"}]
      /\ reader[s] = "reading" /\ reader'[s] = "broken"
      /\ \A r \in Stream : r # s => reader'[r] = reader[r]
  BY DEF ReadFails, CInv, ShapesOK
<1>3. ASSUME NEW r \in Stream PROVE StreamFits(r)'
  <2>1. StreamFits(r)
    BY DEF CInv
  <2>. QED  BY <1>1, <1>2, <2>1 DEF StreamFits, Started
<1>. QED  BY <1>1, <1>2, <1>3, StreamsMove DEF CInv, ShapesOK

-----------------------------------------------------------------------------
(* The processes.                                                           *)

\* A step of ssh or of its descendant.
LEMMA ProcessesMove ==
    ASSUME CInv, UNCHANGED <<streams, clocks, worker, cancelled>>,
           exit' \in {"none", "ok", "error", "killed"},
           heir' \in {"none", "running", "gone"},
           group' \subseteq {"ssh", "heir"}, holds' \subseteq {"ssh", "heir"},
           Started, GroupFits',
           exit # "none" => exit' = exit /\ group' \subseteq group,
           holds = {} => holds' = {},
           exit' \in {"ok", "error"} => \A s \in Stream : written[s] = Output[s]
    PROVE  CInv'
<1>. USE DEF streams, clocks, worker
<1>1. Stream' = Stream /\ Output' = Output
  BY CallStays
<1>2. ShapesOK'
  BY <1>1 DEF CInv, ShapesOK
<1>3. TypeOK'
  BY <1>1 DEF CInv, TypeOK
<1>4. StageFits'
  BY DEF CInv, StageFits, Started
<1>5. Victims = {} /\ exit # "none" => Victims' = {}
  BY DEF Victims
<1>6. VerdictFits'
  BY <1>5 DEF CInv, VerdictFits
<1>7. \A s \in Stream : StreamFits(s)'
  BY <1>1 DEF CInv, StreamFits, Started
<1>8. NoneLeftBehind'
  <2>1. CASE Victims = {} /\ exit # "none"
    BY <1>5, <2>1 DEF CInv, NoneLeftBehind, Over
  <2>2. CASE Over /\ exit = "none"
    <3>1. "ssh" \in Victims
      BY <2>2 DEF CInv, GroupFits, Victims
    <3>. QED  BY <2>2, <3>1 DEF CInv, NoneLeftBehind
  <2>3. CASE ~ Over
    BY <2>3 DEF NoneLeftBehind, Over
  <2>4. CASE Over /\ exit # "none" /\ Victims # {}
    BY <1>1, <2>4 DEF CInv, NoneLeftBehind
  <2>. QED  BY <2>1, <2>2, <2>3, <2>4
<1>9. outcome' = "succeeded" => /\ exit' = "ok"
                                /\ \A s \in Stream' : message'[s] = "whole"
  BY <1>1 DEF CInv
<1>. QED  BY <1>2, <1>3, <1>4, <1>6, <1>1, <1>7, <1>8, <1>9 DEF CInv

LEMMA SshExitsKeeps == ASSUME CInv, SshExits PROVE CInv'
<1>. USE DEF SshExits
<1>1. Started /\ exit = "none"
  BY DEF CInv, GroupFits
<1>2. GroupFits'
  BY <1>1 DEF CInv, GroupFits, Started, worker
<1>. QED  BY <1>1, <1>2, ProcessesMove DEF CInv, TypeOK

LEMMA ForkKeeps == ASSUME CInv, Fork PROVE CInv'
<1>. USE DEF Fork
<1>1. Started /\ exit = "none" /\ holds # {}
  BY DEF CInv, GroupFits
<1>2. GroupFits'
  BY <1>1 DEF CInv, GroupFits, Started, worker
<1>. QED  BY <1>1, <1>2, ProcessesMove DEF CInv, TypeOK

LEMMA HeirStepsKeeps == ASSUME CInv, HeirSteps PROVE CInv'
<1>. USE DEF HeirSteps
<1>1. Started
  BY DEF CInv, GroupFits
<1>2. GroupFits'
  BY <1>1 DEF CInv, GroupFits, Started, worker
<1>3. exit' \in {"ok", "error"} => \A s \in Stream : written[s] = Output[s]
  BY DEF CInv, StreamFits, Started
<1>. QED  BY <1>1, <1>2, <1>3, ProcessesMove DEF CInv, TypeOK

\* What a kill leaves: no ssh, nobody whom a second kill would hit, and no end
\* of ssh's own making that was not there before.
LEMMA Killed ==
    ASSUME CInv, Started, Started', KillAndReap, UNCHANGED call
    PROVE  /\ exit' \in {"none", "ok", "error", "killed"} /\ exit' # "none"
           /\ exit # "none" => exit' = exit
           /\ exit' \in {"ok", "error"} => exit' = exit
           /\ heir' \in {"none", "running", "gone"}
           /\ group' \subseteq {"ssh", "heir"} /\ holds' \subseteq {"ssh", "heir"}
           /\ holds = {} => holds' = {}
           /\ Victims' = {}
           /\ GroupFits'
<1>1. "ssh" \in Victims <=> "ssh" \in group
  BY DEF Victims
<1>2. Victims' = {}
  BY DEF KillAndReap, Victims
<1>3. GroupFits'
  BY <1>1 DEF KillAndReap, CInv, GroupFits, Victims
<1>. QED  BY <1>1, <1>2, <1>3 DEF KillAndReap, CInv, TypeOK, GroupFits

-----------------------------------------------------------------------------
(* The worker.                                                              *)

LEMMA SpawnKeeps == ASSUME CInv, Spawn PROVE CInv'
<1>. USE DEF Spawn, Goto, streams, clocks
<1>1. Stream' = Stream /\ Output' = Output
  BY CallStays
<1>2. child = "none" /\ outcome = "none" /\ holds = {} /\ exit = "none" /\ heir = "none"
  BY DEF CInv, StageFits, GroupFits, Started
<1>3. ShapesOK'
  BY <1>1 DEF CInv, ShapesOK
<1>4. TypeOK'
  BY <1>1 DEF CInv, TypeOK
<1>5. StageFits' /\ GroupFits'
  BY <1>2 DEF StageFits, GroupFits, Started, Polling
<1>6. VerdictFits'
  BY DEF CInv, VerdictFits
<1>7. \A s \in Stream : StreamFits(s)'
  BY <1>1, <1>2 DEF CInv, StreamFits, Started
<1>. QED  BY <1>1, <1>2, <1>3, <1>4, <1>5, <1>6, <1>7 DEF CInv, NoneLeftBehind, Over

LEMMA SpawnFailsKeeps == ASSUME CInv, SpawnFails PROVE CInv'
<1>. USE DEF SpawnFails, Goto, Quiet, processes, streams, clocks
<1>1. Stream' = Stream /\ Output' = Output
  BY CallStays
<1>2. child = "none" /\ outcome = "none" /\ group = {}
  BY DEF CInv, StageFits
<1>3. ShapesOK'
  BY <1>1 DEF CInv, ShapesOK, States
<1>4. TypeOK'
  BY <1>1 DEF CInv, TypeOK
<1>5. StageFits' /\ GroupFits'
  BY DEF CInv, StageFits, GroupFits, Started, Polling
<1>6. VerdictFits'
  BY DEF CInv, VerdictFits
<1>7. \A s \in Stream : StreamFits(s)'
  BY <1>1 DEF CInv, StreamFits, Started
<1>8. Victims' = {}
  BY <1>2 DEF Victims
<1>. QED  BY <1>1, <1>3, <1>4, <1>5, <1>6, <1>7, <1>8 DEF CInv, NoneLeftBehind

\* A test of the polling loop that finds nothing.
LEMMA GoesOn ==
    ASSUME CInv, pc \in Polling, pc' \in Polling,
           UNCHANGED <<processes, streams, clocks, cancelled, verdict, got, cleanup, child,
                       outcome>>
    PROVE  CInv'
<1>. USE DEF processes, streams, clocks
<1>1. Stream' = Stream /\ Output' = Output
  BY CallStays
<1>2. ShapesOK'
  BY <1>1 DEF CInv, ShapesOK
<1>3. TypeOK'
  BY <1>1 DEF CInv, TypeOK, Polling
<1>4. StageFits' /\ GroupFits'
  BY DEF CInv, StageFits, GroupFits, Started, Polling
<1>5. VerdictFits'
  BY DEF CInv, VerdictFits, Polling
<1>6. \A s \in Stream : StreamFits(s)'
  BY <1>1 DEF CInv, StreamFits, Started
<1>. QED
  BY <1>1, <1>2, <1>3, <1>4, <1>5, <1>6 DEF CInv, StageFits, NoneLeftBehind, Over

\* The end of the wait: ssh ended, or the group is dead.
LEMMA DecideKeeps ==
    ASSUME CInv, pc \in Polling, NEW what \in Verdicts, Decide(what),
           UNCHANGED <<streams, clocks, cancelled, got, outcome>>,
           \/ what = "exited" /\ Exited /\ UNCHANGED <<processes, cleanup>>
           \/ what # "exited" /\ KillAndReap,
           what = "timed_out" => timeout, what = "cancelled" => cancelled,
           cleanup' \in BOOLEAN
    PROVE  CInv'
<1>. USE DEF streams, clocks, Decide, Goto
<1>1. Stream' = Stream /\ Output' = Output
  BY CallStays
<1>2. Started /\ Started' /\ outcome = "none" /\ cleanup
  BY DEF CInv, StageFits, Started
<1>3. /\ exit' \in {"none", "ok", "error", "killed"} /\ exit' # "none"
      /\ exit # "none" => exit' = exit
      /\ exit' \in {"ok", "error"} => exit' = exit
      /\ heir' \in {"none", "running", "gone"}
      /\ group' \subseteq {"ssh", "heir"} /\ holds' \subseteq {"ssh", "heir"}
      /\ holds = {} => holds' = {}
      /\ GroupFits'
  <2>1. CASE what = "exited"
    BY <1>2, <2>1 DEF Exited, processes, CInv, TypeOK, GroupFits
  <2>2. CASE what # "exited"
    BY <1>2, <2>2, Killed
  <2>. QED  BY <2>1, <2>2
<1>4. ShapesOK'
  BY <1>1 DEF CInv, ShapesOK
<1>5. TypeOK'
  BY <1>1, <1>3 DEF CInv, TypeOK, Verdicts
<1>6. StageFits'
  BY <1>2 DEF StageFits, Polling
<1>7. VerdictFits'
  <2>1. CASE what = "exited"
    BY <1>2, <2>1 DEF VerdictFits, Exited, processes
  <2>2. CASE what # "exited"
    <3>1. Victims' = {}
      BY <1>2, <2>2, Killed
    <3>. QED  BY <1>3, <2>2, <3>1 DEF VerdictFits
  <2>. QED  BY <2>1, <2>2
<1>8. \A s \in Stream : StreamFits(s)'
  BY <1>1, <1>2, <1>3 DEF CInv, StreamFits
<1>. QED
  BY <1>1, <1>2, <1>4, <1>5, <1>6, <1>7, <1>8, <1>3 DEF CInv, NoneLeftBehind, Over

LEMMA PollExitedKeeps == ASSUME CInv, PollExited PROVE CInv'
<1>1. pc \in Polling /\ "exited" \in Verdicts
  BY DEF PollExited, Polling, Verdicts
<1>2. cleanup' \in BOOLEAN
  BY DEF PollExited, CInv, ShapesOK
<1>. QED  BY <1>1, <1>2, DecideKeeps DEF PollExited, Quiet

LEMMA PollRunningKeeps == ASSUME CInv, PollRunning PROVE CInv'
<1>1. pc \in Polling /\ pc' \in Polling
  BY DEF PollRunning, Polling, Goto
<1>. QED  BY <1>1, GoesOn DEF PollRunning, Quiet

LEMMA TestKeeps ==
    ASSUME CInv, NEW place \in Polling, NEW next \in Polling, NEW holdsNow,
           NEW what \in Verdicts \ {"exited"}, Test(place, holdsNow, what, next),
           holdsNow \in BOOLEAN,
           what = "timed_out" /\ holdsNow => timeout,
           what = "cancelled" /\ holdsNow => cancelled
    PROVE  CInv'
<1>1. CASE holdsNow
  BY <1>1, DecideKeeps DEF Test
<1>2. CASE ~ holdsNow
  BY <1>2, GoesOn DEF Test, Goto
<1>. QED  BY <1>1, <1>2

LEMMA TestsKeep ==
    ASSUME CInv, TestCancellation \/ TestTime \/ TestCapture PROVE CInv'
<1>1. {"poll", "cancellation", "time", "capture"} \subseteq Polling
  BY DEF Polling
<1>2. {"cancelled", "timed_out", "capture_failed"} \subseteq Verdicts \ {"exited"}
  BY DEF Verdicts
<1>3. cancelled \in BOOLEAN /\ captureFailed \in BOOLEAN /\ (timeout /\ expired) \in BOOLEAN
  BY DEF CInv, ShapesOK
<1>4. CASE TestCancellation
  BY <1>1, <1>2, <1>3, <1>4, TestKeeps DEF TestCancellation
<1>5. CASE TestTime
  BY <1>1, <1>2, <1>3, <1>5, TestKeeps DEF TestTime
<1>6. CASE TestCapture
  BY <1>1, <1>2, <1>3, <1>6, TestKeeps DEF TestCapture
<1>. QED  BY <1>4, <1>5, <1>6

LEMMA WaitFailsKeeps == ASSUME CInv, WaitFails PROVE CInv'
<1>1. pc \in Polling /\ "wait_failed" \in Verdicts
  BY DEF WaitFails, Polling, Verdicts
<1>2. cleanup' \in BOOLEAN
  BY DEF WaitFails
<1>. QED  BY <1>1, <1>2, DecideKeeps DEF WaitFails

LEMMA DrainKeeps == ASSUME CInv, NEW s \in Stream, Drain(s) PROVE CInv'
<1>. USE DEF Drain, Quiet, processes, streams, clocks
<1>1. Stream' = Stream /\ Output' = Output
  BY CallStays
<1>2. /\ got' \in [Stream -> {"none", "whole", "broken"}]
      /\ \A r \in Stream : got'[r] = "whole" => message[r] = "whole"
  BY DEF CInv, ShapesOK, StreamFits
<1>3. ShapesOK'
  BY <1>1, <1>2 DEF CInv, ShapesOK
<1>4. TypeOK'
  BY <1>1, <1>2 DEF CInv, TypeOK
<1>5. StageFits' /\ GroupFits'
  BY DEF CInv, StageFits, GroupFits, Started, Polling
<1>6. VerdictFits'
  BY DEF CInv, VerdictFits, Victims
<1>7. \A r \in Stream : StreamFits(r)'
  BY <1>1, <1>2 DEF CInv, StreamFits, Started
<1>. QED
  BY <1>1, <1>3, <1>4, <1>5, <1>6, <1>7 DEF CInv, StageFits, NoneLeftBehind, Over

\* The call returns, with nobody left whom the guard would have to kill, or
\* with the end of a client that was heard out.
LEMMA ReturnKeeps ==
    ASSUME CInv, pc = "drain", pc' = "done", cleanup' = FALSE, outcome' \in States,
           UNCHANGED <<streams, clocks, cancelled, verdict, got, child>>,
           KillAndReap \/ UNCHANGED processes,
           \/ Victims' = {}
           \/ exit \in {"ok", "error"} /\ \A s \in Stream : message[s] = "whole",
           outcome' = "succeeded" => exit = "ok" /\ \A s \in Stream : message[s] = "whole"
    PROVE  CInv'
<1>. USE DEF streams, clocks
<1>1. Stream' = Stream /\ Output' = Output
  BY CallStays
<1>2. Started /\ Started' /\ exit # "none"
  BY DEF CInv, StageFits, VerdictFits, Started
<1>3. /\ exit' = exit
      /\ heir' \in {"none", "running", "gone"}
      /\ group' \subseteq {"ssh", "heir"} /\ holds' \subseteq {"ssh", "heir"}
      /\ holds = {} => holds' = {}
      /\ GroupFits'
  <2>1. CASE UNCHANGED processes
    BY <2>1 DEF processes, CInv, TypeOK, GroupFits, Started
  <2>2. CASE KillAndReap
    BY <1>2, <2>2, Killed
  <2>. QED  BY <2>1, <2>2
<1>4. ShapesOK'
  BY <1>1 DEF CInv, ShapesOK
<1>5. TypeOK'
  BY <1>1, <1>3 DEF CInv, TypeOK
<1>6. StageFits'
  BY DEF StageFits, Polling, States
<1>7. VerdictFits'
  BY <1>3 DEF CInv, VerdictFits
<1>8. \A s \in Stream : StreamFits(s)'
  BY <1>1, <1>2, <1>3 DEF CInv, StreamFits
<1>9. NoneLeftBehind'
  BY <1>1, <1>3 DEF NoneLeftBehind
<1>. QED
  BY <1>1, <1>3, <1>4, <1>5, <1>6, <1>7, <1>8, <1>9 DEF CInv

LEMMA StateOfFits ==
    ASSUME CInv, verdict \in Verdicts
    PROVE  /\ StateOf(verdict) \in States
           /\ StateOf(verdict) = "succeeded" => verdict = "exited" /\ exit = "ok"
BY DEF StateOf, Verdicts, States

LEMMA ReleaseKeeps == ASSUME CInv, Release PROVE CInv'
<1>1. pc = "drain" /\ verdict = "exited" /\ \A s \in Stream : got[s] \notin {"none", "broken"}
  BY DEF Release, AllDrained, Unreadable
<1>2. \A s \in Stream : message[s] = "whole"
  BY <1>1 DEF CInv, TypeOK, StreamFits
<1>3. exit \in {"ok", "error"} /\ verdict \in Verdicts
  BY <1>1 DEF CInv, VerdictFits, Verdicts
<1>. QED
  BY <1>1, <1>2, <1>3, StateOfFits, ReturnKeeps DEF Release, Quiet, Goto

LEMMA GiveUpKeeps == ASSUME CInv, GiveUp PROVE CInv'
<1>1. pc = "drain" /\ verdict \in Verdicts /\ Started
  BY DEF GiveUp, AllDrained, CInv, StageFits, Started
<1>2. outcome' \in States \ {"succeeded"}
  BY <1>1, StateOfFits DEF GiveUp, States
<1>3. Started' /\ call' = call
  BY <1>1 DEF GiveUp, Started, clocks
<1>4. KillAndReap \/ UNCHANGED processes
  BY DEF GiveUp, LetGo
<1>5. Victims' = {}
  <2>1. CASE cleanup
    BY <1>1, <1>3, <2>1, Killed DEF GiveUp, LetGo
  <2>2. CASE ~ cleanup
    <3>1. Victims = {}
      BY <1>1, <2>2 DEF CInv, VerdictFits
    <3>. QED  BY <1>3, <2>2, <3>1 DEF GiveUp, LetGo, processes, Victims
  <2>. QED  BY <2>1, <2>2
<1>. QED  BY <1>1, <1>2, <1>4, <1>5, ReturnKeeps DEF GiveUp, Goto

-----------------------------------------------------------------------------
(* Time, signals, and the theorems.                                         *)

LEMMA ClockKeeps ==
    ASSUME CInv, Expire \/ DrainExpires \/ SignalArrives \/ UNCHANGED vars PROVE CInv'
<1>1. /\ UNCHANGED <<processes, streams, call, timeout, worker>>
      /\ {expired, drained, cancelled}' \subseteq BOOLEAN
      /\ cancelled => cancelled'
  <2>1. {expired, drained, cancelled} \subseteq BOOLEAN
    BY DEF CInv, ShapesOK
  <2>2. CASE Expire
    BY <2>1, <2>2 DEF Expire
  <2>3. CASE DrainExpires
    BY <2>1, <2>3 DEF DrainExpires
  <2>4. CASE SignalArrives
    BY <2>1, <2>4 DEF SignalArrives, Cancel, clocks, worker
  <2>5. CASE UNCHANGED vars
    BY <2>1, <2>5 DEF vars, clocks
  <2>. QED  BY <2>2, <2>3, <2>4, <2>5
<1>. USE DEF processes, streams, worker
<1>2. Stream' = Stream /\ Output' = Output
  BY <1>1, CallStays
<1>3. ShapesOK'
  BY <1>1, <1>2 DEF CInv, ShapesOK
<1>4. TypeOK'
  BY <1>1, <1>2 DEF CInv, TypeOK
<1>5. StageFits' /\ GroupFits'
  BY <1>1 DEF CInv, StageFits, GroupFits, Started
<1>6. VerdictFits' /\ NoneLeftBehind'
  BY <1>1, <1>2 DEF CInv, VerdictFits, NoneLeftBehind, Over, Victims
<1>7. \A s \in Stream : StreamFits(s)'
  BY <1>1, <1>2 DEF CInv, StreamFits, Started
<1>. QED  BY <1>1, <1>2, <1>3, <1>4, <1>5, <1>6, <1>7 DEF CInv

LEMMA InitHolds == Init => CInv
<1>. SUFFICES ASSUME Init PROVE CInv
  OBVIOUS
<1>. USE DEF Init, ContractInit
<1>1. ShapesOK
  <2>1. {captureFailed, expired, drained, cancelled, cleanup} \subseteq BOOLEAN
    OBVIOUS
  <2>2. {written, pipe, kept, lost} \subseteq [Stream -> Nat]
    OBVIOUS
  <2>3. /\ reader \in [Stream -> {"reading", "broken", "ended"}]
        /\ {message, got} \subseteq [Stream -> {"none", "whole", "broken"}]
    OBVIOUS
  <2>. QED  BY <2>1, <2>2, <2>3 DEF ShapesOK
<1>2. TypeOK
  BY CaptureAssumption DEF TypeOK
<1>3. StageFits /\ GroupFits /\ VerdictFits
  BY DEF StageFits, GroupFits, VerdictFits, Started, Polling
<1>4. \A s \in Stream : StreamFits(s)
  BY CaptureAssumption DEF StreamFits
<1>. QED  BY <1>1, <1>2, <1>3, <1>4 DEF CInv, NoneLeftBehind, Over

LEMMA NextKeeps == CInv /\ [Next]_vars => CInv'
<1>. SUFFICES ASSUME CInv, [Next]_vars PROVE CInv'
  OBVIOUS
<1>1. CASE Worker
  BY <1>1, SpawnKeeps, SpawnFailsKeeps, PollExitedKeeps, PollRunningKeeps, TestsKeep,
     WaitFailsKeeps, DrainKeeps, ReleaseKeeps, GiveUpKeeps
     DEF Worker
<1>2. CASE Ssh \/ Fork \/ HeirSteps
  BY <1>2, WriteKeeps, SshExitsKeeps, ForkKeeps, HeirStepsKeeps DEF Ssh
<1>3. CASE \E s \in Stream : Reader(s) \/ ReadFails(s)
  BY <1>3, ReadKeeps, EndOfFileKeeps, SendBrokenKeeps, ReadFailsKeeps DEF Reader
<1>. QED  BY <1>1, <1>2, <1>3, ClockKeeps DEF Next

LEMMA Invariance == Spec => []CInv
BY InitHolds, NextKeeps, PTL DEF Spec

\* The state of a captured or inherited call keeps its types; what is kept of
\* a stream never passes the limit, and what was written is unread, kept or
\* dropped.
THEOREM CallTypes == Spec => []TypeOK
<1>1. CInv => TypeOK
  BY DEF CInv
<1>. QED  BY <1>1, Invariance, PTL

\* When execute_captured or run_inherited returns, no process it would have to
\* kill runs, unless ssh ended by itself and was read to the end: whatever
\* failed, in whatever order ssh, its descendant and the readers ran.
THEOREM NobodyIsLeft == Spec => []NoneLeftBehind
<1>1. CInv => NoneLeftBehind
  BY DEF CInv
<1>. QED  BY <1>1, Invariance, PTL

\* A success reported by execute_captured is a command that ended with status
\* 0 and whose every stream was read to its end and kept up to the limit.
THEOREM SuccessesAreWhole == Spec => []SuccessIsWhole
<1>1. CInv => SuccessIsWhole
  <2>. SUFFICES ASSUME CInv, outcome = "succeeded" PROVE SuccessIsWhole
    BY DEF SuccessIsWhole
  <2>1. exit = "ok" /\ \A s \in Stream : message[s] = "whole"
    BY DEF CInv
  <2>2. ASSUME call.captured PROVE holds = {}
    <3>1. Stream # {}
      BY <2>2, CallFacts
    <3>. QED  BY <2>1, <3>1 DEF CInv, StreamFits
  <2>3. ASSUME NEW s \in Stream
        PROVE  kept[s] + lost[s] = Output[s] /\ kept[s] = Minimum(Limit, Output[s])
    <3>1. {written[s], pipe[s], kept[s], lost[s]} \subseteq Nat /\ Limit \in Nat
      BY CallFacts DEF CInv, ShapesOK
    <3>2. StreamFits(s) /\ pipe[s] = 0 /\ written[s] = Output[s]
      BY <2>1 DEF CInv, StreamFits
    <3>3. kept[s] + lost[s] = Output[s]
      BY <3>1, <3>2 DEF StreamFits
    <3>. QED  BY <3>1, <3>2, <3>3 DEF StreamFits, Minimum
  <2>. QED  BY <2>1, <2>2, <2>3 DEF SuccessIsWhole
<1>. QED  BY <1>1, Invariance, PTL

LEMMA NextKeepsPromise == CInv /\ [Next]_vars => [ContractNext]_contractVars
<1>. SUFFICES ASSUME CInv, [Next]_vars PROVE [ContractNext]_contractVars
  OBVIOUS
<1>. USE DEF contractVars
<1>1. CASE UNCHANGED <<clocks, worker, cancelled>>
  BY <1>1 DEF clocks, worker
<1>2. CASE Spawn \/ SpawnFails
  BY <1>2 DEF Spawn, SpawnFails, Quiet, clocks, ContractNext, Start, Refuse, CInv, StageFits
<1>3. CASE PollRunning \/ \E s \in Stream : Drain(s)
  BY <1>3 DEF PollRunning, Drain, Quiet, clocks
<1>4. ASSUME NEW what, pc \in Polling, Decide(what), UNCHANGED <<clocks, cancelled, outcome>>
      PROVE  Reap
  BY <1>4 DEF Decide, Reap, clocks, CInv, StageFits
<1>5. CASE PollExited \/ TestCancellation \/ TestTime \/ TestCapture \/ WaitFails
  <2>1. \/ pc \in Polling /\ UNCHANGED <<clocks, cancelled, outcome>> /\ \E what : Decide(what)
        \/ UNCHANGED <<clocks, cancelled, outcome, child>>
    <3>1. CASE PollExited
      BY <3>1 DEF PollExited, Quiet, Polling
    <3>2. CASE TestCancellation \/ TestTime \/ TestCapture
      BY <3>2 DEF TestCancellation, TestTime, TestCapture, Test, Polling
    <3>3. CASE WaitFails
      BY <3>3 DEF WaitFails, Polling
    <3>. QED  BY <1>5, <3>1, <3>2, <3>3
  <2>. QED  BY <1>4, <2>1 DEF clocks, ContractNext
<1>6. CASE Release \/ GiveUp
  <2>1. pc = "drain" /\ verdict \in Verdicts /\ child = "gone" /\ outcome = "none"
    BY <1>6 DEF Release, GiveUp, AllDrained, CInv, StageFits
  <2>2. outcome' \in {StateOf(verdict), "failed"}
    BY <1>6 DEF Release, GiveUp
  <2>3. outcome' \in States /\ Reason(outcome')
    BY <2>1, <2>2, StateOfFits DEF StateOf, Verdicts, States, Reason, CInv, VerdictFits
  <2>4. UNCHANGED <<timeout, child, cancelled>>
    BY <1>6 DEF Release, GiveUp, Quiet, clocks
  <2>. QED  BY <2>1, <2>3, <2>4 DEF Return, States, ContractNext
<1>7. CASE Ssh \/ Fork \/ HeirSteps \/ \E s \in Stream : Reader(s) \/ ReadFails(s)
  BY <1>1, <1>7
     DEF Ssh, Write, SshExits, Fork, HeirSteps, Reader, Read, EndOfFile, SendBroken, ReadFails
<1>8. CASE Expire \/ DrainExpires \/ SignalArrives
  BY <1>8 DEF Expire, DrainExpires, SignalArrives, worker, clocks, ContractNext
<1>9. CASE UNCHANGED vars
  BY <1>1, <1>9 DEF vars
<1>. QED  BY <1>2, <1>3, <1>5, <1>6, <1>7, <1>8, <1>9 DEF Next, Worker

\* A call of execute_captured keeps what SshBatch takes for granted of it: one
\* process at most, gone before its outcome is known, and an outcome for which
\* there is a reason.
THEOREM CallKeepsContract == Spec => ContractSpec
<1>1. Init => ContractInit
  <2>1. Init => timeout \in BOOLEAN
    BY CaptureAssumption DEF Init
  <2>. QED  BY <2>1 DEF Init
<1>. QED  BY <1>1, NextKeepsPromise, Invariance, PTL DEF Spec, ContractSpec
=============================================================================
