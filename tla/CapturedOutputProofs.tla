------------------------ MODULE CapturedOutputProofs ------------------------
(* What hb writes and keeps of output: the share of a stream and the budget *)
(* of the batch, for every number of targets and every limit; the tools of  *)
(* the doctor; what a reader of a report has back; the story of any         *)
(* invocation; and how a line is read that clap refused, whatever is on it. *)
EXTENDS OutputParts, CommandPath, FiniteSetTheorems, SequenceTheorems,
        WellFoundedInduction, TLAPS

LEMMA BudgetConstants == {MaxStream, MaxBatch, MaxTargets, MaxWritten} \subseteq Nat
  BY PartsAssumption DEF Sharing!BudgetAssumption

\* Division rounds down: so many times the quotient is within the dividend.
LEMMA QuotientFits ==
    ASSUME NEW m \in Nat, NEW d \in Nat \ {0}
    PROVE  m \div d \in Nat /\ d * (m \div d) <= m
  OBVIOUS

\* ... and what fits that many times is within the quotient.
LEMMA RoomFits ==
    ASSUME NEW m \in Nat, NEW d \in Nat \ {0}, NEW k \in Nat, d * k <= m
    PROVE  k <= m \div d
<1> DEFINE q == m \div d
<1>1. q \in Nat /\ m < d * (q + 1)
  OBVIOUS
<1>2. CASE k >= q + 1
  <2>1. d * (q + 1) <= d * k
    BY <1>1, <1>2
  <2> QED BY <1>1, <2>1
<1> QED BY <1>1, <1>2

\* The limit of a stream, times the streams of that many targets, is within the
\* budget.
LEMMA LimitFits ==
    ASSUME NEW count \in Nat
    PROVE  Sharing!Limit(count) \in Nat /\ 2 * count * Sharing!Limit(count) <= MaxBatch
<1> DEFINE streams == Sharing!Larger(2 * count, 1)
           share == MaxBatch \div streams
<1>1. streams \in Nat \ {0} /\ 2 * count <= streams
  BY DEF Sharing!Larger
<1>2. share \in Nat /\ streams * share <= MaxBatch
  BY <1>1, QuotientFits, BudgetConstants
<1>3. Sharing!Limit(count) \in Nat /\ Sharing!Limit(count) <= share
  BY <1>2, BudgetConstants DEF Sharing!Limit, Sharing!Smaller
<1>4. 2 * count * Sharing!Limit(count) <= streams * share
  <2> HIDE DEF streams, share
  <2>1. 2 * count * Sharing!Limit(count) <= streams * Sharing!Limit(count)
    BY <1>1, <1>3
  <2>2. streams * Sharing!Limit(count) <= streams * share
    BY <1>1, <1>2, <1>3
  <2> QED BY <2>1, <2>2, <1>1, <1>2, <1>3
<1> QED BY <1>1, <1>2, <1>3, <1>4, BudgetConstants

\* A stream of every target may have MaxStream when the budget has room for it.
LEMMA OrdinaryLimit ==
    ASSUME NEW count \in Nat \ {0}, 2 * count * MaxStream <= MaxBatch
    PROVE  Sharing!Limit(count) = MaxStream
<1> DEFINE streams == 2 * count
<1>1. streams \in Nat \ {0} /\ Sharing!Larger(2 * count, 1) = streams
  BY DEF Sharing!Larger
<1>2. streams * MaxStream <= MaxBatch
  OBVIOUS
<1> HIDE DEF streams
<1>3. MaxStream <= MaxBatch \div streams
  BY <1>1, <1>2, BudgetConstants, RoomFits
<1> QED BY <1>1, <1>3 DEF Sharing!Limit, Sharing!Smaller, streams

-----------------------------------------------------------------------------

\* Until the batch starts nothing is written; from then on a stream has what was
\* written of it up to the limit, and is marked when that is not all.
Kept(s) ==
    /\ kept[s] = Sharing!Smaller(wrote[s], limit)
    /\ truncated[s] <=> wrote[s] > limit

Budget ==
    /\ Sharing!TypeOK
    /\ phase = "prepared" => limit = 0 /\ \A s \in Sharing!Streams : wrote[s] = 0
    /\ phase # "prepared" /\ run > 0 => limit = Sharing!Limit(run)
    /\ run = 0 => limit = 0
    /\ phase = "running" => run > 0
    /\ phase = "reported" /\ run > 0 => said = limit
    /\ \A s \in Sharing!Streams : Kept(s)

LEMMA BudgetInit == Sharing!Init => Budget
<1> SUFFICES ASSUME Sharing!Init PROVE Budget
  OBVIOUS
<1>1. Sharing!TypeOK
  BY BudgetConstants DEF Sharing!Init, Sharing!TypeOK
<1>2. ASSUME NEW s \in Sharing!Streams PROVE Kept(s)
  <2>1. wrote[s] = 0 /\ kept[s] = 0 /\ truncated[s] = FALSE /\ limit = 0
    BY DEF Sharing!Init
  <2> QED BY <2>1 DEF Kept, Sharing!Smaller
<1> QED BY <1>1, <1>2 DEF Budget, Sharing!Init

LEMMA StartKeepsBudget ==
    ASSUME Budget, Sharing!Start
    PROVE  Budget'
<1>1. limit' \in Nat /\ limit' = Sharing!Limit(run) /\ run' = run /\ run > 0
  BY LimitFits DEF Sharing!Start, Budget, Sharing!TypeOK
<1>2. Sharing!Streams' = Sharing!Streams
  BY DEF Sharing!Start, Sharing!Streams
<1>3. Sharing!TypeOK'
  BY <1>1, <1>2 DEF Sharing!Start, Budget, Sharing!TypeOK
<1>4. ASSUME NEW s \in Sharing!Streams PROVE Kept(s)'
  <2>1. wrote[s] = 0 /\ kept[s] = 0 /\ ~ truncated[s]
    <3>1. wrote[s] = 0 /\ limit = 0 /\ Kept(s) /\ truncated[s] \in BOOLEAN
      BY DEF Budget, Sharing!Start, Sharing!TypeOK
    <3> QED BY <3>1 DEF Kept, Sharing!Smaller
  <2> QED BY <1>1, <2>1 DEF Sharing!Start, Kept, Sharing!Smaller
<1>5. Sharing!Limit(run)' = Sharing!Limit(run')
  BY DEF Sharing!Limit
<1> QED BY <1>1, <1>2, <1>3, <1>4, <1>5 DEF Budget, Sharing!Start, Sharing!TypeOK

\* Of a read, what fits under the limit is kept.
LEMMA ReadFits ==
    ASSUME NEW w \in Nat, NEW l \in Nat, NEW n \in Nat \ {0}
    PROVE  LET fits == Sharing!Smaller(l - Sharing!Smaller(w, l), n)
           IN /\ fits \in Nat
              /\ Sharing!Smaller(w, l) + fits = Sharing!Smaller(w + n, l)
              /\ (w > l \/ fits < n) <=> w + n > l
  BY DEF Sharing!Smaller

LEMMA ReadKeepsBudget ==
    ASSUME Budget, NEW s \in Sharing!Streams, Sharing!Read(s)
    PROVE  Budget'
<1>1. PICK n \in 1 .. MaxWritten - wrote[s] :
         /\ wrote' = [wrote EXCEPT ![s] = @ + n]
         /\ kept' = [kept EXCEPT ![s] = @ + Sharing!Smaller(limit - kept[s], n)]
         /\ truncated' = [truncated EXCEPT ![s] = @ \/ Sharing!Smaller(limit - kept[s], n) < n]
  BY DEF Sharing!Read
<1> DEFINE fits == Sharing!Smaller(limit - kept[s], n)
<1>2. /\ n \in Nat \ {0} /\ wrote[s] \in Nat /\ kept[s] \in Nat /\ limit \in Nat
      /\ truncated[s] \in BOOLEAN
  BY <1>1, BudgetConstants DEF Budget, Sharing!TypeOK
<1>3. kept[s] = Sharing!Smaller(wrote[s], limit) /\ (truncated[s] <=> wrote[s] > limit)
  BY DEF Budget, Kept
<1>4. /\ fits \in Nat
      /\ kept[s] + fits = Sharing!Smaller(wrote[s] + n, limit)
      /\ (truncated[s] \/ fits < n) <=> wrote[s] + n > limit
  BY <1>2, <1>3, ReadFits
<1>5. /\ Sharing!Streams' = Sharing!Streams
      /\ limit' = limit /\ run' = run /\ phase' = phase /\ phase = "running"
  BY DEF Sharing!Read, Sharing!Streams
<1>6. kept' = [kept EXCEPT ![s] = kept[s] + fits]
  BY <1>1 DEF Budget, Sharing!TypeOK
<1>7. truncated' = [truncated EXCEPT ![s] = (truncated[s] \/ fits < n)]
  BY <1>1 DEF Budget, Sharing!TypeOK
<1>8. wrote' = [wrote EXCEPT ![s] = wrote[s] + n]
  BY <1>1 DEF Budget, Sharing!TypeOK
<1> HIDE DEF fits
<1>9. Sharing!TypeOK'
  <2>1. kept' \in [Sharing!Streams -> Nat] /\ wrote' \in [Sharing!Streams -> Nat]
    BY <1>2, <1>4, <1>6, <1>8 DEF Budget, Sharing!TypeOK
  <2>2. truncated' \in [Sharing!Streams -> BOOLEAN]
    BY <1>4, <1>7 DEF Budget, Sharing!TypeOK
  <2> QED BY <1>5, <2>1, <2>2 DEF Sharing!Read, Budget, Sharing!TypeOK
<1>10. ASSUME NEW t \in Sharing!Streams PROVE Kept(t)'
  <2>1. CASE t = s
    <3>1. /\ wrote'[s] = wrote[s] + n /\ kept'[s] = kept[s] + fits
          /\ truncated'[s] = (truncated[s] \/ fits < n)
      BY <1>6, <1>7, <1>8 DEF Budget, Sharing!TypeOK
    <3> QED BY <1>4, <1>5, <2>1, <3>1 DEF Kept, Sharing!Smaller
  <2>2. CASE t # s
    <3>1. wrote'[t] = wrote[t] /\ kept'[t] = kept[t] /\ truncated'[t] = truncated[t]
      BY <1>6, <1>7, <1>8, <2>2 DEF Budget, Sharing!TypeOK
    <3>2. Kept(t)
      BY DEF Budget
    <3> QED BY <1>5, <3>1, <3>2 DEF Kept, Sharing!Smaller
  <2> QED BY <2>1, <2>2
<1>11. Sharing!Limit(run)' = Sharing!Limit(run)
  BY <1>5 DEF Sharing!Limit
<1> QED BY <1>5, <1>9, <1>10, <1>11 DEF Budget, Sharing!Read

LEMMA ReportKeepsBudget ==
    ASSUME Budget, Sharing!Report
    PROVE  Budget'
<1>1. Sharing!Streams' = Sharing!Streams /\ Sharing!Limit(run)' = Sharing!Limit(run)
  BY DEF Sharing!Report, Sharing!Streams, Sharing!Limit
<1>2. said' \in Nat
  BY LimitFits DEF Sharing!Report, Budget, Sharing!TypeOK
<1>3. Sharing!TypeOK'
  BY <1>1, <1>2 DEF Sharing!Report, Budget, Sharing!TypeOK
<1>4. \A s \in Sharing!Streams : Kept(s)'
  BY DEF Sharing!Report, Budget, Kept, Sharing!Smaller
<1>5. run > 0 => phase = "running" /\ limit = Sharing!Limit(run)
  BY DEF Sharing!Report, Budget, Sharing!TypeOK
<1> QED BY <1>1, <1>3, <1>4, <1>5 DEF Budget, Sharing!Report, Sharing!TypeOK

LEMMA BudgetStep == Budget /\ [Sharing!Next]_(Sharing!vars) => Budget'
<1> SUFFICES ASSUME Budget, [Sharing!Next]_(Sharing!vars) PROVE Budget'
  OBVIOUS
<1>1. CASE Sharing!Start
  BY <1>1, StartKeepsBudget
<1>2. CASE \E s \in Sharing!Streams : Sharing!Read(s)
  BY <1>2, ReadKeepsBudget
<1>3. CASE Sharing!Report
  BY <1>3, ReportKeepsBudget
<1>4. CASE UNCHANGED Sharing!vars
  BY <1>4 DEF Sharing!vars, Budget, Sharing!TypeOK, Kept, Sharing!Limit, Sharing!Smaller,
              Sharing!Larger, Sharing!Streams
<1> QED BY <1>1, <1>2, <1>3, <1>4 DEF Sharing!Next

-----------------------------------------------------------------------------

LEMMA BudgetGivesShares == Budget => SharesAreKept
<1> SUFFICES ASSUME Budget PROVE SharesAreKept
  OBVIOUS
<1>1. run \in Nat /\ limit \in Nat /\ limit <= Sharing!Limit(run) /\ Sharing!Limit(run) \in Nat
  BY LimitFits DEF Budget, Sharing!TypeOK
<1>2. \A s \in Sharing!Streams :
         /\ wrote[s] \in Nat /\ kept[s] = Sharing!Smaller(wrote[s], limit)
         /\ truncated[s] \in BOOLEAN /\ (truncated[s] <=> wrote[s] > limit)
  BY DEF Budget, Sharing!TypeOK, Kept
<1>3. Sharing!WithinShare
  <2>1. 2 * run * limit <= 2 * run * Sharing!Limit(run)
    BY <1>1
  <2>2. 2 * run * Sharing!Limit(run) <= MaxBatch
    BY <1>1, LimitFits
  <2>3. 2 * run * limit <= MaxBatch
    BY <1>1, <2>1, <2>2, BudgetConstants
  <2> QED BY <1>1, <1>2, <2>3 DEF Sharing!WithinShare, Sharing!Smaller
<1>4. Sharing!OrdinaryBatchesKeepAll
  <2> SUFFICES ASSUME 2 * run * MaxStream <= MaxBatch, NEW s \in Sharing!Streams,
                      wrote[s] <= MaxStream
               PROVE  kept[s] = wrote[s] /\ ~ truncated[s]
    BY DEF Sharing!OrdinaryBatchesKeepAll
  <2>1. run \in Nat \ {0}
    BY <1>1 DEF Sharing!Streams
  <2>2. Sharing!Limit(run) = MaxStream
    BY <2>1, OrdinaryLimit
  <2>3. wrote[s] <= limit
    BY <2>1, <2>2, <1>1, BudgetConstants DEF Budget
  <2> QED BY <1>1, <1>2, <2>3 DEF Sharing!Smaller
<1>5. Sharing!SaidLimitIsTheLimit
  <2> SUFFICES ASSUME phase = "reported", NEW s \in Sharing!Streams
               PROVE  /\ kept[s] = Sharing!Smaller(wrote[s], said)
                      /\ truncated[s] = (wrote[s] > said)
    BY DEF Sharing!SaidLimitIsTheLimit
  <2>1. run > 0
    BY <1>1 DEF Sharing!Streams
  <2>2. said = limit
    BY <2>1 DEF Budget
  <2>3. truncated[s] \in BOOLEAN /\ (truncated[s] <=> wrote[s] > said)
    BY <1>2, <2>2
  <2> QED BY <1>2, <2>2, <2>3
<1> QED BY <1>3, <1>4, <1>5 DEF Budget, SharesAreKept, Sharing!SharesAreKept

\* effective_stream_capture_limit, read_bounded and the report: every stream has
\* its share of MAX_BATCH_CAPTURE_BYTES, an ordinary batch keeps everything, and
\* the report says the share, for any limits and any number of targets.
THEOREM CaptureSharesKept == Sharing!Spec => []SharesAreKept
  BY BudgetInit, BudgetStep, BudgetGivesShares, PTL DEF Sharing!Spec

-----------------------------------------------------------------------------
(* The tools of the doctor, for any probes, tools and limits.              *)

\* A thread counts what it reads, and has ended while the tool runs only if a
\* read failed.
CountsFit ==
    /\ toolWritten \in [Doctor!Stream -> Nat] /\ pipe \in [Doctor!Stream -> 0 .. PipeSize]
    /\ toolKept \in [Doctor!Stream -> 0 .. CaptureLimit] /\ lost \in [Doctor!Stream -> Nat]
    /\ reader \in [Doctor!Stream -> {"none", "reading", "ended"}]
    /\ \A s \in Doctor!Stream :
          /\ toolKept[s] + lost[s] + pipe[s] = toolWritten[s]
          /\ ~ mayBreak /\ child = "running" => reader[s] = "reading"

\* How far the probe of a tool is, and what is known then of how it ended.
ProbeFits ==
    /\ pc \in {"spawn", "wait", "join", "report"}
    /\ child \in {"none", "running", "ok", "error", "killed"}
    /\ outcome \in {"none", "exited", "timed_out", "wait_failed"}
    /\ pc \in {"wait", "join"} => Doctor!Current <= Len(Probes) /\ Doctor!Behaviour.starts
    /\ child = "running" => pc = "wait"
    /\ pc \in {"spawn", "report"} => child = "none" /\ outcome = "none"
    /\ pc = "wait" => outcome = "none" /\ child \in {"running", "ok", "error"}
    /\ outcome = "exited" => child \in {"ok", "error"}
    /\ child = "ok" => Doctor!Behaviour.ends = "ok"
    /\ ~ mayBreak /\ child = "error" => Doctor!Behaviour.ends = "error"

Check == [name : STRING, available : BOOLEAN, healthy : BOOLEAN, timedOut : BOOLEAN,
          truncated : BOOLEAN]

\* A check says of a tool what its probe did.
Earned(i) ==
    /\ checks[i].name = Probes[i].name
    /\ checks[i].healthy =>
          /\ does[i].starts
          /\ Probes[i].successRequired => does[i].ends = "ok"
          /\ ~ mayBreak => does[i].ends # "never"

ProbeInv ==
    /\ does \in [DOMAIN Probes -> Behaviours] /\ mayBreak \in BOOLEAN
    /\ checks \in Seq(Check) /\ Len(checks) <= Len(Probes)
    /\ CountsFit
    /\ ProbeFits
    /\ \A i \in DOMAIN checks : Earned(i)

LEMMA ShapeOf ==
    ASSUME Doctor!ProbeAssumption, ProbeInv
    PROVE  /\ Len(checks) \in Nat /\ DOMAIN checks = 1 .. Len(checks)
           /\ Len(Probes) \in Nat /\ DOMAIN Probes = 1 .. Len(Probes)
           /\ Doctor!Current = Len(checks) + 1
           /\ CaptureLimit \in Nat /\ PipeSize \in Nat \ {0}
           /\ \A i \in DOMAIN Probes :
                 /\ Probes[i] \in [name : STRING, successRequired : BOOLEAN]
                 /\ does[i] \in Behaviours /\ does[i].starts \in BOOLEAN
                 /\ does[i].ends \in {"ok", "error", "never"}
<1>1. /\ checks \in Seq(Check) /\ does \in [DOMAIN Probes -> Behaviours]
      /\ Probes \in Seq([name : STRING, successRequired : BOOLEAN])
      /\ CaptureLimit \in Nat /\ PipeSize \in Nat \ {0}
      /\ \A b \in Behaviours : b.starts \in BOOLEAN /\ b.ends \in {"ok", "error", "never"}
  BY DEF ProbeInv, Doctor!ProbeAssumption
<1>2. /\ Len(checks) \in Nat /\ DOMAIN checks = 1 .. Len(checks)
      /\ Len(Probes) \in Nat /\ DOMAIN Probes = 1 .. Len(Probes)
      /\ \A i \in DOMAIN Probes : Probes[i] \in [name : STRING, successRequired : BOOLEAN]
  <2>. DEFINE Listed == [name : STRING, successRequired : BOOLEAN]
  <2>1. checks \in Seq(Check) /\ Probes \in Seq(Listed)
    BY <1>1
  <2>. HIDE DEF Listed
  <2>2. /\ Len(checks) \in Nat /\ DOMAIN checks = 1 .. Len(checks)
        /\ Len(Probes) \in Nat /\ DOMAIN Probes = 1 .. Len(Probes)
        /\ Probes \in [1 .. Len(Probes) -> Listed]
    BY <2>1, LenProperties
  <2>. QED  BY <2>2 DEF Listed
<1>3. \A i \in DOMAIN Probes : does[i] \in Behaviours
  BY <1>1
<1>. QED  BY <1>1, <1>2, <1>3 DEF Doctor!Current

\* Nothing but the end of a probe adds a check.
LEMMA ChecksRest ==
    ASSUME ProbeInv, UNCHANGED <<does, mayBreak, checks>>, CountsFit', ProbeFits'
    PROVE  ProbeInv'
BY DEF ProbeInv, Earned

LEMMA SameTool ==
    ASSUME UNCHANGED <<does, mayBreak, checks>>
    PROVE  Doctor!Current' = Doctor!Current /\ Doctor!Behaviour' = Doctor!Behaviour
BY DEF Doctor!Current, Doctor!Behaviour

LEMMA WriteKeepsProbe ==
    ASSUME Doctor!ProbeAssumption, ProbeInv, NEW s \in Doctor!Stream, Doctor!Write(s)
    PROVE  ProbeInv'
<1>1. /\ UNCHANGED <<does, mayBreak, checks, pc, heir, toolKept, lost, reader, expired, outcome>>
      /\ child = "running" /\ pc = "wait" /\ outcome = "none"
  BY DEF Doctor!Write, Doctor!machine, ProbeInv, ProbeFits
<1>2. CASE reader[s] = "reading" /\ pipe[s] < PipeSize
           /\ toolWritten' = [toolWritten EXCEPT ![s] = @ + 1]
           /\ pipe' = [pipe EXCEPT ![s] = @ + 1] /\ child' = child
  <2>1. CountsFit'
    <3>1. /\ toolWritten \in [Doctor!Stream -> Nat] /\ pipe \in [Doctor!Stream -> 0 .. PipeSize]
          /\ PipeSize \in Nat
      BY ShapeOf DEF ProbeInv, CountsFit
    <3>2. pipe[s] + 1 \in 0 .. PipeSize
      BY <1>2, <3>1
    <3>3. /\ toolWritten' \in [Doctor!Stream -> Nat] /\ pipe' \in [Doctor!Stream -> 0 .. PipeSize]
      BY <1>2, <3>1, <3>2
    <3>4. ASSUME NEW t \in Doctor!Stream
          PROVE  toolKept[t] + lost[t] + pipe'[t] = toolWritten'[t]
      <4>1. /\ toolKept[t] \in Nat /\ lost[t] \in Nat /\ pipe[t] \in Nat
            /\ toolKept[t] + lost[t] + pipe[t] = toolWritten[t]
        BY ShapeOf DEF ProbeInv, CountsFit
      <4>2. CASE t = s
        BY <1>2, <3>1, <4>1, <4>2
      <4>3. CASE t # s
        BY <1>2, <3>1, <4>1, <4>3
      <4>. QED  BY <4>2, <4>3
    <3>. QED  BY <1>1, <1>2, <3>3, <3>4 DEF ProbeInv, CountsFit
  <2>2. ProbeFits'
    BY <1>1, <1>2, SameTool DEF ProbeInv, ProbeFits
  <2>. QED  BY <1>1, <2>1, <2>2, ChecksRest
<1>3. CASE reader[s] = "ended" /\ child' = "error" /\ UNCHANGED <<toolWritten, pipe>>
  <2>1. mayBreak
    BY <1>1, <1>3 DEF ProbeInv, CountsFit
  <2>2. CountsFit'
    BY <1>1, <1>3 DEF ProbeInv, CountsFit
  <2>3. ProbeFits'
    BY <1>1, <1>3, <2>1, SameTool DEF ProbeInv, ProbeFits
  <2>. QED  BY <1>1, <2>2, <2>3, ChecksRest
<1>. QED  BY <1>2, <1>3 DEF Doctor!Write

LEMMA EndKeepsProbe ==
    ASSUME Doctor!ProbeAssumption, ProbeInv, Doctor!End PROVE ProbeInv'
<1>1. /\ UNCHANGED <<does, mayBreak, checks, pc, heir, toolWritten, pipe, toolKept, lost,
                     reader, expired, outcome>>
      /\ child = "running" /\ pc = "wait" /\ outcome = "none"
      /\ child' = Doctor!Behaviour.ends /\ Doctor!Behaviour.ends # "never"
      /\ Doctor!Current <= Len(Probes)
  BY DEF Doctor!End, Doctor!machine, ProbeInv, ProbeFits
<1>2. Doctor!Behaviour.ends \in {"ok", "error", "never"}
  <2>1. Doctor!Current \in DOMAIN Probes
    BY <1>1, ShapeOf
  <2>. QED  BY <2>1, ShapeOf DEF Doctor!Behaviour
<1>3. CountsFit'
  BY <1>1, <1>2 DEF ProbeInv, CountsFit
<1>4. ProbeFits'
  BY <1>1, <1>2, SameTool DEF ProbeInv, ProbeFits
<1>. QED  BY <1>1, <1>3, <1>4, ChecksRest

LEMMA ReadKeepsProbe ==
    ASSUME Doctor!ProbeAssumption, ProbeInv, NEW s \in Doctor!Stream, Doctor!Read(s)
    PROVE  ProbeInv'
<1>1. /\ UNCHANGED <<does, mayBreak, checks, pc, child, heir, toolWritten, reader, expired,
                     outcome>>
      /\ pipe[s] > 0 /\ pipe' = [pipe EXCEPT ![s] = @ - 1]
      /\ \/ /\ toolKept[s] < CaptureLimit
            /\ toolKept' = [toolKept EXCEPT ![s] = @ + 1] /\ lost' = lost
         \/ lost' = [lost EXCEPT ![s] = @ + 1] /\ toolKept' = toolKept
  BY DEF Doctor!Read, Doctor!machine
<1>2. /\ pipe \in [Doctor!Stream -> 0 .. PipeSize] /\ lost \in [Doctor!Stream -> Nat]
      /\ toolKept \in [Doctor!Stream -> 0 .. CaptureLimit]
      /\ PipeSize \in Nat /\ CaptureLimit \in Nat
  BY ShapeOf DEF ProbeInv, CountsFit
<1>3. /\ pipe[s] - 1 \in 0 .. PipeSize /\ lost[s] + 1 \in Nat
      /\ toolKept[s] < CaptureLimit => toolKept[s] + 1 \in 0 .. CaptureLimit
  BY <1>1, <1>2
<1>4. /\ pipe' \in [Doctor!Stream -> 0 .. PipeSize] /\ lost' \in [Doctor!Stream -> Nat]
      /\ toolKept' \in [Doctor!Stream -> 0 .. CaptureLimit]
  BY <1>1, <1>2, <1>3
<1>5. ASSUME NEW t \in Doctor!Stream
      PROVE  toolKept'[t] + lost'[t] + pipe'[t] = toolWritten[t]
  <2>1. /\ toolKept[t] \in Nat /\ lost[t] \in Nat /\ pipe[t] \in Nat
        /\ toolKept[t] + lost[t] + pipe[t] = toolWritten[t]
    BY <1>2 DEF ProbeInv, CountsFit
  <2>2. CASE t = s
    BY <1>1, <1>2, <2>1, <2>2
  <2>3. CASE t # s
    BY <1>1, <1>2, <2>1, <2>3
  <2>. QED  BY <2>2, <2>3
<1>6. CountsFit'
  BY <1>1, <1>4, <1>5 DEF ProbeInv, CountsFit
<1>7. ProbeFits'
  BY <1>1, SameTool DEF ProbeInv, ProbeFits
<1>. QED  BY <1>1, <1>6, <1>7, ChecksRest

LEMMA StopKeepsProbe ==
    ASSUME ProbeInv, NEW s \in Doctor!Stream, Doctor!StopsReading(s),
           child # "running" \/ mayBreak
    PROVE  ProbeInv'
<1>1. /\ UNCHANGED <<does, mayBreak, checks, pc, child, heir, toolWritten, pipe, toolKept,
                     lost, expired, outcome>>
      /\ reader' = [reader EXCEPT ![s] = "ended"]
  BY DEF Doctor!StopsReading, Doctor!machine
<1>2. reader' \in [Doctor!Stream -> {"none", "reading", "ended"}]
  BY <1>1 DEF ProbeInv, CountsFit
<1>3. CountsFit'
  BY <1>1, <1>2 DEF ProbeInv, CountsFit
<1>4. ProbeFits'
  BY <1>1, SameTool DEF ProbeInv, ProbeFits
<1>. QED  BY <1>1, <1>3, <1>4, ChecksRest

\* Steps that change neither the counts nor the probe, but the clock, the
\* descendant, or the end of all probes.
LEMMA QuietKeepsProbe ==
    ASSUME ProbeInv, Doctor!HeirEnds \/ Doctor!Expire \/ Doctor!Report
                     \/ UNCHANGED Doctor!vars
    PROVE  ProbeInv'
<1>1. /\ UNCHANGED <<does, mayBreak, checks, child, toolWritten, pipe, toolKept, lost, reader,
                     outcome>>
      /\ pc' = pc \/ (pc = "spawn" /\ pc' = "report")
  BY DEF Doctor!HeirEnds, Doctor!Expire, Doctor!Report, Doctor!vars, Doctor!machine
<1>2. CountsFit'
  BY <1>1 DEF ProbeInv, CountsFit
<1>3. ProbeFits'
  BY <1>1, SameTool DEF ProbeInv, ProbeFits
<1>. QED  BY <1>1, <1>2, <1>3, ChecksRest

LEMMA PollKeepsProbe ==
    ASSUME ProbeInv, Doctor!Poll PROVE ProbeInv'
<1>1. /\ UNCHANGED <<does, mayBreak, checks, heir, toolWritten, pipe, toolKept, lost, reader,
                     expired>>
      /\ pc = "wait" /\ pc' = "join"
      /\ \/ outcome' = "exited" /\ child' = child /\ child \in {"ok", "error"}
         \/ outcome' \in {"timed_out", "wait_failed"} /\ child' = "killed"
         \/ outcome' = "wait_failed" /\ child' = child /\ child # "running"
  BY DEF Doctor!Poll, Doctor!Judges, Doctor!machine
<1>2. CountsFit'
  BY <1>1 DEF ProbeInv, CountsFit
<1>3. ProbeFits'
  BY <1>1, SameTool DEF ProbeInv, ProbeFits
<1>. QED  BY <1>1, <1>2, <1>3, ChecksRest

LEMMA Checked ==
    ASSUME Doctor!ProbeAssumption, ProbeInv, UNCHANGED <<does, mayBreak>>, NEW check,
           check \in Check, checks' = Append(checks, check), Doctor!Current <= Len(Probes),
           check.name = Probes[Doctor!Current].name,
           check.healthy =>
              /\ Doctor!Behaviour.starts
              /\ Probes[Doctor!Current].successRequired => Doctor!Behaviour.ends = "ok"
              /\ ~ mayBreak => Doctor!Behaviour.ends # "never"
    PROVE  /\ checks' \in Seq(Check) /\ Len(checks') <= Len(Probes)
           /\ \A i \in DOMAIN checks' : Earned(i)'
<1>1. /\ checks \in Seq(Check) /\ Len(checks) \in Nat /\ DOMAIN checks = 1 .. Len(checks)
      /\ Doctor!Current = Len(checks) + 1
  BY ShapeOf DEF ProbeInv
<1>2. /\ checks' \in Seq(Check) /\ Len(checks') = Len(checks) + 1
      /\ \A i \in 1 .. Len(checks) : checks'[i] = checks[i]
      /\ checks'[Len(checks) + 1] = check
  BY <1>1, AppendProperties
<1>3. ASSUME NEW i \in DOMAIN checks' PROVE Earned(i)'
  <2>1. i \in 1 .. Len(checks) \/ i = Doctor!Current
    BY <1>1, <1>2
  <2>2. CASE i \in 1 .. Len(checks)
    BY <1>1, <1>2, <2>2 DEF ProbeInv, Earned
  <2>3. CASE i = Doctor!Current
    BY <1>1, <1>2, <2>3 DEF Earned, Doctor!Behaviour
  <2>. QED  BY <2>1, <2>2, <2>3
<1>. QED  BY <1>1, <1>2, <1>3

\* Between two probes there are no counts.
LEMMA NothingFits ==
    ASSUME Doctor!ProbeAssumption, ProbeInv
    PROVE  \A s \in Doctor!Stream :
              /\ Doctor!Nothing[s] = 0 /\ 0 \in 0 .. PipeSize /\ 0 \in 0 .. CaptureLimit
              /\ 0 + 0 + 0 = 0
BY ShapeOf DEF Doctor!Nothing

LEMMA NoCounts ==
    ASSUME Doctor!ProbeAssumption, ProbeInv, NEW state, state \in {"none", "reading"},
           toolWritten' = Doctor!Nothing, pipe' = Doctor!Nothing,
           toolKept' = Doctor!Nothing, lost' = Doctor!Nothing,
           reader' = [s \in Doctor!Stream |-> state],
           child' = "running" => state = "reading"
    PROVE  CountsFit'
<1>1. /\ Doctor!Nothing \in [Doctor!Stream -> Nat]
      /\ Doctor!Nothing \in [Doctor!Stream -> 0 .. PipeSize]
      /\ Doctor!Nothing \in [Doctor!Stream -> 0 .. CaptureLimit]
      /\ \A s \in Doctor!Stream : Doctor!Nothing[s] = 0
  BY NothingFits DEF Doctor!Nothing
<1>2. /\ reader' \in [Doctor!Stream -> {"none", "reading", "ended"}]
      /\ \A s \in Doctor!Stream : reader'[s] = state
  OBVIOUS
<1>. QED  BY <1>1, <1>2 DEF CountsFit

LEMMA SpawnKeepsProbe ==
    ASSUME Doctor!ProbeAssumption, ProbeInv, Doctor!Spawn PROVE ProbeInv'
<1>1. /\ UNCHANGED <<does, mayBreak, outcome>>
      /\ pc = "spawn" /\ Doctor!Current <= Len(Probes) /\ child = "none" /\ outcome = "none"
      /\ Doctor!Current \in DOMAIN Probes
  BY ShapeOf DEF Doctor!Spawn, Doctor!machine, ProbeInv, ProbeFits
<1>2. CASE Doctor!Behaviour.starts
  <2>1. /\ child' = "running" /\ pc' = "wait" /\ checks' = checks
        /\ reader' = [s \in Doctor!Stream |-> "reading"]
        /\ toolWritten' = Doctor!Nothing /\ pipe' = Doctor!Nothing
        /\ toolKept' = Doctor!Nothing /\ lost' = Doctor!Nothing
    BY <1>2 DEF Doctor!Spawn
  <2>2. CountsFit'
    BY <2>1, NoCounts
  <2>3. ProbeFits'
    BY <1>1, <1>2, <2>1, SameTool DEF ProbeFits
  <2>. QED  BY <1>1, <2>1, <2>2, <2>3, ChecksRest
<1>3. CASE ~ Doctor!Behaviour.starts
  <2>1. /\ checks' = Append(checks, Doctor!MissingCheck)
        /\ UNCHANGED <<pc, child, heir, reader, toolWritten, pipe, toolKept, lost, expired>>
    BY <1>3 DEF Doctor!Spawn
  <2>2. /\ Doctor!MissingCheck \in Check /\ ~ Doctor!MissingCheck.healthy
        /\ Doctor!MissingCheck.name = Probes[Doctor!Current].name
    BY <1>1, ShapeOf DEF Doctor!MissingCheck, Check
  <2>3. /\ checks' \in Seq(Check) /\ Len(checks') <= Len(Probes)
        /\ \A i \in DOMAIN checks' : Earned(i)'
    BY <1>1, <2>1, <2>2, Checked
  <2>4. CountsFit'
    BY <1>1, <2>1 DEF ProbeInv, CountsFit
  <2>5. ProbeFits'
    BY <1>1, <2>1 DEF ProbeFits
  <2>. QED  BY <1>1, <2>3, <2>4, <2>5 DEF ProbeInv
<1>. QED  BY <1>2, <1>3

LEMMA JoinKeepsProbe ==
    ASSUME Doctor!ProbeAssumption, ProbeInv, Doctor!Join PROVE ProbeInv'
<1>. DEFINE check == [name |-> Probes[Doctor!Current].name, available |-> TRUE,
                      healthy |-> Doctor!Healthy, timedOut |-> outcome = "timed_out",
                      truncated |-> \E s \in Doctor!Stream : lost[s] > 0]
<1>1. /\ UNCHANGED <<does, mayBreak>> /\ pc = "join" /\ checks' = Append(checks, check)
      /\ pc' = "spawn" /\ child' = "none" /\ outcome' = "none"
      /\ reader' = [s \in Doctor!Stream |-> "none"]
      /\ toolWritten' = Doctor!Nothing /\ pipe' = Doctor!Nothing
      /\ toolKept' = Doctor!Nothing /\ lost' = Doctor!Nothing
  BY DEF Doctor!Join, Doctor!machine
<1>2. /\ Doctor!Current <= Len(Probes) /\ Doctor!Behaviour.starts
      /\ Doctor!Current \in DOMAIN Probes
  BY <1>1, ShapeOf DEF ProbeInv, ProbeFits
<1>3. /\ Probes[Doctor!Current].name \in STRING
      /\ Probes[Doctor!Current].successRequired \in BOOLEAN
      /\ Doctor!Behaviour.ends \in {"ok", "error", "never"}
  BY <1>2, ShapeOf DEF Doctor!Behaviour
<1>4. Doctor!Healthy \in BOOLEAN
  BY <1>3 DEF Doctor!Healthy
<1>5. check.name = Probes[Doctor!Current].name /\ (check.healthy <=> Doctor!Healthy)
  BY <1>4
<1>6. check \in Check
  BY <1>3, <1>4 DEF Check
<1>7. Doctor!Healthy =>
         /\ Probes[Doctor!Current].successRequired => Doctor!Behaviour.ends = "ok"
         /\ ~ mayBreak => Doctor!Behaviour.ends # "never"
  BY DEF ProbeInv, ProbeFits, Doctor!Healthy
<1>. HIDE DEF check
<1>8. /\ checks' \in Seq(Check) /\ Len(checks') <= Len(Probes)
      /\ \A i \in DOMAIN checks' : Earned(i)'
  BY <1>1, <1>2, <1>5, <1>6, <1>7, Checked
<1>9. CountsFit'
  BY <1>1, NoCounts
<1>10. ProbeFits'
  BY <1>1 DEF ProbeFits
<1>. QED  BY <1>1, <1>8, <1>9, <1>10 DEF ProbeInv

LEMMA ProbesBegin ==
    ASSUME Doctor!ProbeAssumption, Doctor!Init PROVE ProbeInv
<1>1. /\ checks = <<>> /\ checks \in Seq(Check) /\ Len(checks) = 0 /\ DOMAIN checks = {}
      /\ Len(Probes) \in Nat /\ CaptureLimit \in Nat /\ PipeSize \in Nat
  BY DEF Doctor!Init, Doctor!ProbeAssumption
<1>2. CountsFit
  <2>1. /\ Doctor!Nothing \in [Doctor!Stream -> Nat]
        /\ Doctor!Nothing \in [Doctor!Stream -> 0 .. PipeSize]
        /\ Doctor!Nothing \in [Doctor!Stream -> 0 .. CaptureLimit]
        /\ \A s \in Doctor!Stream : Doctor!Nothing[s] = 0
    BY <1>1 DEF Doctor!Nothing
  <2>. QED  BY <2>1 DEF CountsFit, Doctor!Init
<1>3. ProbeFits
  BY DEF ProbeFits, Doctor!Init
<1>4. does \in [DOMAIN Probes -> Behaviours] /\ mayBreak \in BOOLEAN
  BY DEF Doctor!Init
<1>. QED  BY <1>1, <1>2, <1>3, <1>4 DEF ProbeInv

LEMMA ProbeSteps ==
    ASSUME Doctor!ProbeAssumption, ProbeInv, [Doctor!Next]_Doctor!vars PROVE ProbeInv'
<1>1. ASSUME NEW s \in Doctor!Stream,
             Doctor!Write(s) \/ Doctor!Reader(s) \/ Doctor!ReadBreaks(s)
      PROVE  ProbeInv'
  BY <1>1, WriteKeepsProbe, ReadKeepsProbe, StopKeepsProbe
     DEF Doctor!Reader, Doctor!ReadEnd, Doctor!ReadBreaks
<1>2. CASE Doctor!End
  BY <1>2, EndKeepsProbe
<1>3. CASE Doctor!HeirEnds \/ Doctor!Expire \/ Doctor!Report \/ UNCHANGED Doctor!vars
  BY <1>3, QuietKeepsProbe
<1>4. CASE Doctor!Spawn
  BY <1>4, SpawnKeepsProbe
<1>5. CASE Doctor!Poll
  BY <1>5, PollKeepsProbe
<1>6. CASE Doctor!Join
  BY <1>6, JoinKeepsProbe
<1>. QED  BY <1>1, <1>2, <1>3, <1>4, <1>5, <1>6 DEF Doctor!Next

LEMMA EarnedChecks ==
    ASSUME Doctor!ProbeAssumption, ProbeInv PROVE ChecksAreEarned
<1>1. Doctor!TypeOK
  BY DEF ProbeInv, CountsFit, ProbeFits, Doctor!TypeOK
<1>2. \A i \in DOMAIN checks : i \in DOMAIN Probes /\ Earned(i)
  BY ShapeOf DEF ProbeInv
<1>3. Doctor!ReadyForSsh =>
         \E i \in DOMAIN checks : Probes[i].name = "ssh" /\ does[i].ends = "ok"
  <2>. SUFFICES ASSUME NEW i \in DOMAIN checks, checks[i].name = "ssh", checks[i].healthy
                PROVE  Probes[i].name = "ssh" /\ does[i].ends = "ok"
    BY DEF Doctor!ReadyForSsh, Doctor!HealthyTool
  <2>. QED  BY <1>2 DEF Earned, Doctor!ProbeAssumption
<1>4. Doctor!TransferAvailable /\ ~ mayBreak =>
         \E i \in DOMAIN checks : does[i].starts /\ does[i].ends # "never"
  BY <1>2 DEF Doctor!TransferAvailable, Doctor!ReadyForSsh, Doctor!HealthyTool, Earned
<1>. QED
  BY <1>1, <1>2, <1>3, <1>4
  DEF ChecksAreEarned, Doctor!ChecksAreEarned, Doctor!HealthIsEarned, Earned

\* hb doctor calls a tool healthy only if it started, ended by itself and, where
\* that is asked for, well, and calls hb ready for SSH on nothing less, for any
\* probes, any tools and any limit, and whichever reads and polls fail (check_tool,
\* wait_bounded and DoctorReport).
THEOREM HealthStaysEarned == Doctor!Spec => []ChecksAreEarned
<1>1. Doctor!ProbeAssumption
  BY PartsAssumption
<1>. QED  BY <1>1, ProbesBegin, ProbeSteps, EarnedChecks, PTL DEF Doctor!Spec

-----------------------------------------------------------------------------
(* CaptureEncoding: what is read back, for any bytes and any limit.         *)

Byte == 0 .. 255

\* The characters of three bytes in a row, and what a reader makes of each two
\* neighbours of them.
LEMMA SextetsCarry ==
    ASSUME NEW a \in Byte, NEW b \in Byte, NEW c \in Byte
    PROVE  LET s == Encoding!Sextets(a, b, c)
           IN /\ \A k \in 1 .. 4 : s[k] \in 0 .. 63
              /\ ((64 * s[1] + s[2]) \div 16) % 256 = a
              /\ ((64 * s[2] + s[3]) \div 4) % 256 = b
              /\ ((64 * s[3] + s[4]) \div 1) % 256 = c
<1>. DEFINE s == Encoding!Sextets(a, b, c)
<1>1. /\ s[1] = a \div 4 /\ s[2] = (a % 4) * 16 + b \div 16
      /\ s[3] = (b % 16) * 4 + c \div 64 /\ s[4] = c % 64
  BY DEF Encoding!Sextets
<1>2. a \in Int /\ 0 <= a /\ a <= 255 /\ b \in Int /\ 0 <= b /\ b <= 255
      /\ c \in Int /\ 0 <= c /\ c <= 255
  BY DEF Byte
<1>. HIDE DEF s
<1>3. s[1] \in 0 .. 63 /\ s[2] \in 0 .. 63 /\ s[3] \in 0 .. 63 /\ s[4] \in 0 .. 63
  BY <1>1, <1>2
<1>4. ((64 * s[1] + s[2]) \div 16) % 256 = a
  BY <1>1, <1>2
<1>5. ((64 * s[2] + s[3]) \div 4) % 256 = b
  BY <1>1, <1>2
<1>6. ((64 * s[3] + s[4]) \div 1) % 256 = c
  BY <1>1, <1>2
<1>7. \A k \in 1 .. 4 : s[k] \in 0 .. 63
  BY <1>3
<1>. QED  BY <1>4, <1>5, <1>6, <1>7 DEF s

\* A character is padding exactly behind those that so many bytes fill.
Filled(n) == n + (n + 2) \div 3

LEMMA FilledIs ==
    ASSUME NEW n \in Nat
    PROVE  /\ Filled(n) \in 0 .. 4 * ((n + 2) \div 3)
           /\ 4 * ((n + 2) \div 3) - Filled(n) \in 0 .. 2
           /\ (6 * Filled(n)) \div 8 = n
           /\ \A i \in 1 .. 4 * ((n + 2) \div 3) :
                 3 * ((i - 1) \div 4) + ((i - 1) % 4) <= n <=> i <= Filled(n)
<1>. DEFINE q == n \div 3
            r == n % 3
<1>1. q \in Nat /\ r \in 0 .. 2 /\ n = 3 * q + r
  OBVIOUS
<1>. HIDE DEF q, r
<1>2. (n + 2) \div 3 = (IF r = 0 THEN q ELSE q + 1)
  BY <1>1
<1>3. Filled(n) = (IF r = 0 THEN 4 * q ELSE 4 * q + r + 1)
  BY <1>1, <1>2 DEF Filled
<1>4. /\ Filled(n) \in 0 .. 4 * ((n + 2) \div 3)
      /\ 4 * ((n + 2) \div 3) - Filled(n) \in 0 .. 2
      /\ (6 * Filled(n)) \div 8 = n
  BY <1>1, <1>2, <1>3
<1>5. ASSUME NEW i \in 1 .. 4 * ((n + 2) \div 3)
      PROVE  3 * ((i - 1) \div 4) + ((i - 1) % 4) <= n <=> i <= Filled(n)
  <2>. DEFINE c == (i - 1) \div 4
              k == (i - 1) % 4
  <2>1. c \in Nat /\ k \in 0 .. 3 /\ i = 4 * c + k + 1
    OBVIOUS
  <2>. HIDE DEF c, k
  <2>2. c < (n + 2) \div 3
    BY <2>1, <1>1, <1>2
  <2>3. 3 * c + k <= n <=> i <= Filled(n)
    BY <2>1, <2>2, <1>1, <1>2, <1>3
  <2>. QED  BY <2>3 DEF c, k
<1>. QED  BY <1>4, <1>5

LEMMA SextetsAre ==
    ASSUME NEW a \in Byte, NEW b \in Byte, NEW c \in Byte, NEW k \in 1 .. 4
    PROVE  Encoding!Sextets(a, b, c)[k] \in 0 .. 63
<1>. DEFINE s == Encoding!Sextets(a, b, c)
<1>1. \A j \in 1 .. 4 : s[j] \in 0 .. 63
  BY SextetsCarry
<1>. HIDE DEF s
<1>2. s[k] \in 0 .. 63
  BY <1>1
<1>. QED  BY <1>2 DEF s

LEMMA AnyByte ==
    ASSUME NEW input \in Seq(Byte), NEW j \in Int
    PROVE  Encoding!At(input, j) \in Byte
<1>1. Len(input) \in Nat /\ DOMAIN input = 1 .. Len(input)
  BY LenProperties
<1>2. CASE j \in DOMAIN input
  BY <1>1, <1>2, ElementOfSeq DEF Encoding!At
<1>3. CASE j \notin DOMAIN input
  BY <1>3 DEF Encoding!At, Byte
<1>. QED  BY <1>2, <1>3

\* The characters of the bytes from place f on.
Triple(input, f) ==
    Encoding!Sextets(Encoding!At(input, f), Encoding!At(input, f + 1), Encoding!At(input, f + 2))

LEMMA EncodeIs ==
    ASSUME NEW input \in Seq(Byte)
    PROVE  LET data == Encoding!Encode(input)
           IN /\ data \in Seq(0 .. 64) /\ Len(data) = 4 * ((Len(input) + 2) \div 3)
              /\ \A i \in 1 .. Len(data) : data[i] # Encoding!Pad <=> i <= Filled(Len(input))
              /\ \A i \in 1 .. Filled(Len(input)) :
                    data[i] = Triple(input, 3 * ((i - 1) \div 4) + 1)[((i - 1) % 4) + 1]
<1>. DEFINE data == Encoding!Encode(input)
            n == Len(input)
            size == 4 * ((n + 2) \div 3)
            char == [i \in 1 .. size |-> Triple(input, 3 * ((i - 1) \div 4) + 1)[((i - 1) % 4) + 1]]
<1>1. n \in Nat /\ DOMAIN input = 1 .. n /\ size \in Nat
  BY LenProperties
<1>2. ASSUME NEW i \in 1 .. size
      PROVE  /\ 3 * ((i - 1) \div 4) + 1 \in 1 .. n
             /\ ((i - 1) % 4) + 1 \in 1 .. 4
  <2>. DEFINE c == (i - 1) \div 4
              k == (i - 1) % 4
  <2>1. c \in Nat /\ k \in 0 .. 3 /\ i = 4 * c + k + 1
    OBVIOUS
  <2>. HIDE DEF c, k
  <2>2. c < (n + 2) \div 3
    BY <2>1, <1>1
  <2>3. 3 * c + 1 \in 1 .. n /\ k + 1 \in 1 .. 4
    BY <2>1, <2>2, <1>1
  <2>. QED  BY <2>3 DEF c, k
<1>3. ASSUME NEW i \in 1 .. size
      PROVE  char[i] \in 0 .. 63
  <2>1. ASSUME NEW f \in Int, NEW k \in 1 .. 4
        PROVE  Triple(input, f)[k] \in 0 .. 63
    <3>1. f + 1 \in Int /\ f + 2 \in Int
      OBVIOUS
    <3>2. /\ Encoding!At(input, f) \in Byte /\ Encoding!At(input, f + 1) \in Byte
          /\ Encoding!At(input, f + 2) \in Byte
      BY <3>1, AnyByte
    <3>. QED  BY <3>2, SextetsAre DEF Triple
  <2>2. 3 * ((i - 1) \div 4) + 1 \in Int
    BY <1>2
  <2>. QED  BY <2>1, <2>2, <1>2
<1>4. data = [i \in 1 .. size |->
                 IF 3 * ((i - 1) \div 4) + ((i - 1) % 4) <= n THEN char[i] ELSE 64]
  <2>1. ASSUME NEW i \in 1 .. size
        PROVE  /\ Encoding!At(input, 3 * ((i - 1) \div 4) + 1) = input[3 * ((i - 1) \div 4) + 1]
               /\ (3 * ((i - 1) \div 4) + 1) + (((i - 1) % 4) + 1) - 2 <= n
                     <=> 3 * ((i - 1) \div 4) + ((i - 1) % 4) <= n
    BY <1>1, <1>2 DEF Encoding!At
  <2>. QED  BY <2>1 DEF Encoding!Encode, Encoding!Pad, Triple
<1>5. \A i \in 1 .. size :
         3 * ((i - 1) \div 4) + ((i - 1) % 4) <= n <=> i <= Filled(n)
  BY <1>1, FilledIs
<1>6. Filled(n) \in 0 .. size
  BY <1>1, FilledIs
<1>7. data = [i \in 1 .. size |-> IF i <= Filled(n) THEN char[i] ELSE 64]
  BY <1>4, <1>5
<1>. HIDE DEF data, char, size, n
<1>8. data \in [1 .. size -> 0 .. 64]
  <2>1. \A i \in 1 .. size : char[i] \in 0 .. 63
    BY <1>3
  <2>2. \A i \in 1 .. size : char[i] \in 0 .. 64
    BY <2>1
  <2>3. \A i \in 1 .. size : (IF i <= Filled(n) THEN char[i] ELSE 64) \in 0 .. 64
    BY <2>2
  <2>. QED  BY <2>3, <1>7
<1>9. data \in Seq(0 .. 64) /\ Len(data) = size
  BY <1>1, <1>8, SeqDef
<1>10. \A i \in 1 .. size : data[i] # 64 <=> i <= Filled(n)
  <2>1. ASSUME NEW i \in 1 .. size
        PROVE  data[i] # 64 <=> i <= Filled(n)
    <3>1. data[i] = (IF i <= Filled(n) THEN char[i] ELSE 64)
      BY <1>7
    <3>2. char[i] \in 0 .. 63
      BY <1>3
    <3>3. \A m \in 0 .. 63 : m # 64
      OBVIOUS
    <3>4. char[i] # 64
      BY <3>2, <3>3
    <3>. QED  BY <3>1, <3>4
  <2>. QED  BY <2>1
<1>11. \A i \in 1 .. Filled(n) : data[i] = char[i] /\ i \in 1 .. size
  BY <1>6, <1>7, <1>1
<1>12. \A i \in 1 .. Filled(n) :
          data[i] = Triple(input, 3 * ((i - 1) \div 4) + 1)[((i - 1) % 4) + 1]
  BY <1>11 DEF char
<1>. QED  BY <1>9, <1>10, <1>12 DEF data, size, n, Encoding!Pad

\* A reader has the bytes back.
LEMMA DecodeReadsBack ==
    ASSUME NEW input \in Seq(Byte)
    PROVE  Encoding!Decode(Encoding!Encode(input)) = input
<1>. DEFINE data == Encoding!Encode(input)
            n == Len(input)
            sextets == Encoding!Unpadded(data)
<1>1. n \in Nat /\ input \in [1 .. n -> Byte]
  BY LenProperties
<1>2. Filled(n) \in 0 .. 4 * ((n + 2) \div 3) /\ (6 * Filled(n)) \div 8 = n
  BY <1>1, FilledIs
<1>3. /\ data \in Seq(0 .. 64) /\ Len(data) = 4 * ((n + 2) \div 3)
      /\ \A i \in 1 .. Len(data) : data[i] # Encoding!Pad <=> i <= Filled(n)
      /\ \A i \in 1 .. Filled(n) :
            data[i] = Triple(input, 3 * ((i - 1) \div 4) + 1)[((i - 1) % 4) + 1]
  BY EncodeIs
<1>. HIDE DEF data
<1>4. DOMAIN data = 1 .. Len(data) /\ Len(data) \in Nat
  BY <1>3, LenProperties
<1>5. Len(data) - Filled(n) \in 0 .. 2
  BY <1>1, <1>3, FilledIs
<1>7. sextets = SubSeq(data, 1, Filled(n))
  <2>. DEFINE size == Len(data)
              padding == IF size = 0 \/ data[size] # Encoding!Pad THEN 0
                         ELSE IF data[size - 1] # Encoding!Pad THEN 1 ELSE 2
  <2>1. sextets = SubSeq(data, 1, size - padding)
    BY DEF Encoding!Unpadded
  <2>2. size \in Nat /\ Filled(n) \in Nat /\ size - Filled(n) \in 0 .. 2 /\ size # 1
    BY <1>1, <1>2, <1>3, <1>4, <1>5
  <2>3. \A i \in 1 .. size : data[i] # Encoding!Pad <=> i <= Filled(n)
    BY <1>3
  <2>. HIDE DEF size
  <2>4. size # 0 => (data[size] # Encoding!Pad <=> size <= Filled(n))
    BY <2>2, <2>3
  <2>5. size > 1 => (data[size - 1] # Encoding!Pad <=> size - 1 <= Filled(n))
    BY <2>2, <2>3
  <2>6. ASSUME size = Filled(n) PROVE size - padding = Filled(n)
    BY <2>2, <2>4, <2>6
  <2>7. ASSUME size = Filled(n) + 1 PROVE size - padding = Filled(n)
    BY <2>2, <2>4, <2>5, <2>7
  <2>8. ASSUME size = Filled(n) + 2 PROVE size - padding = Filled(n)
    BY <2>2, <2>4, <2>5, <2>8
  <2>9. size - padding = Filled(n)
    BY <2>2, <2>6, <2>7, <2>8
  <2>. QED  BY <2>1, <2>9
<1>8. /\ Len(sextets) = Filled(n)
      /\ \A i \in 1 .. Filled(n) : sextets[i] = data[i]
  <2>1. \A i \in 1 .. Filled(n) : data[i] \in 0 .. 64
    <3>1. \A i \in 1 .. Len(data) : data[i] \in 0 .. 64
      BY <1>3, ElementOfSeq
    <3>. QED  BY <3>1, <1>2, <1>3, <1>4
  <2>2. Filled(n) \in Int
    BY <1>2
  <2>3. /\ Len(SubSeq(data, 1, Filled(n))) = IF 1 <= Filled(n) THEN Filled(n) - 1 + 1 ELSE 0
        /\ \A i \in 1 .. Filled(n) - 1 + 1 : SubSeq(data, 1, Filled(n))[i] = data[1 + i - 1]
    BY <2>1, <2>2, SubSeqProperties
  <2>. QED  BY <2>3, <1>2, <1>7
<1>. HIDE DEF sextets
<1>9. ASSUME NEW k \in 1 .. n
      PROVE  Encoding!ByteOf(sextets, k) = input[k]
  <2>. DEFINE q == (k - 1) \div 3
              r == (k - 1) % 3
              f == 3 * q + 1
              a == Encoding!At(input, f)
              b == Encoding!At(input, f + 1)
              c == Encoding!At(input, f + 2)
              s == Encoding!Sextets(a, b, c)
  <2>1. q \in Nat /\ r \in 0 .. 2 /\ k = 3 * q + r + 1
    BY <1>1
  <2>. HIDE DEF q, r
  <2>2. (8 * (k - 1)) \div 6 = 4 * q + r /\ (8 * (k - 1)) % 6 = 2 * r
    BY <2>1
  <2>3. 4 * q + r + 2 <= Filled(n)
    BY <2>1, <1>1 DEF Filled
  <2>4. \A j \in 1 .. 4 : 4 * q + j <= Filled(n) => sextets[4 * q + j] = s[j]
    <3>1. \A j \in 1 .. 4 : ((4 * q + j) - 1) \div 4 = q /\ (((4 * q + j) - 1) % 4) + 1 = j
      BY <2>1
    <3>2. ASSUME NEW j \in 1 .. 4, 4 * q + j <= Filled(n)
          PROVE  sextets[4 * q + j] = s[j]
      <4>1. 4 * q + j \in 1 .. Filled(n)
        BY <2>1, <3>2, <1>2
      <4>2. sextets[4 * q + j] = Triple(input, 3 * (((4 * q + j) - 1) \div 4) + 1)[(((4 * q + j) - 1) % 4) + 1]
        <5>. DEFINE Own(i) ==
                 sextets[i] = Triple(input, 3 * ((i - 1) \div 4) + 1)[((i - 1) % 4) + 1]
        <5>1. \A i \in 1 .. Filled(n) : Own(i)
          BY <1>3, <1>8
        <5>. HIDE DEF Own
        <5>2. Own(4 * q + j)
          BY <4>1, <5>1
        <5>. QED  BY <5>2 DEF Own
      <4>3. sextets[4 * q + j] = Triple(input, f)[j]
        BY <4>2, <3>1
      <4>. QED  BY <4>3 DEF Triple
    <3>. QED  BY <3>2
  <2>5. a \in Byte /\ b \in Byte /\ c \in Byte
    BY <2>1, AnyByte
  <2>6. /\ ((64 * s[1] + s[2]) \div 16) % 256 = a
        /\ ((64 * s[2] + s[3]) \div 4) % 256 = b
        /\ ((64 * s[3] + s[4]) \div 1) % 256 = c
    BY <2>5, SextetsCarry
  <2>7. Encoding!At(input, k) = input[k]
    BY <1>1 DEF Encoding!At
  <2>. HIDE DEF s
  <2>8. CASE r = 0
    <3>3. /\ (8 * (k - 1)) \div 6 + 1 = 4 * q + 1 /\ (4 * q + 1) + 1 = 4 * q + 2
          /\ (8 * (k - 1)) % 6 = 0
      BY <2>1, <2>2, <2>8
    <3>1. Encoding!ByteOf(sextets, k) = ((64 * sextets[4 * q + 1] + sextets[4 * q + 2]) \div 16) % 256
      BY <3>3 DEF Encoding!ByteOf
    <3>2. sextets[4 * q + 1] = s[1] /\ sextets[4 * q + 2] = s[2]
      BY <2>1, <2>3, <2>4, <2>8, <1>2
    <3>. QED  BY <3>1, <3>2, <2>6, <2>7, <2>1, <2>8
  <2>9. CASE r = 1
    <3>3. /\ (8 * (k - 1)) \div 6 + 1 = 4 * q + 2 /\ (4 * q + 2) + 1 = 4 * q + 3
          /\ (8 * (k - 1)) % 6 = 2
      BY <2>1, <2>2, <2>9
    <3>1. Encoding!ByteOf(sextets, k) = ((64 * sextets[4 * q + 2] + sextets[4 * q + 3]) \div 4) % 256
      BY <3>3 DEF Encoding!ByteOf
    <3>2. sextets[4 * q + 2] = s[2] /\ sextets[4 * q + 3] = s[3]
      <4>1. 4 * q + 2 <= Filled(n) /\ 4 * q + 3 <= Filled(n)
        BY <2>1, <2>3, <2>9, <1>2
      <4>. QED  BY <4>1, <2>4
    <3>. QED  BY <3>1, <3>2, <2>6, <2>7, <2>1, <2>9
  <2>10. CASE r = 2
    <3>3. /\ (8 * (k - 1)) \div 6 + 1 = 4 * q + 3 /\ (4 * q + 3) + 1 = 4 * q + 4
          /\ (8 * (k - 1)) % 6 = 4
      BY <2>1, <2>2, <2>10
    <3>1. Encoding!ByteOf(sextets, k) = ((64 * sextets[4 * q + 3] + sextets[4 * q + 4]) \div 1) % 256
      BY <3>3 DEF Encoding!ByteOf
    <3>2. sextets[4 * q + 3] = s[3] /\ sextets[4 * q + 4] = s[4]
      <4>1. 4 * q + 3 <= Filled(n) /\ 4 * q + 4 <= Filled(n)
        BY <2>1, <2>3, <2>10, <1>2
      <4>. QED  BY <4>1, <2>4
    <3>. QED  BY <3>1, <3>2, <2>6, <2>7, <2>1, <2>10
  <2>. QED  BY <2>1, <2>8, <2>9, <2>10
<1>10. Encoding!Decode(data) = [k \in 1 .. n |-> Encoding!ByteOf(sextets, k)]
  BY <1>2, <1>8 DEF Encoding!Decode, sextets
<1>. QED  BY <1>1, <1>9, <1>10 DEF data

\* What was kept is the beginning of what was written, all of it until the limit
\* is reached, and the report is made of it.
EncodingInv ==
    /\ written \in Seq(Bytes)
    /\ raw \in [bytes : Seq(Bytes), truncated : BOOLEAN]
    /\ Len(raw.bytes) <= Len(written)
    /\ Len(raw.bytes) < StreamLimit => Len(raw.bytes) = Len(written)
    /\ \A i \in 1 .. Len(raw.bytes) : raw.bytes[i] = written[i]
    /\ raw.truncated = (Len(raw.bytes) < Len(written))
    /\ stream \in {Encoding!Nothing, Encoding!FromRaw}

LEMMA EncodingBegins == Encoding!Init => EncodingInv
<1>. SUFFICES ASSUME Encoding!Init PROVE EncodingInv
  OBVIOUS
<1>1. raw = [bytes |-> <<>>, truncated |-> FALSE] /\ written = <<>> /\ stream = Encoding!Nothing
  BY DEF Encoding!Init
<1>2. <<>> \in Seq(Bytes) /\ Len(<<>>) = 0
  OBVIOUS
<1>3. raw.bytes = <<>> /\ raw.truncated = FALSE
  BY <1>1
<1>4. raw \in [bytes : Seq(Bytes), truncated : BOOLEAN]
  BY <1>1, <1>2
<1>5. Len(raw.bytes) = 0 /\ Len(written) = 0
  BY <1>1, <1>2, <1>3
<1>6. \A i \in 1 .. Len(raw.bytes) : raw.bytes[i] = written[i]
  BY <1>5
<1>7. /\ Len(raw.bytes) <= Len(written)
      /\ Len(raw.bytes) < StreamLimit => Len(raw.bytes) = Len(written)
      /\ raw.truncated = (Len(raw.bytes) < Len(written))
  <2>1. Len(raw.bytes) <= Len(written) /\ Len(raw.bytes) = Len(written)
    BY <1>5
  <2>2. (Len(raw.bytes) < Len(written)) = FALSE
    BY <1>5
  <2>. QED  BY <1>3, <2>1, <2>2
<1>8. written \in Seq(Bytes) /\ stream \in {Encoding!Nothing, Encoding!FromRaw}
  BY <1>1, <1>2
<1>. QED  BY <1>4, <1>6, <1>7, <1>8 DEF EncodingInv

LEMMA WriteKeepsEncoding ==
    ASSUME EncodingInv, Encoding!Write, Encoding!EncodingAssumption
    PROVE  EncodingInv'
<1>1. /\ stream = Encoding!Nothing /\ stream' = stream
      /\ written \in Seq(Bytes) /\ raw \in [bytes : Seq(Bytes), truncated : BOOLEAN]
      /\ Len(raw.bytes) <= Len(written)
      /\ Len(raw.bytes) < StreamLimit => Len(raw.bytes) = Len(written)
      /\ \A i \in 1 .. Len(raw.bytes) : raw.bytes[i] = written[i]
      /\ raw.truncated = (Len(raw.bytes) < Len(written)) /\ StreamLimit \in Nat
  BY DEF EncodingInv, Encoding!Write, Encoding!EncodingAssumption
<1>2. PICK byte \in Bytes :
          /\ written' = Append(written, byte)
          /\ raw' = IF Len(raw.bytes) < StreamLimit
                    THEN [raw EXCEPT !.bytes = Append(@, byte)]
                    ELSE [raw EXCEPT !.truncated = TRUE]
  BY DEF Encoding!Write
<1>3. Len(written) \in Nat /\ Len(raw.bytes) \in Nat /\ raw.bytes \in Seq(Bytes)
  BY <1>1, LenProperties
<1>4. /\ written' \in Seq(Bytes) /\ Len(written') = Len(written) + 1
      /\ \A i \in 1 .. Len(written) : written'[i] = written[i]
      /\ written'[Len(written) + 1] = byte
  BY <1>1, <1>2, AppendProperties
<1>5. CASE Len(raw.bytes) < StreamLimit
  <2>1. raw'.bytes = Append(raw.bytes, byte) /\ raw'.truncated = raw.truncated
    BY <1>1, <1>2, <1>5
  <2>2. /\ Append(raw.bytes, byte) \in Seq(Bytes)
        /\ Len(Append(raw.bytes, byte)) = Len(raw.bytes) + 1
        /\ \A i \in 1 .. Len(raw.bytes) : Append(raw.bytes, byte)[i] = raw.bytes[i]
        /\ Append(raw.bytes, byte)[Len(raw.bytes) + 1] = byte
    BY <1>3, AppendProperties
  <2>3. raw' \in [bytes : Seq(Bytes), truncated : BOOLEAN]
    BY <1>1, <1>2, <1>5, <2>2
  <2>4. Len(raw'.bytes) = Len(written') /\ raw'.truncated = FALSE
    BY <1>1, <1>3, <1>4, <1>5, <2>1, <2>2
  <2>5. \A i \in 1 .. Len(raw'.bytes) : raw'.bytes[i] = written'[i]
    BY <1>1, <1>3, <1>4, <1>5, <2>1, <2>2
  <2>6. stream' \in {Encoding!Nothing, Encoding!FromRaw}'
    BY <1>1 DEF Encoding!Nothing
  <2>7. Len(written') \in Nat
    BY <1>3, <1>4
  <2>. QED  BY <1>4, <2>3, <2>4, <2>5, <2>6, <2>7 DEF EncodingInv
<1>6. CASE ~ (Len(raw.bytes) < StreamLimit)
  <2>1. raw'.bytes = raw.bytes /\ raw'.truncated = TRUE
    BY <1>1, <1>2, <1>6
  <2>2. raw' \in [bytes : Seq(Bytes), truncated : BOOLEAN]
    BY <1>1, <1>2, <1>6
  <2>3. \A i \in 1 .. Len(raw'.bytes) : raw'.bytes[i] = written'[i]
    <3>. SUFFICES ASSUME NEW i \in 1 .. Len(raw.bytes) PROVE raw.bytes[i] = written'[i]
      BY <2>1
    <3>1. i \in 1 .. Len(written)
      BY <1>1, <1>3
    <3>. QED  BY <1>1, <1>4, <3>1
  <2>4. Len(raw'.bytes) < Len(written') /\ ~ (Len(raw'.bytes) < StreamLimit)
    BY <1>1, <1>3, <1>4, <1>6, <2>1
  <2>5. stream' \in {Encoding!Nothing, Encoding!FromRaw}'
    BY <1>1 DEF Encoding!Nothing
  <2>6. Len(raw'.bytes) <= Len(written')
    BY <1>1, <1>3, <1>4, <2>1
  <2>. QED  BY <1>4, <2>1, <2>2, <2>3, <2>4, <2>5, <2>6 DEF EncodingInv
<1>. QED  BY <1>5, <1>6

LEMMA ReportKeepsEncoding ==
    ASSUME EncodingInv, Encoding!Report
    PROVE  EncodingInv'
<1>1. written' = written /\ raw' = raw /\ stream' = Encoding!FromRaw
  BY DEF Encoding!Report
<1>2. Encoding!FromRaw' = Encoding!FromRaw
  BY <1>1 DEF Encoding!FromRaw
<1>. QED  BY <1>1, <1>2 DEF EncodingInv

\* What EncodingInv means for a reader.
LEMMA EncodingReadsBack ==
    ASSUME EncodingInv, Encoding!EncodingAssumption
    PROVE  BytesReadBack
<1>1. /\ written \in Seq(Bytes) /\ raw.bytes \in Seq(Bytes) /\ raw.truncated \in BOOLEAN
      /\ Len(raw.bytes) <= Len(written) /\ Bytes \subseteq Byte
      /\ \A i \in 1 .. Len(raw.bytes) : raw.bytes[i] = written[i]
      /\ raw.truncated = (Len(raw.bytes) < Len(written))
      /\ stream \in {Encoding!Nothing, Encoding!FromRaw}
  BY DEF EncodingInv, Encoding!EncodingAssumption, Byte
<1>2. /\ Len(raw.bytes) \in Nat /\ DOMAIN raw.bytes = 1 .. Len(raw.bytes)
      /\ raw.bytes \in [1 .. Len(raw.bytes) -> Bytes]
      /\ Len(written) \in Nat /\ written \in [1 .. Len(written) -> Bytes]
  BY <1>1, LenProperties
<1>3. raw.bytes \in Seq(Byte)
  BY <1>1, <1>2, SeqDef
<1>4. SubSeq(written, 1, Len(raw.bytes)) = raw.bytes
  <2>1. \A i \in 1 .. Len(raw.bytes) : written[i] \in Bytes
    BY <1>1, <1>2
  <2>2. Len(raw.bytes) \in Int
    BY <1>2
  <2>3. /\ SubSeq(written, 1, Len(raw.bytes)) \in Seq(Bytes)
        /\ Len(SubSeq(written, 1, Len(raw.bytes))) =
              IF 1 <= Len(raw.bytes) THEN Len(raw.bytes) - 1 + 1 ELSE 0
        /\ \A i \in 1 .. Len(raw.bytes) - 1 + 1 :
              SubSeq(written, 1, Len(raw.bytes))[i] = written[1 + i - 1]
    BY <2>1, <2>2, SubSeqProperties
  <2>4. /\ Len(SubSeq(written, 1, Len(raw.bytes))) = Len(raw.bytes)
        /\ \A i \in 1 .. Len(raw.bytes) : SubSeq(written, 1, Len(raw.bytes))[i] = raw.bytes[i]
    BY <1>1, <1>2, <2>3
  <2>. QED  BY <1>1, <2>3, <2>4, SeqEqual
<1>5. CASE stream = Encoding!Nothing
  BY <1>1, <1>5 DEF BytesReadBack, Encoding!BytesReadBack, Encoding!TypeOK, Encoding!ReadBack,
                    Encoding!Nothing
<1>6. CASE stream = Encoding!FromRaw /\ Encoding!IsText(raw.bytes)
  <2>1. /\ stream.encoding = "text" /\ stream.data = raw.bytes
        /\ stream.truncated = raw.truncated /\ stream.captured_bytes = Len(raw.bytes)
    BY <1>6 DEF Encoding!FromRaw
  <2>2. \A i \in DOMAIN stream.data : stream.data[i] \in 0 .. 255
    BY <1>1, <1>2, <2>1 DEF Byte
  <2>3. Encoding!TypeOK
    BY <1>1, <2>1, <2>2 DEF Encoding!TypeOK
  <2>4. Encoding!ReadBack
    BY <1>1, <1>4, <2>1 DEF Encoding!ReadBack
  <2>. QED  BY <2>3, <2>4 DEF BytesReadBack, Encoding!BytesReadBack
<1>7. CASE stream = Encoding!FromRaw /\ ~ Encoding!IsText(raw.bytes)
  <2>1. /\ stream.encoding = "base64" /\ stream.data = Encoding!Encode(raw.bytes)
        /\ stream.truncated = raw.truncated /\ stream.captured_bytes = Len(raw.bytes)
    BY <1>7 DEF Encoding!FromRaw
  <2>2. /\ Encoding!Encode(raw.bytes) \in Seq(0 .. 64)
        /\ Len(Encoding!Encode(raw.bytes)) = 4 * ((Len(raw.bytes) + 2) \div 3)
    BY <1>3, EncodeIs
  <2>3. \A i \in DOMAIN stream.data : stream.data[i] \in 0 .. 255
    <3>1. Encoding!Encode(raw.bytes)
             \in [1 .. Len(Encoding!Encode(raw.bytes)) -> 0 .. 64]
      BY <2>2, LenProperties
    <3>2. \A m \in 0 .. 64 : m \in 0 .. 255
      OBVIOUS
    <3>3. \A i \in DOMAIN Encoding!Encode(raw.bytes) : Encoding!Encode(raw.bytes)[i] \in 0 .. 64
      BY <3>1
    <3>. QED  BY <2>1, <3>2, <3>3
  <2>4. Len(stream.data) % 4 = 0
    <3>1. \A m \in Nat : (4 * m) % 4 = 0
      OBVIOUS
    <3>2. \A m \in Nat : (m + 2) \div 3 \in Nat
      OBVIOUS
    <3>3. (Len(raw.bytes) + 2) \div 3 \in Nat
      BY <1>2, <3>2
    <3>. QED  BY <2>1, <2>2, <3>1, <3>3
  <2>5. Encoding!TypeOK
    BY <1>1, <2>1, <2>3, <2>4 DEF Encoding!TypeOK
  <2>6. Encoding!Decode(stream.data) = raw.bytes
    BY <1>3, <2>1, DecodeReadsBack
  <2>7. Encoding!ReadBack
    BY <1>1, <1>4, <2>1, <2>6 DEF Encoding!ReadBack
  <2>. QED  BY <2>5, <2>7 DEF BytesReadBack, Encoding!BytesReadBack
<1>. QED  BY <1>1, <1>5, <1>6, <1>7

\* CaptureEncoding: whatever bytes a command writes, and wherever the limit cuts
\* them, a reader of the report has back what was kept, byte for byte, and is
\* told whether there was more.
THEOREM ReportsReadBack == Encoding!Spec => []BytesReadBack
<1>. USE PartsAssumption
<1>1. Encoding!Init => EncodingInv
  BY EncodingBegins
<1>2. EncodingInv /\ [Encoding!Next]_(Encoding!vars) => EncodingInv'
  <2>. SUFFICES ASSUME EncodingInv, [Encoding!Next]_(Encoding!vars) PROVE EncodingInv'
    OBVIOUS
  <2>1. CASE Encoding!Write
    BY <2>1, WriteKeepsEncoding
  <2>2. CASE Encoding!Report
    BY <2>2, ReportKeepsEncoding
  <2>3. CASE UNCHANGED Encoding!vars
    BY <2>3 DEF EncodingInv, Encoding!vars, Encoding!Nothing, Encoding!FromRaw
  <2>. QED  BY <2>1, <2>2, <2>3 DEF Encoding!Next
<1>3. EncodingInv => BytesReadBack
  BY EncodingReadsBack
<1>. QED  BY <1>1, <1>2, <1>3, PTL DEF Encoding!Spec

-----------------------------------------------------------------------------
(* CommandResult: the story an invocation tells, for any commands, errors   *)
(* and statuses of children, and whichever writes fail.                     *)

Code == WorkCodes \cup {None, "Io", "InvalidInput", "InvalidArguments", "Unsupported",
                        "PolicyDenied", "RemoteExecutionFailed"}
Word == {"success", "failure", "warning", "prompt"}
Pieces == [what : Word, code : Code, whole : BOOLEAN]
Silence == {"begin", "confirm", "answer", "work", "reload", "output"}

ResultTypes ==
    /\ {machine, yes, terminal, prompted, changed} \subseteq BOOLEAN
    /\ resultPhase \in Silence \cup {"warn", "leave", "error", "emergency", "last", "done"}
    /\ error \in Code /\ leaves \in {0, 1, 130}
    /\ stdout \in Seq(Pieces) /\ stderr \in Seq(Pieces) /\ failed \subseteq {"stdout", "stderr"}
    /\ exit \in 0 .. 255 \cup {None} /\ (resultPhase = "done") = (exit # None)

\* What is known of the command before it has done its work, and after.
Consent ==
    /\ changed => resultPhase \notin {"begin", "confirm", "answer", "work"}
    /\ kind = "removal" /\ (changed \/ resultPhase = "work") => yes \/ prompted
    /\ prompted => terminal /\ ~ machine
    /\ resultPhase = "answer" => prompted
    /\ kind = "session" /\ resultPhase = "work" => ~ machine
    /\ leaves # 0 => kind = "batch"

\* What stands on stdout before the end, and which writes have failed.
Told ==
    /\ resultPhase \in Silence => stdout = <<>> /\ "stdout" \notin failed
    /\ resultPhase \in {"warn", "leave"} =>
          /\ stdout = <<Result!Piece(Result!Document, Result!DocumentCode, TRUE)>>
          /\ "stdout" \notin failed
    /\ resultPhase = "error" =>
          /\ machine => stdout = <<>> \/ "stdout" \in failed
          /\ changed => error \in {"Io", "InvalidInput"}
    /\ machine /\ resultPhase \in {"emergency", "last"} => "stdout" \in failed
    /\ resultPhase = "last" => "stderr" \in failed

\* The end.
Agreed ==
    /\ Result!ZeroIsAWholeSuccess
    /\ Result!OneObjectForTheStatus
    /\ Result!NeverSilent
    /\ Result!RefusedMeansUntouched

ResultInv == ResultTypes /\ Consent /\ Told /\ (resultPhase = "done" => Agreed)

LEMMA ExitOfIs ==
    /\ \A code : Result!ExitOf(code) \in 1 .. 6
    /\ Result!ExitOf("Io") = 1 /\ Result!ExitOf("InvalidInput") = 2
    /\ Result!ExitOf("RemoteExecutionFailed") = 1
BY DEF Result!ExitOf

\* A write adds a piece, or what is left of it.
LEMMA Pieced ==
    ASSUME NEW out \in Seq(Pieces), NEW what \in Word, NEW code \in Code
    PROVE  /\ Result!Written(out, what, code) \in Seq(Pieces)
           /\ Result!Whole(Result!Written(out, what, code), what)
           /\ out = <<>> => Result!Written(out, what, code) = <<Result!Piece(what, code, TRUE)>>
           /\ \A part \in Result!Broken(out, what, code) : part \in Seq(Pieces)
<1>. DEFINE piece(w) == Result!Piece(what, code, w)
<1>1. \A w \in BOOLEAN : piece(w) \in Pieces /\ piece(w).what = what /\ piece(w).whole = w
  BY DEF Result!Piece, Pieces
<1>. HIDE DEF piece
<1>2. \A w \in BOOLEAN :
         /\ Append(out, piece(w)) \in Seq(Pieces)
         /\ Len(Append(out, piece(w))) = Len(out) + 1
         /\ Append(out, piece(w))[Len(out) + 1] = piece(w)
  BY <1>1, AppendProperties
<1>3. Len(out) \in Nat
  BY LenProperties
<1>4. Result!Whole(Append(out, piece(TRUE)), what)
  <2>1. Len(out) + 1 \in DOMAIN Append(out, piece(TRUE))
    BY <1>2, <1>3, LenProperties
  <2>. QED  BY <1>1, <1>2, <2>1 DEF Result!Whole
<1>5. out = <<>> => Append(out, piece(TRUE)) = <<piece(TRUE)>>
  OBVIOUS
<1>. QED  BY <1>2, <1>4, <1>5 DEF piece, Result!Written, Result!Broken

\* A step that is not the last keeps the types.
LEMMA GoesOn ==
    ASSUME ResultInv, resultPhase # "done", UNCHANGED <<machine, terminal, yes, exit>>,
           resultPhase' \in Silence \cup {"warn", "leave", "error", "emergency", "last"},
           prompted' \in BOOLEAN, changed' \in BOOLEAN, error' \in Code,
           leaves' \in {0, 1, 130}, stdout' \in Seq(Pieces), stderr' \in Seq(Pieces),
           failed' \subseteq {"stdout", "stderr"}
    PROVE  ResultTypes'
BY DEF ResultInv, ResultTypes, Silence

LEMMA QuietSteps ==
    ASSUME ResultInv, Result!ResultAssumption,
           Result!Begin \/ Result!Refuse \/ Result!Answer \/ Result!Work \/ Result!Reload
    PROVE  ResultInv'
<1>. USE DEF Result!Raise, Result!Moves, Result!line, Result!silent
<1>1. CASE Result!Begin
  <2>1. /\ resultPhase = "begin" /\ error' \in Code
        /\ resultPhase' \in {"confirm", "work", "error"}
        /\ resultPhase' = "work" => ~ Result!Asks /\ ~ (kind = "session" /\ machine)
        /\ UNCHANGED <<kind, machine, terminal, yes, prompted, changed, leaves, stdout,
                       stderr, failed, exit>>
    BY <1>1 DEF Result!Begin, ResultInv, ResultTypes, Code
  <2>2. ResultTypes'
    BY <2>1, GoesOn DEF ResultInv, ResultTypes, Silence
  <2>3. Consent'
    BY <2>1 DEF ResultInv, Consent, Result!Asks, ResultTypes
  <2>4. Told'
    BY <2>1 DEF ResultInv, Told, Consent, Silence
  <2>. QED  BY <2>1, <2>2, <2>3, <2>4 DEF ResultInv
<1>2. CASE Result!Refuse
  <2>1. /\ resultPhase = "confirm" /\ error' \in Code /\ resultPhase' = "error"
        /\ UNCHANGED <<kind, machine, terminal, yes, prompted, changed, leaves, stdout,
                       stderr, failed, exit>>
    BY <1>2 DEF Result!Refuse, Code
  <2>2. ResultTypes'
    BY <2>1, GoesOn DEF ResultInv, ResultTypes, Silence
  <2>3. Consent'
    BY <2>1 DEF ResultInv, Consent
  <2>4. Told'
    BY <2>1 DEF ResultInv, Told, Consent, Silence
  <2>. QED  BY <2>1, <2>2, <2>3, <2>4 DEF ResultInv
<1>3. CASE Result!Answer
  <2>1. /\ resultPhase = "answer" /\ error' \in Code
        /\ resultPhase' \in {"work", "error"}
        /\ UNCHANGED <<kind, machine, terminal, yes, prompted, changed, leaves, stdout,
                       stderr, failed, exit>>
    BY <1>3 DEF Result!Answer, ResultInv, ResultTypes, Code
  <2>2. ResultTypes'
    BY <2>1, GoesOn DEF ResultInv, ResultTypes, Silence
  <2>3. Consent'
    BY <2>1 DEF ResultInv, Consent
  <2>4. Told'
    BY <2>1 DEF ResultInv, Told, Consent, Silence
  <2>. QED  BY <2>1, <2>2, <2>3, <2>4 DEF ResultInv
<1>4. CASE Result!Work
  <2>1. /\ resultPhase = "work" /\ error' \in Code
        /\ resultPhase' \in {"reload", "output", "error"}
        /\ resultPhase' = "error" => UNCHANGED <<changed, leaves>>
        /\ changed' \in BOOLEAN /\ leaves' \in {0, 1, 130}
        /\ leaves' # 0 => kind = "batch"
        /\ UNCHANGED <<kind, machine, terminal, yes, prompted, stdout,
                       stderr, failed, exit>>
    <3>1. /\ resultPhase = "work"
          /\ UNCHANGED <<kind, machine, terminal, yes, prompted, stdout, stderr, failed, exit>>
          /\ error \in Code /\ changed \in BOOLEAN /\ leaves \in {0, 1, 130}
          /\ leaves # 0 => kind = "batch"
      BY <1>4 DEF Result!Work, ResultInv, ResultTypes, Consent
    <3>2. CASE \E code \in WorkCodes : Result!Raise(code) /\ UNCHANGED <<changed, leaves>>
      BY <3>1, <3>2 DEF Code
    <3>3. CASE /\ changed' = Result!Changes
               /\ leaves' \in IF kind = "batch" THEN {0, 1, 130} ELSE {0}
               /\ Result!Moves(IF kind = "rotation" THEN "reload" ELSE "output")
      <4>1. changed' \in BOOLEAN
        BY <3>3 DEF Result!Changes
      <4>2. /\ leaves' \in {0, 1, 130}
            /\ leaves' # 0 => kind = "batch"
        BY <3>3
      <4>3. resultPhase' \in {"reload", "output"} /\ error' = error
        BY <3>3
      <4>. QED  BY <3>1, <4>1, <4>2, <4>3
    <3>. QED  BY <1>4, <3>2, <3>3 DEF Result!Work
  <2>2. ResultTypes'
    BY <2>1, GoesOn DEF ResultInv, ResultTypes, Silence
  <2>3. Consent'
    BY <2>1 DEF ResultInv, Consent
  <2>4. Told'
    <3>1. changed = FALSE /\ stdout = <<>> /\ "stdout" \notin failed
      BY <2>1 DEF ResultInv, ResultTypes, Consent, Told, Silence
    <3>2. resultPhase' = "error" => changed' = FALSE
      BY <2>1, <3>1
    <3>. QED  BY <2>1, <3>1, <3>2 DEF Told, Silence
  <2>. QED  BY <2>1, <2>2, <2>3, <2>4 DEF ResultInv
<1>5. CASE Result!Reload
  <2>1. /\ resultPhase = "reload" /\ resultPhase' \in {"output", "error"}
        /\ error' \in Code
        /\ resultPhase' = "error" => error' \in {"Io", "InvalidInput"}
        /\ UNCHANGED <<kind, machine, terminal, yes, prompted, changed, leaves, stdout,
                       stderr, failed, exit>>
    BY <1>5 DEF Result!Reload, ResultInv, ResultTypes, Code
  <2>2. ResultTypes'
    BY <2>1, GoesOn DEF ResultInv, ResultTypes, Silence
  <2>3. Consent'
    BY <2>1 DEF ResultInv, Consent
  <2>4. Told'
    BY <2>1 DEF ResultInv, Told, Consent, Silence
  <2>. QED  BY <2>1, <2>2, <2>3, <2>4 DEF ResultInv
<1>. QED  BY <1>1, <1>2, <1>3, <1>4, <1>5

\* A child that had the terminal, and a command that is done.
LEMMA LeavingSteps ==
    ASSUME ResultInv, Result!ResultAssumption, Result!Session \/ Result!Leave
    PROVE  ResultInv'
<1>. USE DEF Result!Raise, Result!Moves, Result!Exits, Result!line, Result!silent
<1>1. CASE Result!Session
  <2>1. /\ resultPhase = "work" /\ kind = "session" /\ ~ machine /\ ~ changed
        /\ \/ resultPhase' = "done" /\ exit' \in 0 .. 255 /\ error' = error
           \/ resultPhase' = "error" /\ error' \in Code /\ exit' = exit
        /\ UNCHANGED <<kind, machine, terminal, yes, prompted, changed, leaves, stdout,
                       stderr, failed>>
    BY <1>1 DEF Result!Session, ResultInv, ResultTypes, Consent, Code, Result!ResultAssumption
  <2>2. None \notin 0 .. 255 /\ machine \in BOOLEAN /\ changed \in BOOLEAN
    BY DEF Result!ResultAssumption, ResultInv, ResultTypes
  <2>3. ResultTypes'
    BY <2>1, <2>2 DEF ResultInv, ResultTypes
  <2>4. Consent' /\ Told'
    BY <2>1 DEF ResultInv, Consent, Told, Silence
  <2>5. resultPhase' = "done" => Agreed'
    BY <2>1, <2>2 DEF Agreed, Result!ZeroIsAWholeSuccess, Result!OneObjectForTheStatus,
                      Result!NeverSilent, Result!RefusedMeansUntouched
  <2>. QED  BY <2>3, <2>4, <2>5 DEF ResultInv
<1>2. CASE Result!Leave
  <2>1. /\ resultPhase = "leave" /\ resultPhase' = "done" /\ exit' = leaves
        /\ UNCHANGED <<kind, machine, terminal, yes, prompted, changed, error, leaves, stdout,
                       stderr, failed>>
    BY <1>2 DEF Result!Leave
  <2>2. /\ leaves \in {0, 1, 130}
        /\ leaves # 0 => kind = "batch"
        /\ stdout = <<Result!Piece(Result!Document, Result!DocumentCode, TRUE)>>
        /\ None \notin 0 .. 255
    BY <2>1 DEF ResultInv, ResultTypes, Consent, Told, Result!ResultAssumption
  <2>3. /\ Len(stdout) = 1 /\ DOMAIN stdout = {1} /\ stdout[1].whole
        /\ stdout[1].what = Result!Document /\ stdout[1].code = Result!DocumentCode
    BY <2>2 DEF Result!Piece
  <2>4. ResultTypes'
    <3>1. leaves \in 0 .. 255
      BY <2>2
    <3>2. exit' \in 0 .. 255 /\ exit' # None
      BY <2>1, <2>2, <3>1
    <3>. QED  BY <2>1, <3>2 DEF ResultInv, ResultTypes
  <2>5. Consent' /\ Told'
    BY <2>1 DEF ResultInv, Consent, Told, Silence
  <2>6. leaves = 0 => Result!Document = "success"
    BY DEF Result!Document
  <2>7. leaves # 0 => Result!Document = "failure" /\ Result!DocumentCode = "RemoteExecutionFailed"
    BY DEF Result!Document, Result!DocumentCode
  <2>8. Result!ZeroIsAWholeSuccess'
    BY <2>1, <2>2, <2>3, <2>6 DEF Result!ZeroIsAWholeSuccess
  <2>9. Result!OneObjectForTheStatus'
    <3>1. CASE leaves = 0
      BY <2>1, <2>3, <2>6, <3>1 DEF Result!OneObjectForTheStatus
    <3>2. CASE leaves = 1
      <4>1. Result!ExitOf(stdout[1].code) = 1 /\ stdout[1].what = "failure"
        BY <2>3, <2>7, <3>2, ExitOfIs
      <4>. QED  BY <2>1, <2>3, <3>2, <4>1 DEF Result!OneObjectForTheStatus
    <3>3. CASE leaves = 130
      <4>1. kind' = "batch" /\ exit' = 130 /\ stdout[1].what = "failure" /\ stdout' = stdout
        <5>1. leaves # 0
          BY <3>3
        <5>. QED  BY <2>1, <2>2, <2>3, <2>7, <3>3, <5>1
      <4>2. 130 \in {Result!ExitOf(stdout[1].code)} \cup {130}
        OBVIOUS
      <4>. QED  BY <2>3, <4>1, <4>2 DEF Result!OneObjectForTheStatus
    <3>. QED  BY <2>2, <3>1, <3>2, <3>3
  <2>10. Result!NeverSilent'
    BY <2>1, <2>2, <2>3, <2>6, <2>7 DEF Result!NeverSilent, Result!Whole
  <2>11. Result!RefusedMeansUntouched'
    BY <2>1, <2>2 DEF Result!RefusedMeansUntouched
  <2>. QED  BY <2>4, <2>5, <2>8, <2>9, <2>10, <2>11 DEF ResultInv, Agreed
<1>. QED  BY <1>1, <1>2

\* The steps that write.
LEMMA TalkingSteps ==
    ASSUME ResultInv, Result!Prompt \/ Result!Output \/ Result!Warn
    PROVE  ResultInv'
<1>. USE DEF Result!Raise, Result!Moves, Result!line, Result!silent
<1>0. /\ stdout \in Seq(Pieces) /\ stderr \in Seq(Pieces) /\ error \in Code
      /\ "Io" \in Code /\ None \in Code /\ changed \in BOOLEAN
      /\ failed \subseteq {"stdout", "stderr"} /\ machine \in BOOLEAN
  BY DEF ResultInv, ResultTypes, Code
<1>1. CASE Result!Prompt
  <2>1. /\ resultPhase = "confirm" /\ terminal /\ ~ machine
        /\ resultPhase' \in {"answer", "error"} /\ error' \in Code
        /\ resultPhase' = "answer" => prompted' = TRUE
        /\ resultPhase' = "error" => prompted' = prompted
        /\ failed' \subseteq failed \cup {"stderr"}
        /\ UNCHANGED <<kind, machine, terminal, yes, changed, leaves, stdout, exit>>
    BY <1>0, <1>1 DEF Result!Prompt, Result!Interactive, Result!WritesErr, Result!FailsErr
  <2>2. stderr' \in Seq(Pieces)
    <3>1. "prompt" \in Word
      BY DEF Word
    <3>2. stderr' = Result!Written(stderr, "prompt", None)
             \/ stderr' \in Result!Broken(stderr, "prompt", None)
      BY <1>1 DEF Result!Prompt, Result!WritesErr, Result!FailsErr
    <3>. QED  BY <1>0, <3>1, <3>2, Pieced
  <2>3. ResultTypes'
    <3>1. /\ prompted' \in BOOLEAN /\ leaves' \in {0, 1, 130} /\ changed' \in BOOLEAN
          /\ error' \in Code /\ failed' \subseteq {"stdout", "stderr"} /\ stdout' \in Seq(Pieces)
      BY <1>0, <2>1 DEF ResultInv, ResultTypes
    <3>. QED  BY <2>1, <2>2, <3>1, GoesOn DEF Silence
  <2>4. Consent'
    BY <2>1 DEF ResultInv, Consent
  <2>5. Told'
    BY <2>1 DEF ResultInv, Told, Consent, Silence
  <2>. QED  BY <2>1, <2>3, <2>4, <2>5 DEF ResultInv
<1>2. CASE Result!Output
  <2>1. /\ resultPhase = "output" /\ resultPhase' \in {"warn", "emergency", "error"}
        /\ error' \in {error, "Io"}
        /\ resultPhase' = "error" => error' = "Io"
        /\ resultPhase' = "warn" =>
              /\ stdout' = Result!Written(stdout, Result!Document, Result!DocumentCode)
              /\ failed' = failed
        /\ resultPhase' # "warn" =>
              /\ stdout' \in Result!Broken(stdout, Result!Document, Result!DocumentCode)
              /\ failed' = failed \cup {"stdout"}
        /\ UNCHANGED <<kind, machine, terminal, yes, prompted, changed, leaves, stderr, exit>>
    BY <1>2 DEF Result!Output, Result!WritesOut, Result!FailsOut
  <2>2. Result!Document \in Word /\ Result!DocumentCode \in Code
    BY DEF Result!Document, Result!DocumentCode, Word, Code
  <2>3. stdout = <<>> /\ "stdout" \notin failed
    BY <2>1 DEF ResultInv, Told, Silence
  <2>4. /\ stdout' \in Seq(Pieces)
        /\ resultPhase' = "warn" =>
              stdout' = <<Result!Piece(Result!Document, Result!DocumentCode, TRUE)>>
    BY <1>0, <2>1, <2>2, <2>3, Pieced
  <2>5. ResultTypes'
    <3>1. /\ prompted' \in BOOLEAN /\ leaves' \in {0, 1, 130} /\ changed' \in BOOLEAN
          /\ error' \in Code /\ failed' \subseteq {"stdout", "stderr"} /\ stderr' \in Seq(Pieces)
      BY <1>0, <2>1 DEF ResultInv, ResultTypes
    <3>. QED  BY <2>1, <2>4, <3>1, GoesOn DEF Silence
  <2>6. Consent'
    BY <2>1 DEF ResultInv, Consent
  <2>7. Result!Document' = Result!Document /\ Result!DocumentCode' = Result!DocumentCode
    BY <2>1 DEF Result!Document, Result!DocumentCode
  <2>8. Told'
    BY <2>1, <2>3, <2>4, <2>7 DEF Told, Silence, Result!Piece
  <2>. QED  BY <2>1, <2>5, <2>6, <2>8 DEF ResultInv
<1>3. CASE Result!Warn
  <2>1. /\ resultPhase = "warn" /\ resultPhase' \in {"leave", "error"} /\ error' \in {error, "Io"}
        /\ resultPhase' = "error" => error' = "Io" /\ ~ machine
        /\ failed' \subseteq failed \cup {"stderr"}
        /\ UNCHANGED <<kind, machine, terminal, yes, prompted, changed, leaves, stdout, exit>>
    BY <1>3 DEF Result!Warn, Result!WritesErr, Result!FailsErr
  <2>2. stderr' \in Seq(Pieces)
    <3>1. "warning" \in Word
      BY DEF Word
    <3>2. stderr' = stderr \/ stderr' = Result!Written(stderr, "warning", None)
             \/ stderr' \in Result!Broken(stderr, "warning", None)
      BY <1>3 DEF Result!Warn, Result!WritesErr, Result!FailsErr
    <3>. QED  BY <1>0, <3>1, <3>2, Pieced
  <2>3. ResultTypes'
    <3>1. /\ prompted' \in BOOLEAN /\ leaves' \in {0, 1, 130} /\ changed' \in BOOLEAN
          /\ error' \in Code /\ failed' \subseteq {"stdout", "stderr"} /\ stdout' \in Seq(Pieces)
      BY <1>0, <2>1 DEF ResultInv, ResultTypes
    <3>. QED  BY <2>1, <2>2, <3>1, GoesOn DEF Silence
  <2>4. Consent'
    BY <2>1 DEF ResultInv, Consent
  <2>5. Result!Document' = Result!Document /\ Result!DocumentCode' = Result!DocumentCode
    BY <2>1 DEF Result!Document, Result!DocumentCode
  <2>6. Told'
    BY <2>1, <2>5 DEF ResultInv, Told, Silence, Result!Piece
  <2>. QED  BY <2>1, <2>3, <2>4, <2>6 DEF ResultInv
<1>. QED  BY <1>1, <1>2, <1>3

\* A failure that is told whole, on the channel of the format, ends the story; one
\* that is not goes to stderr.
LEMMA WriteErrorKeeps ==
    ASSUME ResultInv, Result!ResultAssumption, Result!WriteError
    PROVE  ResultInv'
<1>. USE DEF Result!Exits
<1>0. /\ stdout \in Seq(Pieces) /\ stderr \in Seq(Pieces) /\ error \in Code
      /\ "Io" \in Code /\ "failure" \in Word /\ machine \in BOOLEAN /\ changed \in BOOLEAN
      /\ failed \subseteq {"stdout", "stderr"} /\ None \notin 0 .. 255
  BY DEF ResultInv, ResultTypes, Code, Word, Result!ResultAssumption
<1>1. /\ resultPhase = "error"
      /\ UNCHANGED <<kind, machine, terminal, yes, prompted, changed, leaves>>
  BY DEF Result!WriteError, Result!line
<1>2. /\ machine => stdout = <<>> \/ "stdout" \in failed
      /\ changed => error \in {"Io", "InvalidInput"}
  BY <1>1 DEF ResultInv, Told
<1>3. stdout' \in Seq(Pieces) /\ stderr' \in Seq(Pieces) /\ failed' \subseteq {"stdout", "stderr"}
  <2>1. stdout' = stdout \/ stdout' = Result!Written(stdout, "failure", error)
           \/ stdout' \in Result!Broken(stdout, "failure", error)
    BY DEF Result!WriteError, Result!WritesOut, Result!FailsOut, Result!WritesErr, Result!FailsErr
  <2>2. stderr' = stderr \/ stderr' = Result!Written(stderr, "failure", error)
           \/ stderr' \in Result!Broken(stderr, "failure", error)
    BY DEF Result!WriteError, Result!WritesOut, Result!FailsOut, Result!WritesErr, Result!FailsErr
  <2>3. failed' \subseteq {"stdout", "stderr"}
    BY <1>0 DEF Result!WriteError, Result!WritesOut, Result!FailsOut, Result!WritesErr,
                Result!FailsErr
  <2>. QED  BY <1>0, <2>1, <2>2, <2>3, Pieced
<1>4. Consent'
  <2>1. resultPhase' \in {"done", "emergency"}
    BY DEF Result!WriteError
  <2>. QED  BY <1>1, <2>1 DEF ResultInv, Consent
<1>5. CASE resultPhase' = "emergency"
  <2>1. error' = "Io" /\ exit' = exit /\ (machine => "stdout" \in failed')
    BY <1>5 DEF Result!WriteError, Result!FailsOut, Result!FailsErr
  <2>2. ResultTypes'
    <3>1. prompted' \in BOOLEAN /\ changed' \in BOOLEAN /\ leaves' \in {0, 1, 130}
      BY <1>1 DEF ResultInv, ResultTypes
    <3>. QED  BY <1>0, <1>1, <1>3, <1>5, <2>1, <3>1, GoesOn DEF Silence
  <2>3. Told'
    BY <1>1, <1>5, <2>1 DEF Told, Silence
  <2>. QED  BY <1>4, <1>5, <2>2, <2>3 DEF ResultInv
<1>6. CASE resultPhase' # "emergency"
  <2>1. /\ resultPhase' = "done" /\ exit' = Result!ExitOf(error) /\ error' = error
        /\ failed' = failed
        /\ machine => stdout' = Result!Written(stdout, "failure", error)
        /\ ~ machine => stderr' = Result!Written(stderr, "failure", error)
    BY <1>6 DEF Result!WriteError, Result!WritesOut, Result!WritesErr
  <2>2. exit' \in 1 .. 6
    BY <2>1, ExitOfIs
  <2>3. exit' \in 0 .. 255 /\ exit' # None
    <3>1. exit' \in 0 .. 255
      BY <2>2
    <3>. QED  BY <1>0, <3>1
  <2>4. ResultTypes'
    BY <1>0, <1>1, <1>3, <2>1, <2>3 DEF ResultInv, ResultTypes
  <2>5. Told'
    BY <2>1 DEF Told, Silence
  <2>6. Result!ZeroIsAWholeSuccess'
    BY <2>2 DEF Result!ZeroIsAWholeSuccess
  <2>7. Result!OneObjectForTheStatus'
    <3>. SUFFICES ASSUME machine, "stdout" \notin failed
                  PROVE  Result!OneObjectForTheStatus'
      BY <1>1, <2>1 DEF Result!OneObjectForTheStatus
    <3>1. stdout' = <<Result!Piece("failure", error, TRUE)>>
      BY <1>0, <1>2, <2>1, Pieced
    <3>2. Len(stdout') = 1 /\ stdout'[1].whole /\ stdout'[1].what = "failure"
          /\ stdout'[1].code = error
      BY <3>1 DEF Result!Piece
    <3>. QED  BY <2>1, <3>2 DEF Result!OneObjectForTheStatus
  <2>8. Result!NeverSilent'
    <3>1. CASE machine
      <4>1. Result!Whole(stdout', "failure")
        BY <1>0, <2>1, <3>1, Pieced
      <4>. QED  BY <4>1 DEF Result!NeverSilent, Result!Whole
    <3>2. CASE ~ machine
      <4>1. Result!Whole(stderr', "failure")
        BY <1>0, <2>1, <3>2, Pieced
      <4>. QED  BY <4>1 DEF Result!NeverSilent, Result!Whole
    <3>. QED  BY <3>1, <3>2
  <2>9. Result!RefusedMeansUntouched'
    <3>1. changed => exit' \in {1, 2}
      BY <1>2, <2>1, ExitOfIs
    <3>2. changed => exit' \notin 3 .. 6
      BY <3>1
    <3>. QED  BY <1>0, <1>1, <3>2 DEF Result!RefusedMeansUntouched
  <2>. QED  BY <1>4, <2>4, <2>5, <2>6, <2>7, <2>8, <2>9 DEF ResultInv, Agreed
<1>. QED  BY <1>5, <1>6

\* The emergency: once as usual and once without looking.
LEMMA EmergencyKeeps ==
    ASSUME ResultInv, Result!ResultAssumption, Result!Emergency \/ Result!LastAttempt
    PROVE  ResultInv'
<1>. USE DEF Result!Exits
<1>0. /\ stdout \in Seq(Pieces) /\ stderr \in Seq(Pieces) /\ error \in Code
      /\ "failure" \in Word /\ machine \in BOOLEAN
      /\ failed \subseteq {"stdout", "stderr"} /\ None \notin 0 .. 255
  BY DEF ResultInv, ResultTypes, Word, Result!ResultAssumption
<1>1. /\ resultPhase \in {"emergency", "last"}
      /\ UNCHANGED <<kind, machine, terminal, yes, prompted, changed, error, leaves, stdout>>
      /\ failed \subseteq failed' /\ failed' \subseteq {"stdout", "stderr"}
  BY <1>0 DEF Result!Emergency, Result!LastAttempt, Result!WritesErr, Result!FailsErr, Result!line
<1>2. machine => "stdout" \in failed'
  BY <1>1 DEF ResultInv, Told
<1>3. stderr' \in Seq(Pieces)
  <2>1. stderr' = Result!Written(stderr, "failure", error)
           \/ stderr' \in Result!Broken(stderr, "failure", error)
    BY DEF Result!Emergency, Result!LastAttempt, Result!WritesErr, Result!FailsErr
  <2>. QED  BY <1>0, <2>1, Pieced
<1>4. CASE resultPhase' = "last"
  <2>1. exit' = exit /\ "stderr" \in failed'
    BY <1>4 DEF Result!Emergency, Result!LastAttempt, Result!FailsErr
  <2>2. ResultTypes'
    <3>1. prompted' \in BOOLEAN /\ changed' \in BOOLEAN /\ leaves' \in {0, 1, 130}
      BY <1>1 DEF ResultInv, ResultTypes
    <3>. QED  BY <1>0, <1>1, <1>3, <1>4, <2>1, <3>1, GoesOn DEF Silence
  <2>3. Consent'
    BY <1>1, <1>4 DEF ResultInv, Consent
  <2>4. Told'
    BY <1>1, <1>2, <1>4, <2>1 DEF Told, Silence
  <2>. QED  BY <1>4, <2>2, <2>3, <2>4 DEF ResultInv
<1>5. CASE resultPhase' # "last"
  <2>1. /\ resultPhase' = "done" /\ exit' \in {1, 101}
        /\ stderr' = Result!Written(stderr, "failure", error) \/ "stderr" \in failed'
    BY <1>5 DEF Result!Emergency, Result!LastAttempt, Result!WritesErr, Result!FailsErr,
                Result!FAILURE, Result!PANIC
  <2>2. exit' \in 0 .. 255 /\ exit' # None
    <3>1. exit' \in 0 .. 255
      BY <2>1
    <3>. QED  BY <1>0, <3>1
  <2>3. ResultTypes'
    BY <1>0, <1>1, <1>3, <2>1, <2>2 DEF ResultInv, ResultTypes
  <2>4. Consent'
    BY <1>1, <2>1 DEF ResultInv, Consent
  <2>5. Told'
    BY <2>1 DEF Told, Silence
  <2>6. Result!ZeroIsAWholeSuccess' /\ Result!RefusedMeansUntouched'
    BY <2>1 DEF Result!ZeroIsAWholeSuccess, Result!RefusedMeansUntouched
  <2>7. Result!OneObjectForTheStatus'
    BY <1>1, <1>2 DEF Result!OneObjectForTheStatus
  <2>8. Result!NeverSilent'
    <3>1. CASE "stderr" \in failed'
      BY <3>1 DEF Result!NeverSilent
    <3>2. CASE stderr' = Result!Written(stderr, "failure", error)
      <4>1. Result!Whole(stderr', "failure")
        BY <1>0, <3>2, Pieced
      <4>. QED  BY <4>1 DEF Result!NeverSilent, Result!Whole
    <3>. QED  BY <2>1, <3>1, <3>2
  <2>. QED  BY <2>1, <2>3, <2>4, <2>5, <2>6, <2>7, <2>8 DEF ResultInv, Agreed
<1>. QED  BY <1>4, <1>5

LEMMA ResultBegins == ASSUME Result!ResultAssumption, Result!Init PROVE ResultInv
<1>1. /\ {machine, yes, terminal} \subseteq BOOLEAN /\ prompted = FALSE /\ changed = FALSE
      /\ leaves = 0 /\ stdout = <<>> /\ stderr = <<>> /\ failed = {} /\ exit = None
      /\ resultPhase \in {"begin", "output", "error"}
      /\ error \in {None, "InvalidArguments"}
  BY DEF Result!Init
<1>2. <<>> \in Seq(Pieces)
  OBVIOUS
<1>3. ResultTypes
  BY <1>1, <1>2 DEF ResultTypes, Silence, Code
<1>4. Consent
  BY <1>1 DEF Consent
<1>5. Told
  BY <1>1 DEF Told, Silence
<1>. QED  BY <1>1, <1>3, <1>4, <1>5 DEF ResultInv

\* CommandResult: for any commands, errors and statuses of children, and whatever
\* writes fail: with status 0 the output is a whole success; one object tells of the
\* status while stdout can be written; a failure is explained unless stderr is lost
\* too; a refusal changed nothing; nothing is removed without consent.
THEOREM StoriesAgree == Result!Spec => []ResultsAgree
<1>. USE PartsAssumption
<1>1. Result!Init => ResultInv
  BY ResultBegins
<1>2. ResultInv /\ [Result!Next]_(Result!vars) => ResultInv'
  <2>. SUFFICES ASSUME ResultInv, [Result!Next]_(Result!vars) PROVE ResultInv'
    OBVIOUS
  <2>1. CASE UNCHANGED Result!vars
    BY <2>1 DEF ResultInv, Result!vars, Result!line, ResultTypes, Consent, Told, Agreed,
                Result!ZeroIsAWholeSuccess, Result!OneObjectForTheStatus, Result!NeverSilent,
                Result!RefusedMeansUntouched, Result!Whole, Result!Piece, Result!Document,
                Result!DocumentCode
  <2>2. CASE Result!Begin \/ Result!Refuse \/ Result!Answer \/ Result!Work \/ Result!Reload
    BY <2>2, QuietSteps
  <2>3. CASE Result!Prompt \/ Result!Output \/ Result!Warn
    BY <2>3, TalkingSteps
  <2>4. CASE Result!Session \/ Result!Leave
    BY <2>4, LeavingSteps
  <2>5. CASE Result!WriteError
    BY <2>5, WriteErrorKeeps
  <2>6. CASE Result!Emergency \/ Result!LastAttempt
    BY <2>6, EmergencyKeeps
  <2>. QED  BY <2>1, <2>2, <2>3, <2>4, <2>5, <2>6 DEF Result!Next
<1>3. ResultInv => ResultsAgree
  <2>. SUFFICES ASSUME ResultInv PROVE ResultsAgree
    OBVIOUS
  <2>1. \A out \in Seq(Pieces) : Result!InPieces(out)
    <3>. SUFFICES ASSUME NEW out \in Seq(Pieces), NEW i \in DOMAIN out
                  PROVE  out[i].what \in Word /\ out[i].whole \in BOOLEAN
      BY DEF Result!InPieces, Word
    <3>1. out[i] \in Pieces
      BY LenProperties
    <3>. QED  BY <3>1 DEF Pieces
  <2>2. Result!TypeOK
    BY <2>1 DEF ResultInv, ResultTypes, Result!TypeOK
  <2>3. Agreed
    <3>1. CASE resultPhase = "done"
      BY <3>1 DEF ResultInv
    <3>2. CASE resultPhase # "done"
      <4>1. exit = None /\ None \notin 0 .. 255
        BY <3>2 DEF ResultInv, ResultTypes, Result!ResultAssumption
      <4>2. exit # 0 /\ exit \notin 3 .. 6
        BY <4>1
      <4>. QED  BY <3>2, <4>2 DEF Agreed, Result!ZeroIsAWholeSuccess, Result!OneObjectForTheStatus,
                               Result!NeverSilent, Result!RefusedMeansUntouched
    <3>. QED  BY <3>1, <3>2
  <2>4. Result!RemovedOnRequest
    BY DEF ResultInv, Consent, Result!RemovedOnRequest
  <2>. QED  BY <2>2, <2>3, <2>4 DEF ResultsAgree, Result!ResultsAgree, Agreed
<1>. QED  BY <1>1, <1>2, <1>3, PTL DEF Result!Spec

-----------------------------------------------------------------------------
(* ArgumentScan and CommandPath: what is found on a line that clap refused. *)
(* First, where a loop ends that gets further with each step.               *)

LEMMA LeastOf ==
    ASSUME NEW T \in SUBSET Nat, T # {}
    PROVE  \E x \in T : \A y \in T : x <= y
<1>. DEFINE Less(n) == 0 .. n - 1
            All == {Less(n) : n \in T}
<1>1. All \subseteq FiniteSubsetsOf(Nat) /\ All # {}
  <2>1. \A n \in T : IsFiniteSet(Less(n)) /\ Less(n) \in SUBSET Nat
    BY FS_Interval
  <2>. HIDE DEF Less
  <2>. QED  BY <2>1 DEF FiniteSubsetsOf
<1>2. PICK b \in All : \A c \in All : ~ (<<c, b>> \in StrictSubsetOrdering(Nat))
  <2>. HIDE DEF All
  <2>. QED  BY <1>1, FS_StrictSubsetOrderingWellFounded, WFMin
<1>3. PICK x \in T : b = Less(x)
  OBVIOUS
<1>4. ASSUME NEW y \in T, ~ (x <= y) PROVE FALSE
  <2>1. Less(y) \subseteq Less(x) /\ Less(y) # Less(x)
    <3>1. x - 1 \in Less(x) /\ x - 1 \notin Less(y)
      BY <1>4
    <3>. QED  BY <3>1, <1>4
  <2>2. Less(y) \in All /\ Less(x) \in SUBSET Nat /\ Less(y) \in SUBSET Nat
    OBVIOUS
  <2>. HIDE DEF Less
  <2>3. <<Less(y), b>> \in StrictSubsetOrdering(Nat)
    BY <2>1, <2>2, <1>3 DEF StrictSubsetOrdering
  <2>. QED  BY <1>2, <2>2, <2>3
<1>. QED  BY <1>4

\* A loop that gets further from each place to the next.
Advances(next, stop, level, top) ==
    /\ top \in Nat /\ level \in [DOMAIN next -> 0 .. top]
    /\ \A d \in DOMAIN next : d \notin stop =>
          next[d] \in DOMAIN next /\ level[d] < level[next[d]]

\* There is a function that says where it ends.
LEMMA EndsAre ==
    ASSUME NEW next, NEW stop, NEW level, NEW top, Advances(next, stop, level, top)
    PROVE  Ends(next, stop) =
              [d \in DOMAIN next |-> IF d \in stop THEN d ELSE Ends(next, stop)[next[d]]]
<1>. DEFINE D == DOMAIN next
            Is(f) == f = [d \in D |-> IF d \in stop THEN d ELSE f[next[d]]]
            From(k, f) == \A d \in D : level[d] >= k =>
                             f[d] = IF d \in stop THEN d ELSE f[next[d]]
            T == {k \in Nat : \E f \in [D -> D] : From(k, f)}
<1>1. /\ top \in Nat /\ level \in [D -> 0 .. top]
      /\ \A d \in D : d \notin stop => next[d] \in D /\ level[d] < level[next[d]]
  BY DEF Advances
<1>2. \A d \in D : level[d] \in Nat /\ level[d] <= top
  BY <1>1
<1>. HIDE DEF D
<1>3. top + 1 \in T
  <2>. DEFINE f == [d \in D |-> d]
  <2>1. f \in [D -> D]
    OBVIOUS
  <2>2. From(top + 1, f)
    BY <1>1, <1>2
  <2>. HIDE DEF f
  <2>3. \E h \in [D -> D] : From(top + 1, h)
    BY <2>1, <2>2
  <2>4. top + 1 \in Nat
    BY <1>1
  <2>. HIDE DEF From
  <2>. QED  BY <2>3, <2>4
<1>4. ASSUME NEW m \in Nat \ {0}, m \in T PROVE m - 1 \in T
  <2>1. PICK f \in [D -> D] : From(m, f)
    BY <1>4
  <2>. DEFINE g == [d \in D |-> IF level[d] >= m THEN f[d]
                                ELSE IF d \in stop THEN d ELSE f[next[d]]]
  <2>2. \A d \in D : f[d] \in D
    OBVIOUS
  <2>3. g \in [D -> D]
    <3>1. \A d \in D : g[d] \in D
      BY <1>1, <2>2
    <3>. QED  BY <3>1
  <2>4. ASSUME NEW d \in D, level[d] >= m - 1
        PROVE  g[d] = IF d \in stop THEN d ELSE g[next[d]]
    <3>1. CASE d \in stop
      <4>1. CASE level[d] >= m
        BY <2>1, <3>1, <4>1
      <4>2. CASE ~ (level[d] >= m)
        BY <3>1, <4>2
      <4>. QED  BY <4>1, <4>2
    <3>2. CASE d \notin stop
      <4>1. next[d] \in D /\ level[next[d]] >= m
        BY <1>1, <1>2, <2>4, <3>2
      <4>2. g[next[d]] = f[next[d]]
        BY <4>1
      <4>3. g[d] = f[next[d]]
        <5>1. CASE level[d] >= m
          BY <2>1, <3>2, <5>1
        <5>2. CASE ~ (level[d] >= m)
          BY <3>2, <5>2
        <5>. QED  BY <5>1, <5>2
      <4>. QED  BY <3>2, <4>2, <4>3
    <3>. QED  BY <3>1, <3>2
  <2>. HIDE DEF g
  <2>. QED  BY <2>3, <2>4
<1>5. 0 \in T
  <2>1. T \in SUBSET Nat /\ T # {}
    BY <1>3
  <2>. HIDE DEF T
  <2>2. PICK m \in T : \A k \in T : m <= k
    BY <2>1, LeastOf
  <2>3. m \in Nat
    BY <2>1
  <2>4. ASSUME m # 0 PROVE FALSE
    <3>1. m - 1 \in T
      BY <1>4, <2>2, <2>3, <2>4
    <3>. QED  BY <2>2, <2>3, <3>1
  <2>. QED  BY <2>2, <2>4
<1>6. PICK f \in [D -> D] : From(0, f)
  BY <1>5
<1>7. Is(f)
  <2>1. \A d \in D : f[d] = IF d \in stop THEN d ELSE f[next[d]]
    BY <1>2, <1>6
  <2>2. f = [d \in D |-> f[d]]
    OBVIOUS
  <2>. QED  BY <2>1, <2>2
<1>8. Ends(next, stop) = CHOOSE g : Is(g)
  BY Zenon DEF Ends, D
<1>9. Is(CHOOSE g : Is(g))
  <2>. HIDE DEF Is
  <2>. QED  BY <1>7
<1>10. Is(Ends(next, stop))
  <2>. HIDE DEF Is
  <2>. QED  BY <1>8, <1>9
<1>. QED  BY <1>10 DEF D

\* What holds from place to place holds where it ends.
LEMMA EndsWithin ==
    ASSUME NEW next, NEW stop, NEW level, NEW top, Advances(next, stop, level, top),
           NEW I \in SUBSET (DOMAIN next),
           \A d \in I : d \notin stop => next[d] \in I,
           NEW e \in I
    PROVE  Ends(next, stop)[e] \in I \cap stop
<1>. DEFINE D == DOMAIN next
            end == Ends(next, stop)
            Bad == {d \in I : end[d] \notin I \cap stop}
            T == {top - level[d] : d \in Bad}
<1>1. /\ top \in Nat
      /\ \A d \in D : level[d] \in 0 .. top
      /\ \A d \in D : d \notin stop => next[d] \in D /\ level[d] < level[next[d]]
  BY DEF Advances
<1>2. \A d \in D : end[d] = IF d \in stop THEN d ELSE end[next[d]]
  <2>1. end = [d \in D |-> IF d \in stop THEN d ELSE end[next[d]]]
    BY EndsAre
  <2>. HIDE DEF end, D
  <2>. QED  BY <2>1
<1>. HIDE DEF end, D
<1>3. I \subseteq D
  BY DEF D
<1>4. Bad = {}
  <2>. SUFFICES ASSUME Bad # {} PROVE FALSE
    OBVIOUS
  <2>1. T \in SUBSET Nat /\ T # {}
    BY <1>1, <1>3
  <2>2. PICK k \in T : \A l \in T : k <= l
    <3>. HIDE DEF T
    <3>. QED  BY <2>1, LeastOf
  <2>3. PICK d \in Bad : k = top - level[d]
    BY <2>2
  <2>4. d \in I /\ d \in D /\ end[d] \notin I \cap stop
    BY <1>3
  <2>5. d \notin stop
    BY <1>2, <2>4
  <2>6. next[d] \in I /\ next[d] \in D /\ level[d] < level[next[d]]
    BY <1>1, <2>4, <2>5
  <2>7. next[d] \in Bad
    BY <1>2, <2>4, <2>5, <2>6
  <2>8. top - level[next[d]] \in T
    BY <2>7
  <2>9. top - level[d] <= top - level[next[d]]
    BY <2>2, <2>3, <2>8
  <2>10. level[d] \in 0 .. top /\ level[next[d]] \in 0 .. top
    BY <1>1, <2>4, <2>6
  <2>. QED  BY <1>1, <2>6, <2>9, <2>10
<1>. QED  BY <1>4 DEF end

-----------------------------------------------------------------------------
(* Options, where they stand and how many arguments they take.              *)

\* What stands at a place.
LEMMA Standings ==
    /\ \A i : i \in DOMAIN argv => At(i) = argv[i]
    /\ \A i : i \notin DOMAIN argv => At(i) = "nothing"
BY DEF At

\* A loop over options goes from head to head, and what is no head looks like none.
LEMMA Heads ==
    ASSUME NEW from \in Int, NEW to \in Int, NEW heads, NEW options, from <= to + 1,
           AreOptions(from, to, heads, options)
    PROVE  /\ heads \subseteq from .. to
           /\ from \in heads \cup {to + 1}
           /\ \A i \in heads :
                 /\ argv[i] \in options
                 /\ i + (IF HasValue(i, options) THEN 2 ELSE 1) \in heads \cup {to + 1}
           /\ \A i \in from .. to : i \notin heads => argv[i] \notin Dashed
<1>1. /\ heads \subseteq from .. to
      /\ \A i \in from .. to :
            i \in heads <=> ~ (i - 1 \in heads /\ HasValue(i - 1, options))
      /\ \A i \in heads :
            /\ argv[i] \in options
            /\ HasValue(i, options) => i + 1 <= to /\ argv[i + 1] \notin Dashed
  BY DEF AreOptions
<1>2. from \in heads \cup {to + 1}
  BY <1>1
<1>3. ASSUME NEW i \in heads
      PROVE  i + (IF HasValue(i, options) THEN 2 ELSE 1) \in heads \cup {to + 1}
  <2>1. i \in from .. to
    BY <1>1
  <2>2. CASE HasValue(i, options)
    <3>1. i + 1 \in from .. to
      BY <1>1, <2>1, <2>2
    <3>2. i + 1 \notin heads
      BY <1>1, <2>1, <2>2, <3>1
    <3>3. i + 2 <= to => i + 2 \in heads
      <4>. SUFFICES ASSUME i + 2 <= to PROVE i + 2 \in heads
        OBVIOUS
      <4>1. i + 2 \in from .. to /\ (i + 2) - 1 = i + 1
        BY <2>1
      <4>. QED  BY <1>1, <3>2, <4>1
    <3>. QED  BY <2>1, <2>2, <3>1, <3>3
  <2>3. CASE ~ HasValue(i, options)
    <3>1. i + 1 <= to => i + 1 \in heads
      <4>. SUFFICES ASSUME i + 1 <= to PROVE i + 1 \in heads
        OBVIOUS
      <4>1. i + 1 \in from .. to /\ (i + 1) - 1 = i
        BY <2>1
      <4>. QED  BY <1>1, <2>3, <4>1
    <3>. QED  BY <2>1, <2>3, <3>1
  <2>. QED  BY <2>2, <2>3
<1>4. ASSUME NEW i \in from .. to, i \notin heads PROVE argv[i] \notin Dashed
  <2>1. i - 1 \in heads /\ HasValue(i - 1, options) /\ (i - 1) + 1 = i
    BY <1>1, <1>4
  <2>. QED  BY <1>1, <2>1
<1>. QED  BY <1>1, <1>2, <1>3, <1>4

\* Which arguments have a value behind them.
Valued == TakesValue \cup RunTakesValue \cup {"-o", "-qo"}

\* The widths of options are those of the language.
LEMMA GlobalWidths ==
    ASSUME NEW i
    PROVE  /\ GlobalWidth(i) \in 0 .. 2
           /\ GlobalWidth(i) > 0 <=> At(i) \in GlobalOptions
           /\ GlobalWidth(i) = 2 <=> At(i) \in Valued \ RunTakesValue
BY DEF GlobalWidth, ConsumesNext, GlobalOptions, Valued, TakesValue, RunTakesValue,
       Joined, Switch, Short, UnknownShort

LEMMA RunWidths ==
    ASSUME NEW i
    PROVE  /\ RunWidth(i) \in 0 .. 2
           /\ RunWidth(i) > 0 <=> At(i) \in RunOptions
           /\ RunWidth(i) = 2 <=> At(i) \in Valued
BY GlobalWidths DEF RunWidth, RunOptions, GlobalOptions, Valued, TakesValue, RunTakesValue,
       RunAlone, Joined, Switch, Short, UnknownShort

LEMMA OptionSets ==
    /\ GlobalOptions \cup Mistaken \subseteq Dashed \ {"--"}
    /\ RunOptions \subseteq Dashed \ {"--"}
    /\ GlobalOptions \subseteq RunOptions
    /\ Valued \subseteq RunOptions
    /\ Valued \cap (GlobalOptions \cup Mistaken) = Valued \ RunTakesValue
    /\ "ssh" \notin Dashed /\ "run" \notin Dashed /\ "nothing" \notin Dashed
BY DEF GlobalOptions, Mistaken, RunOptions, Valued, Dashed, TakesValue, RunTakesValue,
       RunAlone, Joined, Switch, Short, UnknownShort

\* From a head on, global options and mistakes are passed over up to the name
\* behind them.
LEMMA NextNameIs ==
    ASSUME argv \in Seq(Argument), NEW from \in Nat \ {0}, NEW to \in Nat, NEW heads,
           from <= to + 1, to + 1 \in DOMAIN argv, argv[to + 1] \notin Dashed,
           AreOptions(from, to, heads, GlobalOptions \cup Mistaken)
    PROVE  NextName[from] = to + 1
<1>. DEFINE step == [i \in Places |-> IF GlobalWidth(i) > 0 THEN i + GlobalWidth(i) ELSE i + 1]
            stop == {i \in Places : At(i) \notin Dashed \/ At(i) = "--"}
            level == [i \in Places |-> i]
            I == heads \cup {to + 1}
            options == GlobalOptions \cup Mistaken
<1>1. Len(argv) \in Nat /\ DOMAIN argv = 1 .. Len(argv) /\ Places = 1 .. Len(argv) + 2
  BY DEF Places
<1>2. \A i \in Places : i \notin stop => i \in DOMAIN argv
  BY <1>1, Standings, OptionSets
<1>3. \A i \in Places : i \notin stop => step[i] \in Places /\ i < step[i]
  <2>. TAKE i \in Places
  <2>. HAVE i \notin stop
  <2>1. i \in 1 .. Len(argv)
    BY <1>1, <1>2
  <2>2. step[i] = IF GlobalWidth(i) > 0 THEN i + GlobalWidth(i) ELSE i + 1
    OBVIOUS
  <2>. QED  BY <1>1, <2>1, <2>2, GlobalWidths
<1>4. Advances(step, stop, level, Len(argv) + 2)
  BY <1>1, <1>3 DEF Advances
<1>5. /\ heads \subseteq from .. to /\ from \in I
      /\ \A i \in heads : /\ argv[i] \in options
                          /\ i + (IF HasValue(i, options) THEN 2 ELSE 1) \in I
  BY Heads
<1>6. I \in SUBSET Places /\ heads \subseteq DOMAIN argv
  BY <1>1, <1>5
<1>7. \A i \in heads : i \notin stop
  BY <1>5, <1>6, Standings, OptionSets
<1>8. to + 1 \in stop
  BY <1>6, Standings
<1>9. \A i \in heads : step[i] \in I
  <2>. TAKE i \in heads
  <2>1. i \in DOMAIN argv /\ i \in Places /\ At(i) = argv[i] /\ argv[i] \in options
    BY <1>5, <1>6, Standings
  <2>2. step[i] = IF GlobalWidth(i) > 0 THEN i + GlobalWidth(i) ELSE i + 1
    BY <2>1
  <2>3. HasValue(i, options) <=> GlobalWidth(i) = 2
    BY <2>1, GlobalWidths, OptionSets DEF HasValue, Valued
  <2>4. step[i] = i + (IF HasValue(i, options) THEN 2 ELSE 1)
    BY <1>1, <2>1, <2>2, <2>3, GlobalWidths
  <2>. QED  BY <1>5, <2>4
<1>. HIDE DEF step, stop, level, I
<1>10. \A i \in I : i \notin stop => step[i] \in I
  BY <1>8, <1>9 DEF I
<1>11. DOMAIN step = Places
  BY DEF step
<1>12. Ends(step, stop)[from] \in I \cap stop
  BY <1>4, <1>5, <1>6, <1>10, <1>11, EndsWithin
<1>13. I \cap stop = {to + 1}
  BY <1>7, <1>8 DEF I
<1>14. NextName = Ends(step, stop)
  BY DEF NextName, step, stop
<1>. QED  BY <1>12, <1>13, <1>14

\* The same behind run, where what is no option is the remote command or the end.
LEMMA RunBoundaryIs ==
    ASSUME argv \in Seq(Argument), NEW from \in Nat \ {0}, NEW to \in Nat, NEW heads,
           from <= to + 1, to + 1 \in 1 .. Len(argv) + 1,
           to + 1 \in DOMAIN argv => argv[to + 1] \notin RunOptions,
           AreOptions(from, to, heads, RunOptions)
    PROVE  RunBoundary[from] = to + 1
<1>. DEFINE step == [i \in Places |-> i + RunWidth(i)]
            stop == {i \in Places : RunWidth(i) = 0}
            level == [i \in Places |-> i]
            I == heads \cup {to + 1}
<1>1. Len(argv) \in Nat /\ DOMAIN argv = 1 .. Len(argv) /\ Places = 1 .. Len(argv) + 2
  BY DEF Places
<1>2. \A i \in Places : i \notin stop => i \in DOMAIN argv
  BY <1>1, Standings, OptionSets, RunWidths
<1>3. \A i \in Places : i \notin stop => step[i] \in Places /\ i < step[i]
  <2>. TAKE i \in Places
  <2>. HAVE i \notin stop
  <2>1. i \in 1 .. Len(argv) /\ RunWidth(i) # 0
    BY <1>1, <1>2
  <2>2. step[i] = i + RunWidth(i)
    OBVIOUS
  <2>. QED  BY <1>1, <2>1, <2>2, RunWidths
<1>4. Advances(step, stop, level, Len(argv) + 2)
  BY <1>1, <1>3 DEF Advances
<1>5. /\ heads \subseteq from .. to /\ from \in I
      /\ \A i \in heads : /\ argv[i] \in RunOptions
                          /\ i + (IF HasValue(i, RunOptions) THEN 2 ELSE 1) \in I
  BY Heads
<1>6. I \in SUBSET Places /\ heads \subseteq DOMAIN argv
  BY <1>1, <1>5
<1>7. \A i \in heads : i \notin stop
  BY <1>5, <1>6, Standings, RunWidths
<1>8. to + 1 \in stop
  <2>1. At(to + 1) \notin RunOptions
    BY Standings, OptionSets
  <2>. QED  BY <1>6, <2>1, RunWidths
<1>9. \A i \in heads : step[i] \in I
  <2>. TAKE i \in heads
  <2>1. i \in DOMAIN argv /\ i \in Places /\ At(i) = argv[i] /\ argv[i] \in RunOptions
    BY <1>5, <1>6, Standings
  <2>2. step[i] = i + RunWidth(i)
    BY <2>1
  <2>3. HasValue(i, RunOptions) <=> RunWidth(i) = 2
    BY <2>1, RunWidths DEF HasValue, Valued
  <2>4. step[i] = i + (IF HasValue(i, RunOptions) THEN 2 ELSE 1)
    BY <1>1, <2>1, <2>2, <2>3, RunWidths
  <2>. QED  BY <1>5, <2>4
<1>. HIDE DEF step, stop, level, I
<1>10. \A i \in I : i \notin stop => step[i] \in I
  BY <1>8, <1>9 DEF I
<1>11. DOMAIN step = Places
  BY DEF step
<1>12. Ends(step, stop)[from] \in I \cap stop
  BY <1>4, <1>5, <1>6, <1>10, <1>11, EndsWithin
<1>13. I \cap stop = {to + 1}
  BY <1>7, <1>8 DEF I
<1>14. RunBoundary = Ends(step, stop)
  BY DEF RunBoundary, step, stop
<1>. QED  BY <1>12, <1>13, <1>14

-----------------------------------------------------------------------------
(* machine_output_requested: the format the line asks for.                  *)

\* The scan finds where the remote command starts.
LEMMA BoundaryIs ==
    ASSUME argv \in Seq(Argument), NEW ssh \in Standing("ssh"), NEW action \in Standing("run"),
           NEW remote \in 1 .. Len(argv) + 1, NEW heads, SshRunLine(ssh, action, remote, heads)
    PROVE  Boundary = remote
<1>1. /\ Len(argv) \in Nat /\ DOMAIN argv = 1 .. Len(argv)
      /\ ssh \in DOMAIN argv /\ argv[ssh] = "ssh" /\ action \in DOMAIN argv /\ argv[action] = "run"
  BY DEF Standing
<1>2. ssh < action /\ action < remote
  BY DEF SshRunLine
<1>3. NextName[1] = ssh
  <2>1. AreOptions(1, ssh - 1, heads \cap (1 .. ssh - 1), GlobalOptions \cup Mistaken)
    BY DEF SshRunLine
  <2>2. /\ ssh - 1 \in Nat /\ (ssh - 1) + 1 = ssh /\ 1 <= (ssh - 1) + 1
        /\ 1 \in Nat \ {0} /\ argv[ssh] \notin Dashed
    BY <1>1, OptionSets
  <2>. QED  BY <1>1, <2>1, <2>2, NextNameIs
<1>4. NextName[ssh + 1] = action
  <2>1. AreOptions(ssh + 1, action - 1, heads \cap (ssh + 1 .. action - 1),
                   GlobalOptions \cup Mistaken)
    BY DEF SshRunLine
  <2>2. /\ action - 1 \in Nat /\ (action - 1) + 1 = action /\ ssh + 1 <= action
        /\ ssh + 1 \in Nat \ {0} /\ argv[action] \notin Dashed
    BY <1>1, <1>2, OptionSets
  <2>. QED  BY <1>1, <2>1, <2>2, NextNameIs
<1>5. RunBoundary[action + 1] = remote
  <2>1. /\ AreOptions(action + 1, remote - 1, heads \cap (action + 1 .. remote - 1), RunOptions)
        /\ remote \in DOMAIN argv => argv[remote] \notin RunOptions
    BY DEF SshRunLine
  <2>2. /\ remote - 1 \in Nat /\ (remote - 1) + 1 = remote /\ action + 1 <= remote
        /\ action + 1 \in Nat \ {0}
    BY <1>1, <1>2
  <2>. QED  BY <1>1, <2>1, <2>2, RunBoundaryIs
<1>6. At(ssh) = "ssh" /\ At(action) = "run" /\ (remote \notin DOMAIN argv => remote = NoBoundary)
  BY <1>1, Standings DEF NoBoundary
<1>. QED  BY <1>3, <1>4, <1>5, <1>6 DEF Boundary

\* What is no head before the remote command does not look like an option, and
\* an option has its value before the remote command.
LEMMA BeforeRemote ==
    ASSUME argv \in Seq(Argument), NEW ssh \in Standing("ssh"), NEW action \in Standing("run"),
           NEW remote \in 1 .. Len(argv) + 1, NEW heads \in SUBSET (1 .. remote - 1),
           SshRunLine(ssh, action, remote, heads)
    PROVE  /\ heads \subseteq 1 .. remote - 1
           /\ \A i \in 1 .. remote - 1 : i \notin heads => argv[i] \notin Dashed
           /\ \A i \in heads :
                 /\ argv[i] \in RunOptions \cup Mistaken
                 /\ argv[i] \in Valued \ RunTakesValue =>
                       i + 2 <= remote /\ argv[i + 1] \notin Dashed
<1>. DEFINE before == GlobalOptions \cup Mistaken
            one == heads \cap (1 .. ssh - 1)
            two == heads \cap (ssh + 1 .. action - 1)
            three == heads \cap (action + 1 .. remote - 1)
<1>1. /\ Len(argv) \in Nat /\ DOMAIN argv = 1 .. Len(argv)
      /\ ssh \in DOMAIN argv /\ argv[ssh] = "ssh" /\ action \in DOMAIN argv /\ argv[action] = "run"
  BY DEF Standing
<1>2. /\ ssh < action /\ action < remote
      /\ AreOptions(1, ssh - 1, one, before)
      /\ AreOptions(ssh + 1, action - 1, two, before)
      /\ AreOptions(action + 1, remote - 1, three, RunOptions)
      /\ ssh \notin heads /\ action \notin heads
  BY DEF SshRunLine
<1>3. heads = one \cup two \cup three /\ heads \subseteq 1 .. remote - 1
  <2>1. \A h \in heads : h \in 1 .. remote - 1
    OBVIOUS
  <2>2. remote \in Nat
    BY <1>1
  <2>3. \A h \in heads : h \in one \/ h \in two \/ h \in three
    BY <1>1, <1>2, <2>1, <2>2
  <2>. QED  BY <2>1, <2>3
<1>4. \A i \in 1 .. remote - 1 : i \notin heads => argv[i] \notin Dashed
  <2>. TAKE i \in 1 .. remote - 1
  <2>. HAVE i \notin heads
  <2>1. CASE i \in {ssh, action}
    BY <1>1, <2>1, OptionSets
  <2>2. CASE i \in 1 .. ssh - 1
    <3>1. 1 <= (ssh - 1) + 1 /\ ssh - 1 \in Int /\ i \notin one
      BY <1>1
    <3>. QED  BY <1>2, <2>2, <3>1, Heads
  <2>3. CASE i \in ssh + 1 .. action - 1
    <3>1. ssh + 1 <= (action - 1) + 1 /\ ssh + 1 \in Int /\ action - 1 \in Int /\ i \notin two
      BY <1>1, <1>2
    <3>. QED  BY <1>2, <2>3, <3>1, Heads
  <2>4. CASE i \in action + 1 .. remote - 1
    <3>1. action + 1 <= (remote - 1) + 1 /\ action + 1 \in Int /\ remote - 1 \in Int /\ i \notin three
      BY <1>1, <1>2
    <3>. QED  BY <1>2, <2>4, <3>1, Heads
  <2>. QED  BY <1>1, <1>2, <2>1, <2>2, <2>3, <2>4
<1>5. \A i \in heads :
         /\ argv[i] \in RunOptions \cup Mistaken
         /\ argv[i] \in Valued \ RunTakesValue => i + 2 <= remote /\ argv[i + 1] \notin Dashed
  <2>1. ASSUME NEW to \in Int, to + 1 <= remote, NEW part, NEW options,
               NEW from, AreOptions(from, to, part, options), NEW i \in part,
               options \in {before, RunOptions}
        PROVE  /\ argv[i] \in RunOptions \cup Mistaken
               /\ argv[i] \in Valued \ RunTakesValue =>
                     i + 2 <= to + 1 /\ argv[i + 1] \notin Dashed
    <3>1. /\ argv[i] \in options
          /\ HasValue(i, options) => i + 1 <= to /\ argv[i + 1] \notin Dashed
          /\ part \subseteq from .. to
      BY <2>1 DEF AreOptions
    <3>2. argv[i] \in Valued => HasValue(i, options)
      BY <3>1 DEF HasValue, Valued
    <3>3. i \in Int
      BY <3>1
    <3>. QED  BY <2>1, <3>1, <3>2, <3>3, OptionSets
  <2>. TAKE i \in heads
  <2>2. i \in DOMAIN argv /\ ssh - 1 \in Int /\ action - 1 \in Int /\ remote - 1 \in Int
    BY <1>1
  <2>3. CASE i \in one
    <3>1. (ssh - 1) + 1 <= remote /\ i + 2 \in Int
      BY <1>1, <1>2, <2>2
    <3>2. /\ argv[i] \in RunOptions \cup Mistaken
          /\ argv[i] \in Valued \ RunTakesValue =>
                i + 2 <= (ssh - 1) + 1 /\ argv[i + 1] \notin Dashed
      BY <1>2, <2>1, <2>2, <2>3, <3>1
    <3>. QED  BY <1>1, <2>2, <3>1, <3>2
  <2>4. CASE i \in two
    <3>1. (action - 1) + 1 <= remote /\ i + 2 \in Int
      BY <1>1, <1>2, <2>2
    <3>2. /\ argv[i] \in RunOptions \cup Mistaken
          /\ argv[i] \in Valued \ RunTakesValue =>
                i + 2 <= (action - 1) + 1 /\ argv[i + 1] \notin Dashed
      BY <1>2, <2>1, <2>2, <2>4, <3>1
    <3>. QED  BY <1>1, <2>2, <3>1, <3>2
  <2>5. CASE i \in three
    <3>1. (remote - 1) + 1 <= remote /\ i + 2 \in Int
      BY <1>1, <2>2
    <3>2. /\ argv[i] \in RunOptions \cup Mistaken
          /\ argv[i] \in Valued \ RunTakesValue =>
                i + 2 <= (remote - 1) + 1 /\ argv[i + 1] \notin Dashed
      BY <1>2, <2>1, <2>2, <2>5, <3>1
    <3>. QED  BY <1>1, <2>2, <3>1, <3>2
  <2>. QED  BY <1>3, <2>3, <2>4, <2>5
<1>. QED  BY <1>3, <1>4, <1>5

LEMMA Outputs ==
    /\ \A o \in Formats, p \in Formats : Otherwise(o, p) \in Formats
    /\ \A i : FoundAt(i) \in Formats /\ OutputAt(i) \in Formats
BY DEF Otherwise, Formats, FoundAt, OutputAt, Requested, ShortOutput

\* An option's format counts over those before it.
LEMMA DeclaredNext ==
    ASSUME NEW S \in SUBSET Nat, NEW i \in Nat, \A h \in S : h < i
    PROVE  DeclaredOutput(S \cup {i}) = Otherwise(OutputAt(i), DeclaredOutput(S))
<1>. DEFINE given == {h \in S : OutputAt(h) # "none"}
            more1 == {h \in S \cup {i} : OutputAt(h) # "none"}
            Last(T) == CHOOSE h \in T : \A j \in T : j <= h
<1>1. /\ DeclaredOutput(S) = IF given = {} THEN "none" ELSE OutputAt(Last(given))
      /\ DeclaredOutput(S \cup {i}) = IF more1 = {} THEN "none" ELSE OutputAt(Last(more1))
  BY Zenon DEF DeclaredOutput
<1>2. CASE OutputAt(i) = "none"
  <2>1. more1 = given
    BY <1>2
  <2>. QED  BY <1>1, <1>2, <2>1 DEF Otherwise
<1>3. CASE OutputAt(i) # "none"
  <2>1. i \in more1 /\ \A j \in more1 : j \in Nat /\ j <= i
    BY <1>3
  <2>2. \A h \in more1 : (\A j \in more1 : j <= h) => h = i
    BY <2>1
  <2>. HIDE DEF more1
  <2>3. Last(more1) = i
    BY <2>1, <2>2
  <2>4. more1 # {}
    BY <2>1
  <2>. HIDE DEF Last
  <2>. QED  BY <1>1, <1>3, <2>3, <2>4 DEF Otherwise
<1>. QED  BY <1>2, <1>3

\* The loop of the scan: where it goes and where it stops.
OutputStep ==
    [at \in Places \X Formats |->
        <<at[1] + (IF At(at[1]) = "--output" \/ ConsumesNext(at[1]) THEN 2 ELSE 1),
          Otherwise(FoundAt(at[1]), at[2])>>]

OutputStop == {at \in Places \X Formats : at[1] >= Boundary \/ At(at[1]) = "--"}

LEMMA OutputLoop ==
    ASSUME argv \in Seq(Argument)
    PROVE  /\ Boundary \in 1 .. Len(argv) + 1
           /\ \A i \in Places, o \in Formats :
                 /\ OutputStep[<<i, o>>] =
                       <<i + (IF At(i) = "--output" \/ ConsumesNext(i) THEN 2 ELSE 1),
                         Otherwise(FoundAt(i), o)>>
                 /\ <<i, o>> \in OutputStop <=> i >= Boundary \/ At(i) = "--"
                 /\ <<i, o>> \notin OutputStop => OutputStep[<<i, o>>] \in Places \X Formats
           /\ DOMAIN OutputStep = Places \X Formats
           /\ Advances(OutputStep, OutputStop, [at \in Places \X Formats |-> at[1]],
                       Len(argv) + 2)
           /\ ScannedOutput = Ends(OutputStep, OutputStop)[<<1, "none">>][2]
<1>1. Len(argv) \in Nat /\ DOMAIN argv = 1 .. Len(argv) /\ Places = 1 .. Len(argv) + 2
  BY DEF Places
<1>2. Boundary \in 1 .. Len(argv) + 1
  BY <1>1 DEF Boundary, NoBoundary
<1>3. DOMAIN OutputStep = Places \X Formats
  BY DEF OutputStep
<1>4. ASSUME NEW i \in Places, NEW o \in Formats
      PROVE  /\ OutputStep[<<i, o>>] =
                   <<i + (IF At(i) = "--output" \/ ConsumesNext(i) THEN 2 ELSE 1),
                     Otherwise(FoundAt(i), o)>>
             /\ <<i, o>> \in OutputStop <=> i >= Boundary \/ At(i) = "--"
  BY DEF OutputStep, OutputStop
<1>5. ASSUME NEW i \in Places, NEW o \in Formats, <<i, o>> \notin OutputStop
      PROVE  /\ OutputStep[<<i, o>>] \in Places \X Formats
             /\ i < OutputStep[<<i, o>>][1]
  <2>1. i \in Nat /\ i < Boundary
    BY <1>1, <1>2, <1>4, <1>5
  <2>2. i \in 1 .. Len(argv)
    BY <1>1, <1>2, <2>1
  <2>3. /\ i + 1 \in Places /\ i + 2 \in Places
        /\ Otherwise(FoundAt(i), o) \in Formats
    BY <1>1, <2>2, Outputs
  <2>. QED  BY <1>4, <2>1, <2>3
<1>6. Advances(OutputStep, OutputStop, [at \in Places \X Formats |-> at[1]], Len(argv) + 2)
  <2>. DEFINE level == [at \in Places \X Formats |-> at[1]]
              top == Len(argv) + 2
  <2>1. top \in Nat /\ level \in [Places \X Formats -> 0 .. top]
    BY <1>1
  <2>2. ASSUME NEW at \in Places \X Formats, at \notin OutputStop
        PROVE  OutputStep[at] \in Places \X Formats /\ level[at] < level[OutputStep[at]]
    <3>1. PICK i \in Places : \E o \in Formats : at = <<i, o>>
      OBVIOUS
    <3>2. PICK o \in Formats : at = <<i, o>>
      BY <3>1
    <3>3. OutputStep[at] \in Places \X Formats /\ i < OutputStep[at][1]
      BY <1>5, <2>2, <3>2
    <3>4. level[at] = i /\ level[OutputStep[at]] = OutputStep[at][1]
      BY <3>2, <3>3
    <3>. QED  BY <3>3, <3>4
  <2>. HIDE DEF level, top
  <2>3. Advances(OutputStep, OutputStop, level, top)
    BY <1>3, <2>1, <2>2 DEF Advances
  <2>. QED  BY <2>3 DEF level, top
<1>7. ScannedOutput = Ends(OutputStep, OutputStop)[<<1, "none">>][2]
  BY DEF ScannedOutput, OutputStep, OutputStop
<1>. QED  BY <1>2, <1>3, <1>4, <1>5, <1>6, <1>7

LEMMA ScannedFormat ==
    ASSUME argv \in Seq(Argument)
    PROVE  ScannedOutput \in Formats
<1>. DEFINE I == Places \X Formats
            level == [at \in Places \X Formats |-> at[1]]
<1>1. <<1, "none">> \in I
  <2>1. Len(argv) \in Nat
    OBVIOUS
  <2>. QED  BY <2>1 DEF Places, Formats
<1>2. \A at \in I : at \notin OutputStop => OutputStep[at] \in I
  BY OutputLoop DEF Advances
<1>3. /\ DOMAIN OutputStep = I
      /\ Advances(OutputStep, OutputStop, level, Len(argv) + 2)
  BY OutputLoop
<1>. HIDE DEF level
<1>4. Ends(OutputStep, OutputStop)[<<1, "none">>] \in I \cap OutputStop
  <2>. HIDE DEF I
  <2>. QED  BY <1>1, <1>2, <1>3, EndsWithin
<1>. QED  BY <1>4, OutputLoop

\* The scan finds the format that the line asks for.
LEMMA OutputIs ==
    ASSUME argv \in Seq(Argument), NEW ssh \in Standing("ssh"), NEW action \in Standing("run"),
           NEW remote \in 1 .. Len(argv) + 1, NEW heads \in SUBSET (1 .. remote - 1),
           SshRunLine(ssh, action, remote, heads)
    PROVE  ScannedOutput = DeclaredOutput(heads)
<1>. DEFINE Before(i) == {h \in heads : h < i}
            J == {<<i, DeclaredOutput(Before(i))>> : i \in 1 .. remote}
            level == [at \in Places \X Formats |-> at[1]]
<1>1. /\ Len(argv) \in Nat /\ DOMAIN argv = 1 .. Len(argv) /\ Places = 1 .. Len(argv) + 2
      /\ 1 .. remote \subseteq Places /\ 1 .. remote - 1 \subseteq DOMAIN argv
      /\ heads \in SUBSET Nat
  BY DEF Places
<1>2. \A h \in heads : h \in 1 .. remote - 1 /\ h \in Nat /\ h < remote
  <2>1. \A h \in heads : h \in 1 .. remote - 1
    OBVIOUS
  <2>. QED  BY <1>1, <2>1
<1>3. Boundary = remote
  BY BoundaryIs
<1>4. /\ heads \subseteq 1 .. remote - 1
      /\ \A i \in 1 .. remote - 1 : i \notin heads => argv[i] \notin Dashed
      /\ \A i \in heads :
            /\ argv[i] \in RunOptions \cup Mistaken
            /\ argv[i] \in Valued \ RunTakesValue => i + 2 <= remote /\ argv[i + 1] \notin Dashed
  BY BeforeRemote
<1>5. ASSUME NEW S PROVE DeclaredOutput(S) \in Formats
  BY Outputs DEF DeclaredOutput, Formats
<1>6. ASSUME NEW i \in 1 .. remote - 1
      PROVE  \E k \in 1 .. remote :
                /\ k = i + (IF At(i) = "--output" \/ ConsumesNext(i) THEN 2 ELSE 1)
                /\ Otherwise(FoundAt(i), DeclaredOutput(Before(i))) = DeclaredOutput(Before(k))
                /\ At(i) # "--"
  <2>1. i \in Nat /\ At(i) = argv[i] /\ i + 1 \in 1 .. remote
    BY <1>1, Standings
  <2>2. CASE i \notin heads
    <3>1. argv[i] \notin Dashed
      BY <1>4, <2>2
    <3>2. /\ FoundAt(i) = "none" /\ ~ (At(i) = "--output" \/ ConsumesNext(i)) /\ At(i) # "--"
      BY <2>1, <3>1 DEF FoundAt, Dashed, TakesValue, Joined, Short, ConsumesNext
    <3>3. Before(i + 1) = Before(i)
      <4>1. \A h \in heads : h < i + 1 <=> h < i
        BY <1>2, <2>1, <2>2
      <4>. QED  BY Zenon, <4>1
    <3>. QED  BY <2>1, <3>2, <3>3 DEF Otherwise
  <2>3. CASE i \in heads
    <3>. DEFINE valued == At(i) = "--output" \/ ConsumesNext(i)
                k == i + (IF valued THEN 2 ELSE 1)
    <3>1. argv[i] \in RunOptions \cup Mistaken
      BY <1>4, <2>3
    <3>2. valued => i + 2 <= remote /\ argv[i + 1] \notin Dashed
      BY <1>4, <2>1, <2>3 DEF ConsumesNext, Valued, TakesValue, RunTakesValue
    <3>3. k \in 1 .. remote /\ k \in {i + 1, i + 2}
      BY <2>1, <3>2
    <3>4. Before(k) = Before(i) \cup {i}
      <4>1. valued => i + 1 \notin heads
        BY <1>4, <3>2, OptionSets
      <4>2. \A h \in heads : h < k <=> h < i \/ h = i
        BY <1>2, <2>1, <3>3, <4>1
      <4>. HIDE DEF k
      <4>. QED  BY <2>3, <4>2
    <3>5. FoundAt(i) = OutputAt(i)
      <4>1. valued => At(i + 1) = argv[i + 1]
        <5>. SUFFICES ASSUME valued PROVE i + 1 \in DOMAIN argv
          BY Standings
        <5>1. i + 1 \in 1 .. remote - 1
          BY <2>1, <3>2
        <5>. QED  BY <1>1, <5>1
      <4>2. valued <=> argv[i] \in {"--output", "-o", "-qo"}
        BY <2>1 DEF ConsumesNext
      <4>. HIDE DEF valued
      <4>3. CASE valued
        <5>1. OutputAt(i) = Requested(argv[i + 1])
          BY <4>2, <4>3 DEF OutputAt
        <5>2. FoundAt(i) = Requested(At(i + 1))
          BY <2>1, <4>2, <4>3 DEF FoundAt, Short, ShortOutput, ConsumesNext
        <5>. QED  BY <4>1, <4>3, <5>1, <5>2
      <4>4. CASE ~ valued
        BY <2>1, <4>2, <4>4 DEF FoundAt, OutputAt, Short, ShortOutput, ConsumesNext
      <4>. QED  BY <4>3, <4>4
    <3>6. At(i) # "--"
      BY <2>1, <3>1, OptionSets
    <3>7. \A h \in Before(i) : h < i
      OBVIOUS
    <3>8. DeclaredOutput(Before(i) \cup {i}) = Otherwise(OutputAt(i), DeclaredOutput(Before(i)))
      <4>1. Before(i) \in SUBSET Nat
        BY <1>1
      <4>. HIDE DEF Before
      <4>. QED  BY <2>1, <3>7, <4>1, DeclaredNext
    <3>. HIDE DEF Before
    <3>. QED  BY <3>3, <3>4, <3>5, <3>6, <3>8
  <2>. QED  BY <2>2, <2>3
<1>7. J \subseteq Places \X Formats
  <2>. HIDE DEF Before
  <2>1. \A i \in 1 .. remote : i \in Places /\ DeclaredOutput(Before(i)) \in Formats
    BY <1>1, <1>5
  <2>. QED  BY <2>1
<1>8. ASSUME NEW at \in J, at \notin OutputStop PROVE OutputStep[at] \in J
  <2>1. PICK i \in 1 .. remote : at = <<i, DeclaredOutput(Before(i))>>
    BY <1>8
  <2>2. i \in Places /\ DeclaredOutput(Before(i)) \in Formats
    BY <1>1, <1>5
  <2>. HIDE DEF Before
  <2>3. /\ OutputStep[at] = <<i + (IF At(i) = "--output" \/ ConsumesNext(i) THEN 2 ELSE 1),
                              Otherwise(FoundAt(i), DeclaredOutput(Before(i)))>>
        /\ ~ (i >= remote)
    BY <1>3, <1>8, <2>1, <2>2, OutputLoop
  <2>4. i \in 1 .. remote - 1
    BY <1>1, <2>3
  <2>5. PICK k \in 1 .. remote :
            /\ k = i + (IF At(i) = "--output" \/ ConsumesNext(i) THEN 2 ELSE 1)
            /\ Otherwise(FoundAt(i), DeclaredOutput(Before(i))) = DeclaredOutput(Before(k))
    BY <1>6, <2>4
  <2>6. OutputStep[at] = <<k, DeclaredOutput(Before(k))>>
    BY <2>3, <2>5
  <2>. QED  BY <2>6
<1>9. <<1, "none">> \in J
  <2>1. Before(1) = {}
    <3>1. \A h \in heads : ~ (h < 1)
      BY <1>2
    <3>. QED  BY Zenon, <3>1
  <2>2. DeclaredOutput({}) = "none"
    BY DEF DeclaredOutput
  <2>3. 1 \in 1 .. remote
    BY <1>1
  <2>. HIDE DEF Before
  <2>4. DeclaredOutput(Before(1)) = "none"
    BY <2>1, <2>2
  <2>. QED  BY <2>3, <2>4
<1>10. Ends(OutputStep, OutputStop)[<<1, "none">>] \in J \cap OutputStop
  <2>1. /\ Advances(OutputStep, OutputStop, level, Len(argv) + 2)
        /\ DOMAIN OutputStep = Places \X Formats
    BY OutputLoop
  <2>. HIDE DEF J, level
  <2>. QED  BY <1>7, <1>8, <1>9, <2>1, EndsWithin
<1>11. ASSUME NEW at \in J \cap OutputStop PROVE at[2] = DeclaredOutput(heads)
  <2>1. PICK i \in 1 .. remote : at = <<i, DeclaredOutput(Before(i))>>
    BY <1>11
  <2>2. i \in Places /\ DeclaredOutput(Before(i)) \in Formats
    BY <1>1, <1>5
  <2>3. i >= remote \/ At(i) = "--"
    <3>. HIDE DEF Before
    <3>. QED  BY <1>3, <1>11, <2>1, <2>2, OutputLoop
  <2>4. i = remote
    <3>1. i \notin 1 .. remote - 1
      <4>. SUFFICES ASSUME i \in 1 .. remote - 1 PROVE FALSE
        OBVIOUS
      <4>1. At(i) # "--"
        BY <1>6
      <4>. QED  BY <2>3, <4>1
    <3>. QED  BY <1>1, <3>1
  <2>5. Before(remote) = heads
    BY <1>2, <1>1, <1>4
  <2>. QED  BY <2>1, <2>4, <2>5
<1>. QED  BY <1>10, <1>11, OutputLoop

-----------------------------------------------------------------------------
(* safe_command_path: the command the line is for.                          *)

Paths == Tree \cup {<<>>}

\* The paths from the binary to a command, one name longer each, and how the
\* next one is reached.
Leads(path, prefix) ==
    /\ Len(path) \in Nat /\ DOMAIN path = 1 .. Len(path)
    /\ prefix \in [0 .. Len(path) -> Paths]
    /\ prefix[0] = <<>> /\ prefix[Len(path)] = path
    /\ \A k \in 1 .. Len(path) : \A name : Canonical(name) = path[k] =>
          /\ Below(prefix[k - 1], name) = prefix[k]
          /\ prefix[k] \in Tree /\ name \notin Dashed

LEMMA Appends ==
    ASSUME NEW a, NEW b, NEW c
    PROVE  /\ Append(<<>>, a) = <<a>>
           /\ Append(<<a>>, b) = <<a, b>>
           /\ Append(<<a, b>>, c) = <<a, b, c>>
<1>. DEFINE S == {a, b, c}
<1>1. /\ <<>> \in Seq(S) /\ <<a>> \in Seq(S) /\ <<a, b>> \in Seq(S)
      /\ a \in S /\ b \in S /\ c \in S
  OBVIOUS
<1>. HIDE DEF S
<1>2. Append(<<>>, a) = <<a>>
  BY <1>1
<1>3. Append(<<a>>, b) = <<a, b>>
  <2>. DEFINE s == Append(<<a>>, b)
              t == <<a, b>>
  <2>1. s \in Seq(S) /\ t \in Seq(S) /\ Len(s) = 2 /\ Len(t) = 2
    BY <1>1
  <2>2. s[1] = t[1] /\ s[2] = t[2]
    BY <1>1
  <2>3. \A i \in 1 .. Len(s) : i = 1 \/ i = 2
    BY <2>1
  <2>. HIDE DEF s, t
  <2>4. s = t
    BY <2>1, <2>2, <2>3, SeqEqual
  <2>. QED  BY <2>4 DEF s, t
<1>4. Append(<<a, b>>, c) = <<a, b, c>>
  <2>. DEFINE s == Append(<<a, b>>, c)
              t == <<a, b, c>>
  <2>1. s \in Seq(S) /\ t \in Seq(S) /\ Len(s) = 3 /\ Len(t) = 3
    BY <1>1
  <2>2. s[1] = t[1] /\ s[2] = t[2] /\ s[3] = t[3]
    BY <1>1
  <2>3. \A i \in 1 .. Len(s) : i = 1 \/ i = 2 \/ i = 3
    BY <2>1
  <2>. HIDE DEF s, t
  <2>4. s = t
    BY <2>1, <2>2, <2>3, SeqEqual
  <2>. QED  BY <2>4 DEF s, t
<1>. QED  BY <1>2, <1>3, <1>4

LEMMA CommandsLead ==
    ASSUME NEW path \in Paths
    PROVE  \E prefix : Leads(path, prefix)
<1>. DEFINE Name(name) == name \notin Dashed \cup {"docs", "find"}
<1>1. \/ path = <<>>
      \/ \E a : path = <<a>> /\ Name(a) /\ <<a>> \in Tree
      \/ \E a, b : path = <<a, b>> /\ Name(a) /\ Name(b) /\ <<a>> \in Tree /\ <<a, b>> \in Tree
      \/ \E a, b, c : /\ path = <<a, b, c>> /\ Name(a) /\ Name(b) /\ Name(c)
                      /\ <<a>> \in Tree /\ <<a, b>> \in Tree /\ <<a, b, c>> \in Tree
  <2>1. \A a \in Commands : <<a>> \in Tree /\ Name(a)
    BY DEF Tree, Commands, Dashed, TakesValue, Joined, Switch, Short, RunTakesValue, RunAlone
  <2>2. \A b \in ProfileCommands \cup EnvironmentCommands \cup SshCommands
                    \cup InventoryCommands \cup {"list", "set"} : Name(b)
    BY DEF ProfileCommands, EnvironmentCommands, SshCommands, InventoryCommands, Dashed,
           TakesValue, Joined, Switch, Short, RunTakesValue, RunAlone
  <2>3. {"profile", "site", "environment", "ssh", "inventory"} \subseteq Commands
        /\ "credential" \in ProfileCommands
    BY DEF Commands, ProfileCommands
  <2>4. CASE path \in {<<command>> : command \in Commands} \cup {<<>>}
    BY <2>1, <2>4
  <2>5. CASE path = <<"profile", "credential", "set">>
    <3>1. <<"profile", "credential">> \in Tree /\ path \in Tree
      BY <2>3, <2>5 DEF Tree
    <3>. QED  BY <2>1, <2>2, <2>3, <2>5, <3>1
  <2>6. CASE \E a \in Commands, b \in ProfileCommands \cup EnvironmentCommands
                    \cup SshCommands \cup InventoryCommands \cup {"list", "set"} :
                path = <<a, b>> /\ path \in Tree
    BY <2>1, <2>2, <2>6
  <2>7. \/ path \in {<<command>> : command \in Commands} \cup {<<>>}
        \/ path = <<"profile", "credential", "set">>
        \/ \E a \in Commands, b \in ProfileCommands \cup EnvironmentCommands
                    \cup SshCommands \cup InventoryCommands \cup {"list", "set"} :
                path = <<a, b>> /\ path \in Tree
    BY <2>3 DEF Paths, Tree
  <2>. QED  BY <2>4, <2>5, <2>6, <2>7
<1>2. \A name : Name(Canonical(name)) => name \notin Dashed
  BY DEF Canonical, Dashed, TakesValue, Joined, Switch, Short, RunTakesValue, RunAlone
<1>. HIDE DEF Name
<1>3. CASE path = <<>>
  <2>. DEFINE prefix == [k \in 0 .. 0 |-> <<>>]
  <2>1. Leads(path, prefix)
    BY <1>3 DEF Leads, Paths
  <2>. QED  BY <2>1
<1>4. ASSUME NEW a, path = <<a>>, Name(a), <<a>> \in Tree
      PROVE  \E prefix : Leads(path, prefix)
  <2>. DEFINE prefix == [k \in 0 .. 1 |-> IF k = 0 THEN <<>> ELSE <<a>>]
  <2>1. \A k \in 1 .. 1 : k = 1
    OBVIOUS
  <2>2. Append(<<>>, a) = <<a>>
    BY Appends
  <2>3. Leads(path, prefix)
    BY <1>2, <1>4, <2>1, <2>2 DEF Leads, Paths, Below
  <2>. QED  BY <2>3
<1>5. ASSUME NEW a, NEW b, path = <<a, b>>, Name(a), Name(b), <<a>> \in Tree, <<a, b>> \in Tree
      PROVE  \E prefix : Leads(path, prefix)
  <2>. DEFINE prefix == [k \in 0 .. 2 |-> IF k = 0 THEN <<>> ELSE IF k = 1 THEN <<a>>
                                          ELSE <<a, b>>]
  <2>1. \A k \in 1 .. 2 : k = 1 \/ k = 2
    OBVIOUS
  <2>2. Append(<<>>, a) = <<a>> /\ Append(<<a>>, b) = <<a, b>>
    BY Appends
  <2>3. /\ prefix[0] = <<>> /\ prefix[1] = <<a>> /\ prefix[2] = <<a, b>>
        /\ prefix \in [0 .. 2 -> Paths]
    BY <1>5 DEF Paths
  <2>4. Len(path) = 2 /\ path[1] = a /\ path[2] = b /\ DOMAIN path = 1 .. 2
    BY <1>5
  <2>. HIDE DEF prefix
  <2>5. ASSUME NEW k \in 1 .. 2, NEW name, Canonical(name) = path[k]
        PROVE  /\ Below(prefix[k - 1], name) = prefix[k]
               /\ prefix[k] \in Tree /\ name \notin Dashed
    <3>1. CASE k = 1
      <4>1. k - 1 = 0 /\ Canonical(name) = a
        BY <2>4, <2>5, <3>1
      <4>2. Below(prefix[k - 1], name) = Append(<<>>, a)
        BY <2>3, <4>1 DEF Below
      <4>3. name \notin Dashed
        BY <1>2, <1>5, <4>1
      <4>. QED  BY <1>5, <2>2, <2>3, <3>1, <4>2, <4>3
    <3>2. CASE k = 2
      <4>1. k - 1 = 1 /\ Canonical(name) = b
        BY <2>4, <2>5, <3>2
      <4>2. Below(prefix[k - 1], name) = Append(<<a>>, b)
        BY <2>3, <4>1 DEF Below
      <4>3. name \notin Dashed
        BY <1>2, <1>5, <4>1
      <4>. QED  BY <1>5, <2>2, <2>3, <3>2, <4>2, <4>3
    <3>. QED  BY <2>1, <3>1, <3>2
  <2>6. Leads(path, prefix)
    BY <1>5, <2>3, <2>4, <2>5 DEF Leads
  <2>. QED  BY <2>6
<1>6. ASSUME NEW a, NEW b, NEW c, path = <<a, b, c>>, Name(a), Name(b), Name(c),
             <<a>> \in Tree, <<a, b>> \in Tree, <<a, b, c>> \in Tree
      PROVE  \E prefix : Leads(path, prefix)
  <2>. DEFINE prefix == [k \in 0 .. 3 |-> IF k = 0 THEN <<>> ELSE IF k = 1 THEN <<a>>
                                          ELSE IF k = 2 THEN <<a, b>> ELSE <<a, b, c>>]
  <2>1. \A k \in 1 .. 3 : k = 1 \/ k = 2 \/ k = 3
    OBVIOUS
  <2>2. /\ Append(<<>>, a) = <<a>> /\ Append(<<a>>, b) = <<a, b>>
        /\ Append(<<a, b>>, c) = <<a, b, c>>
    BY Appends
  <2>3. /\ prefix[0] = <<>> /\ prefix[1] = <<a>> /\ prefix[2] = <<a, b>>
        /\ prefix[3] = <<a, b, c>> /\ prefix \in [0 .. 3 -> Paths]
    BY <1>6 DEF Paths
  <2>4. Len(path) = 3 /\ path[1] = a /\ path[2] = b /\ path[3] = c /\ DOMAIN path = 1 .. 3
    BY <1>6
  <2>. HIDE DEF prefix
  <2>5. ASSUME NEW k \in 1 .. 3, NEW name, Canonical(name) = path[k]
        PROVE  /\ Below(prefix[k - 1], name) = prefix[k]
               /\ prefix[k] \in Tree /\ name \notin Dashed
    <3>1. CASE k = 1
      <4>1. k - 1 = 0 /\ Canonical(name) = a
        BY <2>4, <2>5, <3>1
      <4>2. Below(prefix[k - 1], name) = Append(<<>>, a)
        BY <2>3, <4>1 DEF Below
      <4>3. name \notin Dashed
        BY <1>2, <1>6, <4>1
      <4>. QED  BY <1>6, <2>2, <2>3, <3>1, <4>2, <4>3
    <3>2. CASE k = 2
      <4>1. k - 1 = 1 /\ Canonical(name) = b
        BY <2>4, <2>5, <3>2
      <4>2. Below(prefix[k - 1], name) = Append(<<a>>, b)
        BY <2>3, <4>1 DEF Below
      <4>3. name \notin Dashed
        BY <1>2, <1>6, <4>1
      <4>. QED  BY <1>6, <2>2, <2>3, <3>2, <4>2, <4>3
    <3>3. CASE k = 3
      <4>1. k - 1 = 2 /\ Canonical(name) = c
        BY <2>4, <2>5, <3>3
      <4>2. Below(prefix[k - 1], name) = Append(<<a, b>>, c)
        BY <2>3, <4>1 DEF Below
      <4>3. name \notin Dashed
        BY <1>2, <1>6, <4>1
      <4>. QED  BY <1>6, <2>2, <2>3, <3>3, <4>2, <4>3
    <3>. QED  BY <2>1, <3>1, <3>2, <3>3
  <2>6. Leads(path, prefix)
    BY <1>6, <2>3, <2>4, <2>5 DEF Leads
  <2>. QED  BY <2>6
<1>. QED  BY <1>1, <1>3, <1>4, <1>5, <1>6

\* Behind the end there is no further name.
LEMMA NothingIsBelow ==
    ASSUME NEW path \in Paths
    PROVE  Below(path, "nothing") \notin Tree
<1>. DEFINE S == Commands \cup ProfileCommands \cup EnvironmentCommands \cup SshCommands
                   \cup InventoryCommands \cup {"profile", "site", "environment", "ssh",
                                                "inventory", "credential", "set", "list"}
            T == S \cup {"nothing"}
<1>1. path \in Seq(T)
  <2>1. CASE path \in {<<command>> : command \in Commands} \cup {<<>>}
    <3>1. \A a \in T : <<a>> \in Seq(T)
      OBVIOUS
    <3>2. <<>> \in Seq(T) /\ Commands \subseteq T
      OBVIOUS
    <3>. HIDE DEF T
    <3>. QED  BY <2>1, <3>1, <3>2
  <2>2. CASE path = <<"profile", "credential", "set">>
    BY <2>2
  <2>3. CASE \E a \in S : \E b \in S : path = <<a, b>>
    <3>1. PICK a \in S : \E b \in S : path = <<a, b>>
      BY <2>3
    <3>2. PICK b \in S : path = <<a, b>>
      BY <3>1
    <3>3. a \in T /\ b \in T
      OBVIOUS
    <3>. HIDE DEF T
    <3>. QED  BY <3>2, <3>3
  <2>4. \/ path \in {<<command>> : command \in Commands} \cup {<<>>}
        \/ path = <<"profile", "credential", "set">>
        \/ \E a \in S : \E b \in S : path = <<a, b>>
    <3>1. /\ Commands \cup ProfileCommands \cup EnvironmentCommands \cup SshCommands
               \cup InventoryCommands \subseteq S
          /\ {"profile", "site", "environment", "ssh", "inventory", "list"} \subseteq S
      OBVIOUS
    <3>. HIDE DEF S
    <3>. QED  BY <3>1 DEF Paths, Tree
  <2>. QED  BY <2>1, <2>2, <2>3, <2>4
<1>2. \A p \in Tree : Len(p) \in Nat /\ p[Len(p)] # "nothing"
  BY DEF Tree, Commands, ProfileCommands, EnvironmentCommands, SshCommands,
         InventoryCommands
<1>3. /\ Below(path, "nothing") = Append(path, "nothing")
      /\ Len(Append(path, "nothing")) = Len(path) + 1
      /\ Append(path, "nothing")[Len(path) + 1] = "nothing"
  BY <1>1 DEF Below, Canonical
<1>. QED  BY <1>2, <1>3

\* The loop of safe_command_path: where it goes and where it stops.
PathStep ==
    [at \in Places \X Paths |->
        IF GlobalWidth(at[1]) > 0 THEN <<at[1] + GlobalWidth(at[1]), at[2]>>
        ELSE <<at[1] + 1, Below(at[2], At(at[1]))>>]

PathStop ==
    {at \in Places \X Paths :
        GlobalWidth(at[1]) = 0 /\ (At(at[1]) \in Dashed \/ Below(at[2], At(at[1])) \notin Tree)}

LEMMA PathLoop ==
    ASSUME argv \in Seq(Argument)
    PROVE  /\ \A i \in Places, path \in Paths :
                 /\ PathStep[<<i, path>>] =
                       IF GlobalWidth(i) > 0 THEN <<i + GlobalWidth(i), path>>
                       ELSE <<i + 1, Below(path, At(i))>>
                 /\ <<i, path>> \in PathStop <=>
                       /\ GlobalWidth(i) = 0
                       /\ At(i) \in Dashed \/ Below(path, At(i)) \notin Tree
           /\ DOMAIN PathStep = Places \X Paths
           /\ Advances(PathStep, PathStop, [at \in Places \X Paths |-> at[1]], Len(argv) + 2)
           /\ SafeCommandPath = Ends(PathStep, PathStop)[<<1, <<>>>>][2]
<1>1. Len(argv) \in Nat /\ DOMAIN argv = 1 .. Len(argv) /\ Places = 1 .. Len(argv) + 2
  BY DEF Places
<1>2. DOMAIN PathStep = Places \X Paths
  BY DEF PathStep
<1>3. ASSUME NEW i \in Places, NEW path \in Paths
      PROVE  /\ PathStep[<<i, path>>] =
                   IF GlobalWidth(i) > 0 THEN <<i + GlobalWidth(i), path>>
                   ELSE <<i + 1, Below(path, At(i))>>
             /\ <<i, path>> \in PathStop <=>
                   /\ GlobalWidth(i) = 0
                   /\ At(i) \in Dashed \/ Below(path, At(i)) \notin Tree
  BY DEF PathStep, PathStop
<1>4. ASSUME NEW i \in Places, NEW path \in Paths, <<i, path>> \notin PathStop
      PROVE  /\ PathStep[<<i, path>>] \in Places \X Paths
             /\ i < PathStep[<<i, path>>][1]
  <2>1. GlobalWidth(i) > 0 \/ Below(path, At(i)) \in Tree
    <3>1. GlobalWidth(i) = 0 \/ GlobalWidth(i) > 0
      BY GlobalWidths
    <3>. QED  BY <1>3, <1>4, <3>1
  <2>2. i \in DOMAIN argv
    <3>. SUFFICES ASSUME i \notin DOMAIN argv PROVE FALSE
      OBVIOUS
    <3>1. At(i) = "nothing"
      BY Standings
    <3>. QED  BY <2>1, <3>1, NothingIsBelow, GlobalWidths, OptionSets
  <2>3. GlobalWidth(i) \in {0, 1, 2}
    BY GlobalWidths
  <2>4. i + 1 \in Places /\ i + 2 \in Places /\ i \in Nat
    BY <1>1, <2>2
  <2>5. CASE GlobalWidth(i) > 0
    <3>1. PathStep[<<i, path>>] = <<i + GlobalWidth(i), path>>
      BY <1>3, <2>5
    <3>2. i + GlobalWidth(i) \in Places /\ i < i + GlobalWidth(i)
      BY <2>3, <2>4, <2>5
    <3>. QED  BY <3>1, <3>2
  <2>6. CASE ~ (GlobalWidth(i) > 0)
    <3>1. PathStep[<<i, path>>] = <<i + 1, Below(path, At(i))>>
      BY <1>3, <2>6
    <3>2. Below(path, At(i)) \in Paths
      BY <2>1, <2>6 DEF Paths
    <3>. QED  BY <2>4, <3>1, <3>2
  <2>. QED  BY <2>5, <2>6
<1>5. Advances(PathStep, PathStop, [at \in Places \X Paths |-> at[1]], Len(argv) + 2)
  <2>. DEFINE level == [at \in Places \X Paths |-> at[1]]
              top == Len(argv) + 2
  <2>1. top \in Nat /\ level \in [Places \X Paths -> 0 .. top]
    BY <1>1
  <2>2. ASSUME NEW at \in Places \X Paths, at \notin PathStop
        PROVE  PathStep[at] \in Places \X Paths /\ level[at] < level[PathStep[at]]
    <3>1. PICK i \in Places : \E path \in Paths : at = <<i, path>>
      OBVIOUS
    <3>2. PICK path \in Paths : at = <<i, path>>
      BY <3>1
    <3>3. PathStep[at] \in Places \X Paths /\ i < PathStep[at][1]
      BY <1>4, <2>2, <3>2
    <3>4. level[at] = i /\ level[PathStep[at]] = PathStep[at][1]
      BY <3>2, <3>3
    <3>. QED  BY <3>3, <3>4
  <2>. HIDE DEF level, top
  <2>3. Advances(PathStep, PathStop, level, top)
    BY <1>2, <2>1, <2>2 DEF Advances
  <2>. QED  BY <2>3 DEF level, top
<1>6. SafeCommandPath = Ends(PathStep, PathStop)[<<1, <<>>>>][2]
  BY DEF SafeCommandPath, PathStep, PathStop, Paths
<1>. QED  BY <1>2, <1>3, <1>5, <1>6

\* Where the options before the k-th name start and end.
OptionsFrom(places, k) == IF k = 1 THEN 1 ELSE places[k - 1] + 1
OptionsTo(path, places, stop, k) == IF k > Len(path) THEN stop - 1 ELSE places[k] - 1

\* A loop over the options before a name ends at the name.
LEMMA UpToName ==
    ASSUME argv \in Seq(Argument), NEW from \in Nat \ {0}, NEW to \in Nat, NEW heads,
           from <= to + 1, to <= Len(argv), AreOptions(from, to, heads, GlobalOptions)
    PROVE  /\ heads \subseteq DOMAIN argv
           /\ from \in heads \cup {to + 1}
           /\ \A i \in heads :
                 GlobalWidth(i) > 0 /\ i + GlobalWidth(i) \in heads \cup {to + 1}
<1>1. /\ Len(argv) \in Nat /\ DOMAIN argv = 1 .. Len(argv)
  OBVIOUS
<1>2. /\ heads \subseteq from .. to /\ from \in heads \cup {to + 1}
      /\ \A i \in heads :
            /\ argv[i] \in GlobalOptions
            /\ i + (IF HasValue(i, GlobalOptions) THEN 2 ELSE 1) \in heads \cup {to + 1}
  BY Heads
<1>3. heads \subseteq DOMAIN argv
  BY <1>1, <1>2
<1>4. ASSUME NEW i \in heads
      PROVE  GlobalWidth(i) > 0 /\ i + GlobalWidth(i) \in heads \cup {to + 1}
  <2>1. At(i) = argv[i] /\ argv[i] \in GlobalOptions
    BY <1>2, <1>3, Standings
  <2>2. HasValue(i, GlobalOptions) <=> GlobalWidth(i) = 2
    BY <2>1, GlobalWidths, OptionSets DEF HasValue, Valued
  <2>3. GlobalWidth(i) = IF HasValue(i, GlobalOptions) THEN 2 ELSE 1
    BY <2>1, <2>2, GlobalWidths
  <2>. QED  BY <1>2, <2>1, <2>3, GlobalWidths
<1>. QED  BY <1>2, <1>3, <1>4

\* Where the names and options of a command line stand.
LEMMA OptionsStand ==
    ASSUME argv \in Seq(Argument), NEW path, Len(path) \in Nat,
           DOMAIN path = 1 .. Len(path),
           NEW places \in [DOMAIN path -> DOMAIN argv], NEW stop \in 1 .. Len(argv) + 1,
           NEW heads, NamesStand(path, places), CommandLine(path, places, heads, stop),
           NEW k \in 1 .. Len(path) + 1
    PROVE  LET start == OptionsFrom(places, k)
               end == OptionsTo(path, places, stop, k)
           IN /\ start \in Nat \ {0} /\ end \in Nat
              /\ start <= end + 1 /\ end <= Len(argv)
              /\ AreOptions(start, end, heads \cap (start .. end), GlobalOptions)
<1>. DEFINE start == OptionsFrom(places, k)
            end == OptionsTo(path, places, stop, k)
<1>1. Len(argv) \in Nat /\ DOMAIN argv = 1 .. Len(argv)
  OBVIOUS
<1>2. \A j \in 1 .. Len(path) : places[j] \in 1 .. Len(argv)
  BY <1>1
<1>3. AreOptions(start, end, heads \cap (start .. end), GlobalOptions)
  BY DEF CommandLine, OptionsFrom, OptionsTo
<1>4. start \in Nat \ {0}
  <2>1. CASE k = 1
    BY <2>1 DEF OptionsFrom
  <2>2. CASE k # 1
    <3>1. k - 1 \in 1 .. Len(path)
      BY <2>2
    <3>2. start = places[k - 1] + 1
      BY <2>2 DEF OptionsFrom
    <3>3. places[k - 1] \in Nat
      BY <1>1, <1>2, <3>1
    <3>. QED  BY <3>2, <3>3
  <2>. QED  BY <2>1, <2>2
<1>5. end \in Nat /\ end <= Len(argv) /\ start <= end + 1
  <2>1. CASE k = Len(path) + 1
    <3>1. end = stop - 1
      BY <2>1 DEF OptionsTo
    <3>2. start <= stop
      BY <2>1 DEF CommandLine, OptionsFrom
    <3>. QED  BY <1>1, <1>4, <3>1, <3>2
  <2>2. CASE k # Len(path) + 1
    <3>1. k \in 1 .. Len(path) /\ ~ (k > Len(path))
      BY <2>2
    <3>2. end = places[k] - 1
      BY <3>1 DEF OptionsTo
    <3>3. start <= places[k]
      <4>1. CASE k = 1
        BY <1>1, <1>2, <3>1, <4>1 DEF OptionsFrom
      <4>2. CASE k # 1
        <5>1. k > 1 /\ k - 1 \in 1 .. Len(path)
          BY <3>1, <4>2
        <5>2. start = places[k - 1] + 1 /\ places[k - 1] < places[k]
          BY <3>1, <4>2, <5>1 DEF NamesStand, OptionsFrom
        <5>3. places[k - 1] \in Nat /\ places[k] \in Nat
          BY <1>1, <1>2, <3>1, <5>1
        <5>. QED  BY <5>2, <5>3
      <4>. QED  BY <4>1, <4>2
    <3>. QED  BY <1>1, <1>2, <1>4, <3>1, <3>2, <3>3
  <2>. QED  BY <2>1, <2>2
<1>. QED  BY <1>3, <1>4, <1>5

\* The path that is found is that of the command the line names.
LEMMA PathIs ==
    ASSUME argv \in Seq(Argument), NEW path \in Paths,
           NEW places \in [DOMAIN path -> DOMAIN argv], NEW stop \in 1 .. Len(argv) + 1,
           NEW heads, NamesStand(path, places), CommandLine(path, places, heads, stop)
    PROVE  SafeCommandPath = path
<1>1. PICK prefix : Leads(path, prefix)
  BY CommandsLead
<1>. DEFINE K == 1 .. Len(path) + 1
            NameAt(k) == OptionsTo(path, places, stop, k) + 1
            Part(k) == heads \cap (OptionsFrom(places, k) .. OptionsTo(path, places, stop, k))
            J == {at \in Places \X Paths :
                     \E k \in K : at[2] = prefix[k - 1] /\ at[1] \in Part(k) \cup {NameAt(k)}}
            level == [at \in Places \X Paths |-> at[1]]
<1>2. /\ Len(path) \in Nat /\ DOMAIN path = 1 .. Len(path)
      /\ Len(argv) \in Nat /\ DOMAIN argv = 1 .. Len(argv) /\ Places = 1 .. Len(argv) + 2
      /\ \A k \in K : prefix[k - 1] \in Paths
      /\ prefix[0] = <<>> /\ prefix[Len(path)] = path
  BY <1>1 DEF Leads, Places
<1>3. ASSUME NEW k \in K
      PROVE  /\ Part(k) \subseteq DOMAIN argv
             /\ OptionsFrom(places, k) \in Part(k) \cup {NameAt(k)}
             /\ NameAt(k) \in Places /\ Part(k) \subseteq Places
             /\ \A i \in Part(k) :
                   GlobalWidth(i) > 0 /\ i + GlobalWidth(i) \in Part(k) \cup {NameAt(k)}
  <2>. DEFINE start == OptionsFrom(places, k)
              end == OptionsTo(path, places, stop, k)
              part == heads \cap (start .. end)
  <2>1. /\ start \in Nat \ {0} /\ end \in Nat
        /\ start <= end + 1 /\ end <= Len(argv)
        /\ AreOptions(start, end, part, GlobalOptions)
    BY <1>2, OptionsStand
  <2>. HIDE DEF start, end, part
  <2>2. /\ part \subseteq DOMAIN argv
        /\ start \in part \cup {end + 1}
        /\ \A i \in part : GlobalWidth(i) > 0 /\ i + GlobalWidth(i) \in part \cup {end + 1}
    BY <2>1, UpToName
  <2>3. end + 1 \in Places /\ part \subseteq Places
    BY <1>2, <2>1, <2>2
  <2>. QED  BY <2>2, <2>3 DEF start, end, part
<1>4. ASSUME NEW k \in 1 .. Len(path)
      PROVE  /\ NameAt(k) = places[k] /\ OptionsFrom(places, k + 1) = places[k] + 1
             /\ places[k] \in Places /\ GlobalWidth(places[k]) = 0
             /\ At(places[k]) \notin Dashed /\ prefix[k] \in Tree
             /\ Below(prefix[k - 1], At(places[k])) = prefix[k]
  <2>1. places[k] \in DOMAIN argv /\ ~ (k > Len(path)) /\ k + 1 # 1 /\ (k + 1) - 1 = k
    BY <1>2
  <2>2. NameAt(k) = places[k] /\ OptionsFrom(places, k + 1) = places[k] + 1
    BY <1>2, <2>1 DEF OptionsTo, OptionsFrom
  <2>3. Canonical(At(places[k])) = path[k]
    BY <1>2, <2>1, Standings DEF NamesStand
  <2>4. /\ Below(prefix[k - 1], At(places[k])) = prefix[k]
        /\ prefix[k] \in Tree /\ At(places[k]) \notin Dashed
    BY <1>1, <2>3 DEF Leads
  <2>5. GlobalWidth(places[k]) = 0
    BY <2>4, GlobalWidths, OptionSets
  <2>. QED  BY <1>2, <2>1, <2>2, <2>4, <2>5
<1>5. /\ NameAt(Len(path) + 1) = stop
      /\ <<stop, path>> \in PathStop
  <2>1. NameAt(Len(path) + 1) = stop
    BY <1>2 DEF OptionsTo
  <2>2. At(stop) \notin GlobalOptions /\ Below(path, At(stop)) \notin Tree
    BY Standings, NothingIsBelow, OptionSets DEF CommandLine
  <2>3. stop \in Places /\ GlobalWidth(stop) = 0
    BY <1>2, <2>2, GlobalWidths
  <2>. QED  BY <2>1, <2>2, <2>3, PathLoop
<1>. HIDE DEF Part, NameAt
<1>6. ASSUME NEW at \in J, at \notin PathStop PROVE PathStep[at] \in J
  <2>1. PICK k \in K : at[2] = prefix[k - 1] /\ at[1] \in Part(k) \cup {NameAt(k)}
    BY <1>6
  <2>2. PICK i \in Places : at = <<i, prefix[k - 1]>> /\ i = at[1]
    BY <2>1
  <2>3. prefix[k - 1] \in Paths
    BY <1>2
  <2>4. CASE i \in Part(k)
    <3>1. GlobalWidth(i) > 0 /\ i + GlobalWidth(i) \in Part(k) \cup {NameAt(k)}
      BY <1>3, <2>4
    <3>2. PathStep[at] = <<i + GlobalWidth(i), prefix[k - 1]>>
      <4>1. PICK p \in Paths : p = prefix[k - 1]
        BY <2>3
      <4>2. PathStep[<<i, p>>] = IF GlobalWidth(i) > 0 THEN <<i + GlobalWidth(i), p>>
                                 ELSE <<i + 1, Below(p, At(i))>>
        BY PathLoop
      <4>. QED  BY <2>2, <3>1, <4>1, <4>2
    <3>3. i + GlobalWidth(i) \in Places
      BY <1>3, <3>1
    <3>. QED  BY <2>3, <3>1, <3>2, <3>3
  <2>5. CASE i = NameAt(k) /\ k \in 1 .. Len(path)
    <3>1. /\ i = places[k] /\ GlobalWidth(i) = 0
          /\ Below(prefix[k - 1], At(i)) = prefix[k] /\ ~ (GlobalWidth(i) > 0)
      BY <1>4, <2>5
    <3>2. PathStep[at] = <<i + 1, prefix[k]>>
      <4>1. PICK p \in Paths : p = prefix[k - 1]
        BY <2>3
      <4>2. PathStep[<<i, p>>] = IF GlobalWidth(i) > 0 THEN <<i + GlobalWidth(i), p>>
                                 ELSE <<i + 1, Below(p, At(i))>>
        BY PathLoop
      <4>. QED  BY <2>2, <3>1, <4>1, <4>2
    <3>3. k + 1 \in K /\ (k + 1) - 1 = k
      BY <1>2, <2>5
    <3>4. i + 1 \in Part(k + 1) \cup {NameAt(k + 1)}
      BY <1>3, <1>4, <2>5, <3>1, <3>3
    <3>5. i + 1 \in Places /\ prefix[k] \in Paths
      BY <1>2, <1>3, <3>3, <3>4
    <3>. QED  BY <3>2, <3>3, <3>4, <3>5
  <2>6. CASE i = NameAt(k) /\ k \notin 1 .. Len(path)
    <3>1. k = Len(path) + 1 /\ k - 1 = Len(path)
      BY <1>2, <2>6
    <3>2. at = <<stop, path>>
      BY <1>2, <1>5, <2>2, <2>6, <3>1
    <3>. QED  BY <1>5, <1>6, <3>2
  <2>. QED  BY <2>1, <2>2, <2>4, <2>5, <2>6
<1>7. <<1, <<>>>> \in J
  <2>1. 1 \in K /\ 1 - 1 = 0 /\ 1 \in Places /\ <<>> \in Paths
    BY <1>2 DEF Paths
  <2>2. 1 \in Part(1) \cup {NameAt(1)}
    BY <1>3, <2>1 DEF OptionsFrom
  <2>. QED  BY <1>2, <2>1, <2>2
<1>8. Ends(PathStep, PathStop)[<<1, <<>>>>] \in J \cap PathStop
  <2>1. /\ Advances(PathStep, PathStop, level, Len(argv) + 2)
        /\ DOMAIN PathStep = Places \X Paths
    BY PathLoop
  <2>2. J \in SUBSET (Places \X Paths)
    OBVIOUS
  <2>. HIDE DEF J, level
  <2>. QED  BY <1>6, <1>7, <2>1, <2>2, EndsWithin
<1>9. ASSUME NEW at \in J \cap PathStop PROVE at[2] = path
  <2>1. PICK k \in K : at[2] = prefix[k - 1] /\ at[1] \in Part(k) \cup {NameAt(k)}
    BY <1>9
  <2>2. PICK i \in Places : at = <<i, prefix[k - 1]>> /\ i = at[1]
    BY <1>9, <2>1
  <2>3. prefix[k - 1] \in Paths
    BY <1>2
  <2>4. /\ GlobalWidth(i) = 0
        /\ At(i) \in Dashed \/ Below(prefix[k - 1], At(i)) \notin Tree
    BY <1>9, <2>2, <2>3, PathLoop
  <2>5. i \notin Part(k)
    BY <1>3, <2>4
  <2>6. k \notin 1 .. Len(path)
    <3>. SUFFICES ASSUME k \in 1 .. Len(path) PROVE FALSE
      OBVIOUS
    <3>1. i = places[k]
      BY <1>4, <2>1, <2>2, <2>5
    <3>2. /\ At(places[k]) \notin Dashed /\ prefix[k] \in Tree
          /\ Below(prefix[k - 1], At(places[k])) = prefix[k]
      BY <1>4
    <3>. QED  BY <2>4, <3>1, <3>2
  <2>7. k - 1 = Len(path)
    BY <1>2, <2>6
  <2>. QED  BY <1>2, <2>1, <2>7
<1>. QED  BY <1>8, <1>9, PathLoop

\* What is said of every command line holds whatever is typed.
LEMMA AnyLineIsRead ==
    ASSUME argv \in Seq(Argument)
    PROVE  ScanAgreesWithParser /\ PathIsTheParsers
<1>1. ScanAgreesWithParser
  <2>. SUFFICES ASSUME NEW ssh \in Standing("ssh"), NEW action \in Standing("run"),
                       NEW remote \in 1 .. Len(argv) + 1,
                       NEW heads \in SUBSET {i \in 1 .. remote - 1 : argv[i] \in Dashed},
                       SshRunLine(ssh, action, remote, heads)
                PROVE  MachineOutputRequested =
                          (Otherwise(DeclaredOutput(heads), Requested(hostbraidOutput)) = "json")
    BY DEF ScanAgreesWithParser
  <2>1. heads \in SUBSET (1 .. remote - 1)
    OBVIOUS
  <2>2. ScannedOutput = DeclaredOutput(heads)
    BY <2>1, OutputIs
  <2>. QED  BY <2>2 DEF MachineOutputRequested
<1>2. PathIsTheParsers
  <2>. SUFFICES ASSUME NEW path \in Tree \cup {<<>>},
                       NEW places \in [DOMAIN path -> DOMAIN argv],
                       NEW stop \in 1 .. Len(argv) + 1,
                       NEW heads, NamesStand(path, places), CommandLine(path, places, heads, stop)
                PROVE  SafeCommandPath = path
    BY DEF PathIsTheParsers, CommandLines
  <2>1. path \in Paths
    BY DEF Paths
  <2>. QED  BY <2>1, PathIs
<1>. QED  BY <1>1, <1>2

\* machine_output_requested and safe_command_path read any line that clap
\* refused as clap reads it: the format is that of the last valid --output in
\* front of the remote command, and the path that of the command it names.
THEOREM LinesAreRead == Spec => []ReadersAgree
<1>. DEFINE Typed == argv \in Seq(Argument) /\ more \in 0 .. MaxMore
<1>1. Init => Typed
  BY ScanAssumption DEF Init
<1>2. Typed /\ [Next]_vars => Typed'
  <2>. SUFFICES ASSUME Typed, [Next]_vars PROVE Typed'
    OBVIOUS
  <2>1. CASE UNCHANGED vars
    BY <2>1 DEF vars
  <2>2. ASSUME NEW argument \in Argument, Type(argument) PROVE Typed'
    BY <2>2, ScanAssumption DEF Type
  <2>. QED  BY <2>1, <2>2 DEF Next
<1>3. Typed => ReadersAgree
  <2>. SUFFICES ASSUME Typed PROVE ReadersAgree
    OBVIOUS
  <2>1. Boundary \in 1 .. Len(argv) + 1 /\ ScannedOutput \in Formats
    BY OutputLoop, ScannedFormat
  <2>. QED  BY <2>1, AnyLineIsRead DEF ReadersAgree, TypeOK
<1>. HIDE DEF Typed
<1>. QED  BY <1>1, <1>2, <1>3, PTL DEF Spec
=============================================================================
