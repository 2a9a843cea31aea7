---------------------------- MODULE SshRunProofs ----------------------------
(***************************************************************************)
(* What SshRun guarantees for any selection, any number of jobs and any    *)
(* settings: the command is started only where it may be, the report has   *)
(* one true result for each selected environment, and status 0 is success. *)
(* The targets that could be loaded are moved out of their slots, run, and *)
(* put back by counting; the argument is about that count.                 *)
(*                                                                         *)
(* Then what Selection guarantees for any response and any command line:   *)
(* the argument is about a list in an order, stated by counting as well.   *)
(***************************************************************************)
EXTENDS RunParts, FiniteSetTheorems, SequenceTheorems, TLAPS

-----------------------------------------------------------------------------
(* The inductive invariant.                                                *)

Slot == DOMAIN selected

\* The slots without a failure.
Good == {i \in Slot : failures[i] = None}

Target == [environment : Environment, ssh : Environment]
Result == [target : Target, state : Batch!Outcome \cup {"skipped"}]

Early == {"validate", "catalog", "confirm", "client", "load"}
Ended == {"done", "killed"}

\* What does not change is what it was, and the loads are one for each slot:
\* coordinates are those of the slot's environment.
LoadsFit ==
    /\ selected \in Selections /\ setting \in Settings /\ broad \in BOOLEAN
    /\ loading \in [Slot -> {"queued", "status", "config", "loaded", "unavailable"}]
    /\ ssh \in [Slot -> Environment \cup {None}]
    /\ \A i \in Slot : Usable(i) => ssh[i] = selected[i]
    /\ phase \in {"validate", "catalog", "confirm", "client"} => InFlight = {}
    /\ Cardinality(InFlight) <= Jobs

\* A slot without a failure has its target in ready, at its rank, and nothing
\* else is there.
SlotsFit ==
    /\ InFlight = {}
    /\ DOMAIN failures = Slot
    /\ \A i \in Slot \ Good : \E state \in {"failed", "skipped"} :
          failures[i] = [environment |-> selected[i], state |-> state]
    /\ \A i \in Good : Usable(i)
    /\ ready \in Seq(Target)
    /\ Len(ready) = Cardinality(Good)
    /\ \A i \in Good :
          /\ Rank(i) \in DOMAIN ready
          /\ ready[Rank(i)] = [environment |-> selected[i], ssh |-> selected[i]]
    /\ \A k \in DOMAIN ready : \E i \in Good : Rank(i) = k

\* With --fail-fast no target stands behind a slot that could not be loaded.
NoneBehind ==
    setting.failFast =>
        \A i, j \in Slot : i < j /\ loading[i] = "unavailable" => j \notin Good

Consented == broad => setting.yes \/ answer = "yes"

\* What may run has been consented to and sorted.
MayRun == failures # <<>> /\ Consented /\ NoneBehind

\* The batch is run on the ready targets, and its results are theirs.
BatchFits ==
    /\ ready # <<>>
    /\ DOMAIN status = DOMAIN ready
    /\ \A k \in DOMAIN status : status[k] \in Batch!Outcome \cup {"queued", "running"}
    /\ Cardinality(Batch!Running) <= Jobs

ExecutedFits ==
    /\ executed \in Seq(Result) /\ Len(executed) = Len(ready)
    /\ \A k \in DOMAIN ready :
          /\ executed[k].target = ready[k]
          /\ executed[k].state = "succeeded" <=> status[k] = "succeeded"

\* How far the command is.
PhaseFits ==
    /\ phase \in Early => failures = <<>>
    /\ failures = <<>> => ready = <<>> /\ status = <<>> /\ inherited = None
    /\ status = <<>> => executed = <<>>
    /\ phase \in {"failfast", "dispatch"} => failures # <<>> /\ status = <<>>
    /\ phase \in {"client", "load", "failfast"} => Consented
    /\ phase \in {"dispatch", "batch", "merge", "report"} => MayRun
    /\ phase = "batch" => status # <<>>
    /\ phase \in {"merge", "report"} =>
          IF ready = <<>> THEN status = <<>> /\ executed = <<>>
          ELSE status # <<>> /\ executed # <<>>
    /\ phase = "report" => DOMAIN results = Slot
    /\ phase \in Ended <=> exit # None
    /\ inherited # None =>
          /\ phase = "done" /\ MayRun /\ Single
    /\ signalCode \in {None, SignalExit}

RInv ==
    /\ TypeOK
    /\ LoadsFit
    /\ failures # <<>> => SlotsFit
    /\ status # <<>> => MayRun /\ BatchFits
    /\ executed # <<>> => ExecutedFits
    /\ PhaseFits
    /\ OneResultEach
    /\ ZeroIsSuccess

-----------------------------------------------------------------------------
(* Sets of slots in their order.                                           *)

LEMMA LeastOf ==
    ASSUME NEW T \in SUBSET Nat, T # {}
    PROVE  \E x \in T : \A y \in T : x <= y
<1>. DEFINE Below(n) == 0 .. n - 1
            All == {Below(n) : n \in T}
<1>1. All \subseteq FiniteSubsetsOf(Nat) /\ All # {}
  <2>1. \A n \in T : IsFiniteSet(Below(n)) /\ Below(n) \in SUBSET Nat
    BY FS_Interval
  <2>. HIDE DEF Below
  <2>. QED  BY <2>1 DEF FiniteSubsetsOf
<1>2. PICK b \in All : \A c \in All : ~ (<<c, b>> \in StrictSubsetOrdering(Nat))
  <2>. HIDE DEF All
  <2>. QED  BY <1>1, FS_StrictSubsetOrderingWellFounded, WFMin
<1>3. PICK x \in T : b = Below(x)
  OBVIOUS
<1>4. ASSUME NEW y \in T, ~ (x <= y) PROVE FALSE
  <2>1. Below(y) \subseteq Below(x) /\ Below(y) # Below(x)
    <3>1. x - 1 \in Below(x) /\ x - 1 \notin Below(y)
      BY <1>4
    <3>. QED  BY <3>1, <1>4
  <2>2. Below(y) \in All /\ Below(x) \in SUBSET Nat /\ Below(y) \in SUBSET Nat
    OBVIOUS
  <2>. HIDE DEF Below
  <2>3. <<Below(y), b>> \in StrictSubsetOrdering(Nat)
    BY <2>1, <2>2, <1>3 DEF StrictSubsetOrdering
  <2>. QED  BY <1>2, <2>2, <2>3
<1>. QED  BY <1>4

\* Every finite set of numbers can be put in order: one that cannot, and all
\* whose proper subsets can, would be in order behind its least member.
LEMMA HasOrder ==
    ASSUME NEW S \in SUBSET Nat, IsFiniteSet(S)
    PROVE  \E s \in [1 .. Cardinality(S) -> S] :
              \A j, k \in 1 .. Cardinality(S) : j < k => s[j] < s[k]
<1>. DEFINE Ordered(T) == \E s \in [1 .. Cardinality(T) -> T] :
                             \A j, k \in 1 .. Cardinality(T) : j < k => s[j] < s[k]
            Bad == {T \in FiniteSubsetsOf(Nat) : ~ Ordered(T)}
<1>. SUFFICES ASSUME S \in Bad PROVE FALSE
  BY DEF FiniteSubsetsOf
<1>1. PICK M \in Bad : \A T \in Bad : ~ (<<T, M>> \in StrictSubsetOrdering(Nat))
  <2>1. Bad \subseteq FiniteSubsetsOf(Nat) /\ Bad # {}
    OBVIOUS
  <2>. HIDE DEF Bad
  <2>. QED  BY <2>1, FS_StrictSubsetOrderingWellFounded, WFMin
<1>2. M \in SUBSET Nat /\ IsFiniteSet(M) /\ ~ Ordered(M)
  BY DEF FiniteSubsetsOf
<1>3. M # {}
  <2>1. ASSUME M = {} PROVE Ordered(M)
    <3>1. Cardinality(M) = 0
      BY <2>1, FS_EmptySet
    <3>. DEFINE o == [i \in 1 .. Cardinality(M) |-> 0]
    <3>2. 1 .. Cardinality(M) = {}
      BY <3>1
    <3>3. /\ o \in [1 .. Cardinality(M) -> M]
          /\ \A j, k \in 1 .. Cardinality(M) : j < k => o[j] < o[k]
      BY <3>2
    <3>. QED  BY <3>3
  <2>. QED  BY <1>2, <2>1
<1>4. PICK m \in M : \A y \in M : m <= y
  BY <1>2, <1>3, LeastOf
<1>. DEFINE R == M \ {m}
            c == Cardinality(R)
<1>5. IsFiniteSet(R) /\ c \in Nat /\ Cardinality(M) = c + 1
  <2>1. IsFiniteSet(R) /\ Cardinality(R) = Cardinality(M) - 1
    BY <1>2, FS_RemoveElement
  <2>2. Cardinality(R) \in Nat /\ Cardinality(M) \in Nat
    BY <1>2, <2>1, FS_CardinalityType
  <2>. QED  BY <2>1, <2>2
<1>6. Ordered(R)
  <2>1. R \in FiniteSubsetsOf(Nat) /\ <<R, M>> \in StrictSubsetOrdering(Nat)
    BY <1>2, <1>5 DEF FiniteSubsetsOf, StrictSubsetOrdering
  <2>. HIDE DEF R
  <2>. QED  BY <1>1, <2>1
<1>7. PICK s \in [1 .. c -> R] : \A j, k \in 1 .. c : j < k => s[j] < s[k]
  BY <1>6
<1>. HIDE DEF c
<1>. DEFINE t == [k \in 1 .. c + 1 |-> IF k = 1 THEN m ELSE s[k - 1]]
<1>8. t \in [1 .. c + 1 -> M]
  BY <1>5, <1>7
<1>9. ASSUME NEW j \in 1 .. c + 1, NEW k \in 1 .. c + 1, j < k
      PROVE  t[j] < t[k]
  <2>1. k - 1 \in 1 .. c /\ t[k] = s[k - 1] /\ s[k - 1] \in M /\ s[k - 1] # m
    BY <1>5, <1>7, <1>9
  <2>2. CASE j = 1
    <3>1. t[j] = m /\ m \in Nat /\ s[k - 1] \in Nat /\ m <= s[k - 1]
      BY <1>2, <1>4, <2>1, <2>2
    <3>. QED  BY <2>1, <3>1
  <2>3. CASE j # 1
    <3>1. j - 1 \in 1 .. c /\ t[j] = s[j - 1] /\ j - 1 < k - 1
      BY <1>5, <1>9, <2>3
    <3>. QED  BY <1>7, <2>1, <3>1
  <2>. QED  BY <2>2, <2>3
<1>10. Ordered(M)
  <2>. HIDE DEF t
  <2>. QED  BY <1>5, <1>8, <1>9
<1>. QED  BY <1>2, <1>10

LEMMA InOrderFits ==
    ASSUME NEW S \in SUBSET Nat, IsFiniteSet(S)
    PROVE  LET s == InOrder(S)
               n == Cardinality(S)
           IN  /\ n \in Nat /\ s \in [1 .. n -> S]
               /\ \A j, k \in 1 .. n : j < k => s[j] < s[k]
               /\ \A i \in S : \E k \in 1 .. n : s[k] = i
<1>. DEFINE s == InOrder(S)
            n == Cardinality(S)
<1>1. n \in Nat
  BY FS_CardinalityType
<1>2. PICK o \in [1 .. n -> S] : \A j, k \in 1 .. n : j < k => o[j] < o[k]
  BY HasOrder
<1>3. s \in [1 .. n -> S] /\ \A j, k \in DOMAIN s : j < k => s[j] < s[k]
  <2>1. DOMAIN o = 1 .. n
    OBVIOUS
  <2>. HIDE DEF n
  <2>2. \E x \in [1 .. n -> S] : \A j, k \in DOMAIN x : j < k => x[j] < x[k]
    BY <1>2, <2>1
  <2>. QED  BY <2>2 DEF InOrder, n
<1>. HIDE DEF s
<1>4. \A j, k \in 1 .. n : j < k => s[j] < s[k]
  BY <1>3
<1>5. s \in Injection(1 .. n, S)
  <2>1. \A j \in 1 .. n : s[j] \in Nat /\ j \in Nat
    <3>1. \A j \in 1 .. n : s[j] \in S
      BY <1>1, <1>3
    <3>2. \A j \in 1 .. n : j \in Nat
      BY <1>1
    <3>. QED  BY <3>1, <3>2
  <2>2. \A j, k \in 1 .. n : s[j] = s[k] => j = k
    BY <1>4, <2>1
  <2>. QED  BY <1>3, <2>2 DEF Injection, IsInjective
<1>6. s \in Surjection(1 .. n, S)
  BY <1>1, <1>5, FS_Injection, FS_Interval
<1>. QED  BY <1>1, <1>3, <1>4, <1>6 DEF Surjection, s

\* The place of a member is how many there are up to it.
LEMMA PlaceInOrder ==
    ASSUME NEW S \in SUBSET Nat, IsFiniteSet(S), NEW k \in 1 .. Cardinality(S)
    PROVE  Cardinality({j \in S : j <= InOrder(S)[k]}) = k
<1>. DEFINE s == InOrder(S)
            n == Cardinality(S)
            upTo == {j \in S : j <= s[k]}
            f == [j \in 1 .. k |-> s[j]]
<1>1. /\ n \in Nat /\ s \in [1 .. n -> S]
      /\ \A i, j \in 1 .. n : i < j => s[i] < s[j]
      /\ \A i \in S : \E j \in 1 .. n : s[j] = i
  BY InOrderFits
<1>. HIDE DEF s, n
<1>2. k \in 1 .. n /\ 1 .. k \subseteq 1 .. n
  BY <1>1 DEF n
<1>3. \A i, j \in 1 .. n : (s[i] <= s[j] <=> i <= j) /\ (s[i] = s[j] => i = j)
  <2>1. \A j \in 1 .. n : s[j] \in Nat /\ j \in Nat
    <3>1. \A j \in 1 .. n : s[j] \in S
      BY <1>1
    <3>2. \A j \in 1 .. n : j \in Nat
      BY <1>1
    <3>. QED  BY <3>1, <3>2
  <2>. QED  BY <1>1, <2>1
<1>4. f \in [1 .. k -> upTo]
  BY <1>1, <1>2, <1>3
<1>5. \A i \in upTo : \E j \in 1 .. k : f[j] = i
  <2>. SUFFICES ASSUME NEW i \in upTo PROVE \E j \in 1 .. k : f[j] = i
    OBVIOUS
  <2>1. PICK j \in 1 .. n : s[j] = i
    BY <1>1
  <2>2. j \in 1 .. k
    BY <1>2, <1>3, <2>1
  <2>. QED  BY <2>1, <2>2
<1>6. \A i, j \in 1 .. k : f[i] = f[j] => i = j
  BY <1>2, <1>3
<1>. HIDE DEF f, upTo
<1>7. ExistsBijection(1 .. k, upTo)
  BY <1>4, <1>5, <1>6 DEF ExistsBijection, Bijection, Injection, Surjection, IsInjective
<1>8. IsFiniteSet(1 .. k) /\ Cardinality(1 .. k) = k
  BY <1>2, FS_Interval
<1>. QED  BY <1>7, <1>8, FS_Bijection DEF upTo, s

LEMMA AllInOrder ==
    ASSUME NEW n \in Nat
    PROVE  /\ Cardinality(1 .. n) = n
           /\ \A k \in 1 .. n : InOrder(1 .. n)[k] = k
<1>1. 1 .. n \in SUBSET Nat /\ IsFiniteSet(1 .. n) /\ Cardinality(1 .. n) = n
  BY FS_Interval
<1>2. ASSUME NEW k \in 1 .. n PROVE InOrder(1 .. n)[k] = k
  <2>. DEFINE i == InOrder(1 .. n)[k]
  <2>1. i \in 1 .. n
    <3>1. InOrder(1 .. n) \in [1 .. n -> 1 .. n]
      BY <1>1, InOrderFits
    <3>. QED  BY <3>1
  <2>2. Cardinality({j \in 1 .. n : j <= i}) = k
    BY <1>1, PlaceInOrder
  <2>. HIDE DEF i
  <2>3. {j \in 1 .. n : j <= i} = 1 .. i
    BY <2>1
  <2>4. Cardinality(1 .. i) = i
    BY <2>1, FS_Interval
  <2>. QED  BY <2>2, <2>3, <2>4 DEF i
<1>. QED  BY <1>1, <1>2

-----------------------------------------------------------------------------
(* What rests.                                                             *)

LEMMA SelectionShape ==
    ASSUME selected \in Selections, setting \in Settings
    PROVE  /\ Len(selected) \in Nat \ {0} /\ Slot = 1 .. Len(selected)
           /\ Slot \in SUBSET Nat /\ IsFiniteSet(Slot)
           /\ \A i \in Slot : selected[i] \in Environment
           /\ \A i, j \in Slot : selected[i] = selected[j] => i = j
           /\ {setting.failFast, setting.yes, setting.interactive} \subseteq BOOLEAN
<1>1. selected \in Seq(Environment) /\ selected # <<>>
  BY RunAssumption
<1>2. Len(selected) \in Nat \ {0} /\ Slot = 1 .. Len(selected)
  BY <1>1, EmptySeq, LenProperties DEF Slot
<1>3. Slot \in SUBSET Nat /\ IsFiniteSet(Slot)
  BY <1>2, FS_Interval
<1>4. \A i \in Slot : selected[i] \in Environment
  BY <1>1, <1>2, ElementOfSeq
<1>5. \A i, j \in Slot : selected[i] = selected[j] => i = j
  BY RunAssumption DEF Slot
<1>6. {setting.failFast, setting.yes, setting.interactive} \subseteq BOOLEAN
  BY RunAssumption
<1>. QED  BY <1>2, <1>3, <1>4, <1>5, <1>6

LEMMA InFlightFinite ==
    ASSUME LoadsFit
    PROVE  InFlight \in SUBSET Slot /\ IsFiniteSet(InFlight)
<1>1. InFlight \in SUBSET Slot
  BY DEF LoadsFit, InFlight
<1>. QED  BY <1>1, SelectionShape, FS_Subset DEF LoadsFit

LEMMA LoadsRest ==
    ASSUME LoadsFit, UNCHANGED <<selected, setting, broad, loading, ssh>>,
           phase' \in {"validate", "catalog", "confirm", "client"} => InFlight = {}
    PROVE  LoadsFit'
BY DEF LoadsFit, Slot, InFlight, Usable

LEMMA SlotsRest ==
    ASSUME SlotsFit, UNCHANGED <<selected, loading, ssh, ready, failures>>
    PROVE  SlotsFit'
<1>1. Slot' = Slot /\ Good' = Good /\ InFlight' = InFlight
  BY DEF Slot, Good, InFlight
<1>2. \A i \in Slot : (Usable(i)' <=> Usable(i)) /\ Rank(i)' = Rank(i)
  BY DEF Usable, Rank
<1>3. Good \subseteq Slot
  BY DEF Good
<1>. QED  BY <1>1, <1>2, <1>3 DEF SlotsFit

LEMMA MayRunRests ==
    ASSUME MayRun, UNCHANGED <<selected, setting, broad, answer, loading, failures>>
    PROVE  MayRun'
BY DEF MayRun, Consented, NoneBehind, Slot, Good

LEMMA BatchRests ==
    ASSUME BatchFits, UNCHANGED <<ready, status>>
    PROVE  BatchFits'
BY DEF BatchFits, Batch!Running, Batch!Outcome

LEMMA ExecutedRests ==
    ASSUME ExecutedFits, UNCHANGED <<ready, status, executed>>
    PROVE  ExecutedFits'
BY DEF ExecutedFits

\* A step that leaves everything alone but the phase and what is known of the
\* end, and the answer unless something may run already.
Quiet ==
    /\ UNCHANGED <<input, prepared, batch>>
    /\ answer' # answer => phase = "confirm"
    /\ phase' \in {"validate", "catalog", "confirm", "client"} =>
          phase \in {"validate", "catalog", "confirm"}

LEMMA QuietKeeps ==
    ASSUME RInv, Quiet
    PROVE  /\ LoadsFit'
           /\ failures' # <<>> => SlotsFit'
           /\ status' # <<>> => MayRun' /\ BatchFits'
           /\ executed' # <<>> => ExecutedFits'
<1>. USE DEF RInv, Quiet, input, prepared, batch
<1>1. LoadsFit'
  BY LoadsRest DEF LoadsFit
<1>2. failures' # <<>> => SlotsFit'
  BY SlotsRest
<1>3. status' # <<>> => MayRun' /\ BatchFits'
  <2>1. status # <<>> => answer' = answer
    BY DEF PhaseFits, Early
  <2>. QED  BY <2>1, MayRunRests, BatchRests
<1>4. executed' # <<>> => ExecutedFits'
  BY ExecutedRests
<1>. QED  BY <1>1, <1>2, <1>3, <1>4

LEMMA NoneIsNoStatus == None # 0 /\ \A code \in 0 .. 255 : code # None
BY NoneAssumption

-----------------------------------------------------------------------------
(* The end of a run, before which nothing else changes.                    *)

EndsWith(code) ==
    /\ exit' = code
    /\ phase' \in Ended
    /\ UNCHANGED <<input, answer, prepared, batch, inherited, signalCode, results>>

LEMMA EndKeeps ==
    ASSUME RInv, phase \notin Ended, NEW code \in 0 .. 255, EndsWith(code),
           code = 0 => \A i \in Slot : RanWell(selected[i])
    PROVE  RInv'
<1>. USE DEF EndsWith
<1>1. Quiet
  BY DEF Quiet, Ended
<1>2. phase' # "report" /\ phase' \notin Early
  BY DEF Ended, Early
<1>3. TypeOK'
  BY DEF RInv, TypeOK, Ended, input, prepared, batch
<1>4. PhaseFits'
  <2>1. exit' # None /\ inherited = None
    BY NoneIsNoStatus DEF RInv, PhaseFits, Ended
  <2>2. failures' = <<>> => ready' = <<>> /\ status' = <<>> /\ inherited' = None
    BY DEF RInv, PhaseFits, prepared, batch
  <2>3. /\ status' = <<>> => executed' = <<>>
        /\ inherited' = None
        /\ signalCode' \in {None, SignalExit}
    BY <2>1 DEF RInv, PhaseFits, batch
  <2>. QED  BY <1>2, <2>1, <2>2, <2>3 DEF PhaseFits, Ended, Early
<1>5. OneResultEach'
  BY <1>2 DEF OneResultEach
<1>6. ZeroIsSuccess'
  <2>. SUFFICES ASSUME exit' = 0 PROVE \A i \in DOMAIN selected' : RanWell(selected[i])'
    BY DEF ZeroIsSuccess
  <2>. QED  BY DEF RanWell, Slot, input, prepared, batch
<1>. QED  BY <1>1, <1>3, <1>4, <1>5, <1>6, QuietKeeps DEF RInv

LEMMA ExitOfIs == \A code : ExitOf(code) \in 1 .. 255
BY DEF ExitOf

LEMMA FailsKeeps ==
    ASSUME RInv, phase \notin Ended, NEW code, Fails(code)
    PROVE  RInv'
<1>1. ExitOf(code) \in 0 .. 255 /\ ExitOf(code) # 0
  BY ExitOfIs
<1>2. EndsWith(ExitOf(code))
  BY DEF Fails, EndsWith, Ended
<1>. QED  BY <1>1, <1>2, EndKeeps

\* A signal that ends the process.
LEMMA SignalKeeps ==
    ASSUME RInv, phase \notin Ended, EndsWith(SignalExit)
    PROVE  RInv'
BY EndKeeps DEF SignalExit

-----------------------------------------------------------------------------
(* Before anything runs.                                                   *)

\* A step to the next phase, with no slot sorted.
LEMMA MoveKeeps ==
    ASSUME RInv, NEW place \in {"catalog", "confirm", "client", "load"}, Moves(place),
           phase \in {"validate", "catalog", "confirm", "client"},
           place = "load" <=> phase = "client",
           answer' # answer => phase = "confirm",
           place \in {"client", "load"} => Consented'
    PROVE  RInv'
<1>. USE DEF Moves
<1>1. Quiet
  BY DEF Quiet
<1>2. TypeOK'
  BY DEF RInv, TypeOK, input, prepared, batch, outcome
<1>3. PhaseFits'
  BY DEF RInv, PhaseFits, Early, Ended, input, prepared, batch, outcome
<1>4. OneResultEach' /\ ZeroIsSuccess'
  BY NoneIsNoStatus DEF RInv, PhaseFits, Ended, OneResultEach, ZeroIsSuccess, outcome
<1>. QED  BY <1>1, <1>2, <1>3, <1>4, QuietKeeps DEF RInv

LEMMA PreludeKeeps ==
    ASSUME RInv, Validate \/ Resolve \/ Confirm \/ CheckAvailable
    PROVE  RInv'
<1>1. CASE Validate
  BY <1>1, FailsKeeps, MoveKeeps DEF Validate, Ended
<1>2. CASE Resolve
  BY <1>2, FailsKeeps, MoveKeeps DEF Resolve, Ended
<1>3. CASE Confirm
  <2>1. Moves("client") => Consented'
    BY <1>3 DEF Confirm, Consented, NeedsConfirmation, Moves, Fails, input
  <2>. QED  BY <1>3, <2>1, FailsKeeps, MoveKeeps DEF Confirm, Ended
<1>4. CASE CheckAvailable
  <2>1. Moves("load") => Consented'
    BY <1>4 DEF CheckAvailable, RInv, PhaseFits, Consented, Moves, Fails, Ended, input
  <2>. QED  BY <1>4, <2>1, FailsKeeps, MoveKeeps DEF CheckAvailable, Ended
<1>. QED  BY <1>1, <1>2, <1>3, <1>4

-----------------------------------------------------------------------------
(* Loading the coordinates.                                                *)

\* One load is taken a step further, and counts against --jobs.
LEMMA LoadingKeeps ==
    ASSUME RInv, NEW i \in Slot, NEW from, NEW where \in Environment \cup {None},
           NEW to \in {"status", "config", "loaded", "unavailable"},
           Loading(i, from, to, where),
           to = "status" => from = "queued" /\ MayLoad,
           to # "status" => from \in {"status", "config"},
           to = "loaded" => where = selected[i]
    PROVE  RInv'
<1>. USE DEF Loading
<1>1. /\ loading \in [Slot -> {"queued", "status", "config", "loaded", "unavailable"}]
      /\ ssh \in [Slot -> Environment \cup {None}]
      /\ selected \in Selections /\ setting \in Settings
  BY DEF RInv, LoadsFit
<1>2. Slot' = Slot
  BY DEF Slot, input
<1>3. \A j \in Slot : /\ loading'[j] = IF j = i THEN to ELSE loading[j]
                      /\ ssh'[j] = IF j = i THEN where ELSE ssh[j]
  BY <1>1
<1>4. Cardinality(InFlight') <= Jobs
  <2>1. IsFiniteSet(InFlight) /\ InFlight \in SUBSET Slot
    BY InFlightFinite DEF RInv
  <2>2. DOMAIN loading = Slot /\ DOMAIN loading' = Slot
    BY <1>1
  <2>3. CASE to = "status"
    <3>1. InFlight' = InFlight \cup {i} /\ i \notin InFlight
      BY <1>1, <1>3, <2>2, <2>3 DEF InFlight
    <3>2. Cardinality(InFlight') = Cardinality(InFlight) + 1
      BY <2>1, <3>1, FS_AddElement
    <3>3. Cardinality(InFlight) \in Nat /\ Cardinality(InFlight) < Jobs
      BY <2>1, <2>3, FS_CardinalityType DEF MayLoad
    <3>. QED  BY <3>2, <3>3, RunAssumption
  <2>4. CASE to # "status"
    <3>1. i \in InFlight
      BY <2>2, <2>4 DEF InFlight
    <3>2. InFlight' \in SUBSET InFlight
      BY <1>3, <2>2, <3>1 DEF InFlight
    <3>3. /\ Cardinality(InFlight') <= Cardinality(InFlight)
          /\ Cardinality(InFlight') \in Nat /\ Cardinality(InFlight) \in Nat
      BY <2>1, <3>2, FS_Subset, FS_CardinalityType
    <3>. QED  BY <3>3, RunAssumption DEF RInv, LoadsFit
  <2>. QED  BY <2>3, <2>4
<1>5. phase = "load" /\ phase' = "load" /\ failures = <<>> /\ status = <<>>
      /\ executed = <<>> /\ inherited = None /\ exit = None
  BY DEF RInv, PhaseFits, Early, Ended
<1>6. LoadsFit'
  <2>1. loading' \in [Slot -> {"queued", "status", "config", "loaded", "unavailable"}]
        /\ ssh' \in [Slot -> Environment \cup {None}]
    BY <1>1
  <2>2. \A j \in Slot : Usable(j)' => ssh'[j] = selected[j]
    BY <1>3 DEF Usable, RInv, LoadsFit
  <2>. QED  BY <1>2, <1>4, <1>5, <2>1, <2>2 DEF RInv, LoadsFit, input
<1>7. TypeOK'
  <2>1. \A j \in DOMAIN loading' :
           /\ loading'[j] \in {"queued", "status", "config", "loaded", "unavailable"}
           /\ ssh'[j] \in Environment \cup {None}
    BY <1>2, <1>6 DEF LoadsFit
  <2>. QED  BY <1>5, <2>1 DEF RInv, TypeOK, input, batch, outcome
<1>8. PhaseFits'
  BY <1>5 DEF RInv, PhaseFits, Consented, Early, Ended, input, batch, outcome
<1>9. OneResultEach' /\ ZeroIsSuccess'
  BY <1>5, NoneIsNoStatus DEF OneResultEach, ZeroIsSuccess, outcome
<1>. QED
  BY <1>5, <1>6, <1>7, <1>8, <1>9 DEF RInv, batch

LEMMA LoadKeeps == RInv /\ Load => RInv'
<1>. SUFFICES ASSUME RInv, Load PROVE RInv'
  OBVIOUS
<1>1. PICK i \in Slot : StartLoad(i) \/ StatusArrives(i) \/ ConfigArrives(i)
  BY DEF Load, Slot
<1>2. CASE StartLoad(i)
  BY <1>2, LoadingKeeps DEF StartLoad
<1>3. CASE StatusArrives(i)
  <2>1. PICK to \in {"config", "unavailable"} : Loading(i, "status", to, None)
    BY <1>3 DEF StatusArrives
  <2>. QED  BY <2>1, LoadingKeeps
<1>4. CASE ConfigArrives(i)
  <2>1. CASE Loading(i, "config", "unavailable", None)
    BY <2>1, LoadingKeeps
  <2>2. CASE \E environment \in Environment :
                IsFor(environment, i) /\ Loading(i, "config", "loaded", environment)
    BY <2>2, LoadingKeeps DEF IsFor
  <2>. QED  BY <1>4, <2>1, <2>2 DEF ConfigArrives
<1>. QED  BY <1>1, <1>2, <1>3, <1>4

\* The rank of a slot counts the slots without a failure up to it.
LEMMA RankCounts ==
    selected \in Selections /\ setting \in Settings =>
        \A i \in Slot : Rank(i) = Cardinality({j \in Good : j <= i})
<1>. SUFFICES ASSUME selected \in Selections, setting \in Settings, NEW i \in Slot
              PROVE  Rank(i) = Cardinality({j \in Good : j <= i})
  OBVIOUS
<1>1. {j \in 1 .. i : failures[j] = None} = {j \in Good : j <= i}
  BY SelectionShape DEF Good
<1>. QED  BY <1>1 DEF Rank

LEMMA RankCountsAfter ==
    (selected \in Selections /\ setting \in Settings =>
        \A i \in Slot : Rank(i) = Cardinality({j \in Good : j <= i}))'
BY RankCounts, PTL

\* The targets that were loaded are ready, at the ranks of their slots.
LEMMA SplitSorts == RInv /\ Split => SlotsFit' /\ failures' # <<>>
<1>. SUFFICES ASSUME RInv, Split PROVE SlotsFit' /\ failures' # <<>>
  OBVIOUS
<1>. DEFINE U == {i \in Slot : Usable(i)}
            n == Cardinality(U)
            slots == InOrder(U)
<1>1. /\ selected \in Selections /\ setting \in Settings
      /\ loading \in [Slot -> {"queued", "status", "config", "loaded", "unavailable"}]
      /\ \A i \in Slot : Usable(i) => ssh[i] = selected[i]
  BY DEF RInv, LoadsFit
<1>2. /\ selected' = selected /\ setting' = setting /\ Slot' = Slot
      /\ loading' = loading /\ ssh' = ssh
  BY DEF Split, input, Slot
<1>3. U \in SUBSET Nat /\ IsFiniteSet(U) /\ U \in SUBSET Slot
  BY <1>1, SelectionShape, FS_Subset
<1>4. /\ n \in Nat /\ slots \in [1 .. n -> U]
      /\ \A i \in U : \E k \in 1 .. n : slots[k] = i
  BY <1>3, InOrderFits
<1>5. \A k \in 1 .. n : Cardinality({j \in U : j <= slots[k]}) = k
  BY <1>3, PlaceInOrder
<1>6. /\ failures' = [i \in Slot |->
                        IF Usable(i) THEN None
                        ELSE [environment |-> selected[i], state |-> "failed"]]
      /\ ready' = [k \in DOMAIN slots |-> [environment |-> selected[slots[k]],
                                           ssh |-> ssh[slots[k]]]]
      /\ \A i \in Slot : Answered(i)
  BY DEF Split, Slot
<1>. HIDE DEF n, slots
<1>7. DOMAIN failures' = Slot /\ failures' # <<>>
  <2>1. Slot # {}
    BY <1>1, SelectionShape
  <2>. QED  BY <1>6, <2>1
<1>8. Good' = U
  <2>1. \A i \in Slot : failures'[i] = None <=> Usable(i)
    BY <1>1, <1>6, SelectionShape, NoneAssumption
  <2>. QED  BY <1>2, <2>1 DEF Good
<1>9. InFlight' = {}
  BY <1>1, <1>2, <1>6 DEF InFlight, Answered
<1>10. /\ DOMAIN ready' = 1 .. n
       /\ \A k \in 1 .. n :
             ready'[k] = [environment |-> selected[slots[k]],
                          ssh |-> selected[slots[k]]]
  BY <1>1, <1>4, <1>6
<1>11. /\ ready' \in Seq(Target)
       /\ Len(ready') = n
  <2>1. \A k \in 1 .. n : selected[slots[k]] \in Environment
    BY <1>1, <1>4, SelectionShape
  <2>2. ready' \in [1 .. n -> Target]
    BY <1>4, <1>6, <1>10, <2>1 DEF Target
  <2>3. ready' \in Seq(Target)
    BY <1>4, <2>2, SeqDef
  <2>4. DOMAIN ready' = 1 .. Len(ready') /\ Len(ready') \in Nat
    BY <2>3, LenProperties
  <2>5. Len(ready') = n
    BY <1>4, <1>10, <2>4
  <2>. QED  BY <2>3, <2>5
<1>12. ASSUME NEW k \in 1 .. n, NEW i \in Slot, i = slots[k]
       PROVE  i \in Good' /\ Rank(i)' = k
  <2>1. i \in U
    BY <1>4, <1>12
  <2>2. Rank(i)' = Cardinality({j \in Good' : j <= i})
    BY <1>1, <1>2, RankCountsAfter
  <2>. HIDE DEF U
  <2>3. {j \in Good' : j <= i} = {j \in U : j <= slots[k]}
    BY <1>8, <1>12
  <2>. QED  BY <1>5, <1>8, <2>1, <2>2, <2>3
<1>13. ASSUME NEW i \in Good'
       PROVE  /\ Rank(i)' \in DOMAIN ready'
              /\ ready'[Rank(i)'] = [environment |-> selected[i], ssh |-> selected[i]]
  <2>1. PICK k \in 1 .. n : slots[k] = i
    BY <1>4, <1>8
  <2>2. Rank(i)' = k
    BY <1>8, <1>12, <2>1
  <2>. QED  BY <1>10, <2>1, <2>2
<1>14. \A i \in Slot \ Good' : \E state \in {"failed", "skipped"} :
          failures'[i] = [environment |-> selected[i], state |-> state]
  BY <1>6, <1>8
<1>15. \A i \in Good' : Usable(i)'
  BY <1>2, <1>8 DEF Usable
<1>16. ASSUME NEW k \in DOMAIN ready' PROVE \E i \in Good' : Rank(i)' = k
  <2>1. k \in 1 .. n /\ slots[k] \in Slot
    BY <1>3, <1>4, <1>10
  <2>. QED  BY <1>12, <2>1
<1>17. Len(ready') = Cardinality(Good')
  BY <1>8, <1>11 DEF n
<1>. HIDE DEF U
<1>. QED
  BY <1>2, <1>7, <1>9, <1>11, <1>13, <1>14, <1>15, <1>16, <1>17 DEF SlotsFit

LEMMA ReadyBound == LoadsFit /\ SlotsFit => Len(ready) <= Len(selected)
<1>. SUFFICES ASSUME LoadsFit, SlotsFit PROVE Len(ready) <= Len(selected)
  OBVIOUS
<1>1. Slot = 1 .. Len(selected) /\ IsFiniteSet(Slot) /\ Len(selected) \in Nat
  BY SelectionShape DEF LoadsFit
<1>2. Cardinality(Slot) = Len(selected)
  BY <1>1, AllInOrder
<1>3. Good \in SUBSET Slot
  BY DEF Good
<1>. QED  BY <1>1, <1>2, <1>3, FS_Subset DEF SlotsFit

LEMMA ReadyBoundAfter == (LoadsFit /\ SlotsFit => Len(ready) <= Len(selected))'
BY ReadyBound, PTL

LEMMA SplitKeeps == RInv /\ Split => RInv'
<1>. SUFFICES ASSUME RInv, Split PROVE RInv'
  OBVIOUS
<1>1. SlotsFit' /\ failures' # <<>>
  BY SplitSorts
<1>2. phase = "load" /\ phase' = "failfast"
      /\ status' = <<>> /\ executed' = <<>> /\ inherited' = None /\ exit' = None
  BY DEF RInv, PhaseFits, Split, Early, Ended, batch, outcome
<1>3. LoadsFit'
  BY <1>2, LoadsRest DEF RInv, LoadsFit, Split, input
<1>4. Len(ready') <= Len(selected')
  BY <1>1, <1>3, ReadyBoundAfter
<1>5. TypeOK'
  BY <1>2, <1>4 DEF RInv, TypeOK, Split, input, batch, outcome
<1>6. PhaseFits'
  BY <1>1, <1>2 DEF RInv, PhaseFits, Consented, Split, Early, Ended, input, batch, outcome
<1>7. OneResultEach' /\ ZeroIsSuccess'
  BY <1>2, NoneIsNoStatus DEF OneResultEach, ZeroIsSuccess
<1>. QED  BY <1>1, <1>2, <1>3, <1>5, <1>6, <1>7 DEF RInv

-----------------------------------------------------------------------------
(* Fail-fast: what stands behind the first failure is skipped.             *)

LEMMA Ranks ==
    ASSUME SlotsFit, LoadsFit, NEW first \in Slot,
           \A j \in 1 .. first - 1 : failures[j] = None
    PROVE  /\ first - 1 \in 0 .. Len(ready)
           /\ \A i \in 1 .. first - 1 : i \in Good /\ Rank(i) = i
<1>1. first \in Nat \ {0} /\ 1 .. first - 1 \subseteq Good
  BY SelectionShape DEF LoadsFit, Good
<1>2. ASSUME NEW i \in 1 .. first - 1 PROVE Rank(i) = i
  <2>1. {j \in 1 .. i : failures[j] = None} = 1 .. i
    BY <1>1, <1>2
  <2>2. i \in Nat
    BY <1>1
  <2>. QED  BY <2>1, <2>2, AllInOrder DEF Rank
<1>3. first - 1 \in 0 .. Len(ready)
  <2>1. Len(ready) \in Nat /\ DOMAIN ready = 1 .. Len(ready)
    BY LenProperties DEF SlotsFit
  <2>2. CASE first = 1
    BY <2>1, <2>2
  <2>3. CASE first # 1
    <3>1. first - 1 \in 1 .. first - 1
      BY <1>1, <2>3
    <3>2. Rank(first - 1) = first - 1 /\ Rank(first - 1) \in DOMAIN ready
      BY <1>1, <1>2, <3>1 DEF SlotsFit
    <3>. QED  BY <1>1, <2>1, <3>2
  <2>. QED  BY <2>2, <2>3
<1>. QED  BY <1>1, <1>2, <1>3

\* Without a failure it changes nothing; with one, what is before the first
\* failure is what may run.
LEMMA FailFastSorts ==
    RInv /\ ApplyFailFast => SlotsFit' /\ NoneBehind' /\ failures' # <<>>
<1>. SUFFICES ASSUME RInv, ApplyFailFast
              PROVE  SlotsFit' /\ NoneBehind' /\ failures' # <<>>
  OBVIOUS
<1>1. SlotsFit /\ LoadsFit /\ failures # <<>> /\ phase = "failfast"
  BY DEF RInv, PhaseFits, ApplyFailFast
<1>2. /\ Len(selected) \in Nat /\ Slot = 1 .. Len(selected) /\ Slot \in SUBSET Nat
      /\ \A i \in Slot : selected[i] \in Environment
      /\ setting.failFast \in BOOLEAN
  BY <1>1, SelectionShape DEF LoadsFit
<1>3. /\ selected' = selected /\ setting' = setting /\ Slot' = Slot
      /\ loading' = loading /\ ssh' = ssh
  BY DEF ApplyFailFast, input, Slot
<1>4. \A i \in Slot : loading[i] = "unavailable" => i \notin Good
  BY <1>1 DEF SlotsFit, Usable
<1>5. CASE ~ (setting.failFast /\ \E i \in Slot : failures[i] # None)
  <2>1. ready' = ready /\ failures' = failures
    BY <1>1, <1>5 DEF ApplyFailFast, SlotsFit
  <2>2. SlotsFit'
    BY <1>1, <1>3, <2>1, SlotsRest
  <2>3. NoneBehind'
    BY <1>3, <1>4, <1>5, <2>1 DEF NoneBehind, Good
  <2>. QED  BY <1>1, <2>1, <2>2, <2>3
<1>6. CASE setting.failFast /\ \E i \in Slot : failures[i] # None
  <2>1. PICK first \in Slot :
           /\ FirstFailure(first)
           /\ failures' = [i \in Slot |-> IF i > first THEN Skipped(i) ELSE failures[i]]
           /\ ready' = SubSeq(ready, 1, first - 1)
    BY <1>1, <1>6 DEF ApplyFailFast, SlotsFit
  <2>. DEFINE m == first - 1
  <2>2. failures[first] # None /\ \A j \in 1 .. m : failures[j] = None
    BY <2>1 DEF FirstFailure
  <2>3. m \in 0 .. Len(ready) /\ \A i \in 1 .. m : i \in Good /\ Rank(i) = i
    BY <1>1, <2>2, Ranks
  <2>4. \A i \in Slot : failures[i] # None => failures[i].environment = selected[i]
    BY <1>1 DEF SlotsFit, Good
  <2>5. \A i \in Slot : failures[i] = None => ready[Rank(i)].environment = selected[i]
    <3>. SUFFICES ASSUME NEW i \in Slot, failures[i] = None
                  PROVE  ready[Rank(i)].environment = selected[i]
      OBVIOUS
    <3>1. ready[Rank(i)] = [environment |-> selected[i], ssh |-> selected[i]]
      BY <1>1 DEF SlotsFit, Good
    <3>. QED  BY <3>1
  <2>6. \A i \in Slot : Skipped(i) = [environment |-> selected[i], state |-> "skipped"]
    BY <2>4, <2>5 DEF Skipped
  <2>7. \A i \in Slot : Skipped(i) # None
    BY <1>2, <2>6, NoneAssumption
  <2>8. DOMAIN failures' = Slot /\ failures' # <<>>
    BY <2>1
  <2>9. Good' = 1 .. m
    <3>1. ASSUME NEW i \in Slot PROVE failures'[i] = None <=> i \in 1 .. m
      <4>1. CASE i > first
        BY <1>2, <2>1, <2>7, <4>1
      <4>2. CASE i = first
        BY <1>2, <2>1, <2>2, <4>2
      <4>3. CASE i < first
        BY <1>2, <2>1, <2>2, <4>3
      <4>. QED  BY <1>2, <4>1, <4>2, <4>3
    <3>2. 1 .. m \subseteq Slot
      BY <1>2
    <3>. QED  BY <1>3, <3>1, <3>2 DEF Good
  <2>10. m \in Nat /\ Cardinality(1 .. m) = m
    BY <1>2, AllInOrder
  <2>11. \A i \in 1 .. m : Rank(i)' = i
    <3>. SUFFICES ASSUME NEW i \in 1 .. m PROVE Rank(i)' = i
      OBVIOUS
    <3>1. i \in Nat /\ {j \in 1 .. m : j <= i} = 1 .. i /\ i \in Slot'
      BY <1>2, <1>3
    <3>2. Rank(i)' = Cardinality({j \in Good' : j <= i})
      BY <1>1, <1>3, <3>1, RankCountsAfter DEF LoadsFit
    <3>. QED  BY <2>9, <3>1, <3>2, AllInOrder
  <2>12. /\ ready' \in Seq(Target) /\ Len(ready') = m /\ DOMAIN ready' = 1 .. m
         /\ \A i \in 1 .. m : ready'[i] = ready[i]
    <3>1. ready \in Seq(Target) /\ Len(ready) \in Nat
      BY <1>1, LenProperties DEF SlotsFit
    <3>2. \A i \in 1 .. m : ready[i] \in Target
      BY <2>3, <3>1, ElementOfSeq
    <3>. HIDE DEF m
    <3>3. /\ SubSeq(ready, 1, m) \in Seq(Target)
          /\ Len(SubSeq(ready, 1, m)) = IF 1 <= m THEN m - 1 + 1 ELSE 0
          /\ \A i \in 1 .. m - 1 + 1 : SubSeq(ready, 1, m)[i] = ready[1 + i - 1]
      BY <2>10, <3>2, SubSeqProperties
    <3>4. Len(SubSeq(ready, 1, m)) = m /\ \A i \in 1 .. m : SubSeq(ready, 1, m)[i] = ready[i]
      BY <2>10, <3>3
    <3>. QED  BY <2>1, <3>3, <3>4, LenProperties DEF m
  <2>13. ASSUME NEW i \in 1 .. m
         PROVE  /\ Usable(i)' /\ Rank(i)' \in DOMAIN ready'
                /\ ready'[Rank(i)'] = [environment |-> selected[i], ssh |-> selected[i]]
    <3>1. Usable(i) /\ ready[Rank(i)] = [environment |-> selected[i], ssh |-> selected[i]]
      BY <1>1, <2>3 DEF SlotsFit
    <3>2. Rank(i) = i
      BY <2>3
    <3>. QED  BY <1>3, <2>11, <2>12, <3>1, <3>2 DEF Usable
  <2>14. ASSUME NEW i \in Slot \ Good'
         PROVE  \E state \in {"failed", "skipped"} :
                   failures'[i] = [environment |-> selected[i], state |-> state]
    <3>1. CASE i > first
      BY <2>1, <2>6, <3>1
    <3>2. CASE ~ (i > first)
      <4>1. i = first
        BY <1>2, <2>9, <3>2
      <4>2. failures'[i] = failures[i] /\ i \in Slot \ Good
        BY <1>2, <2>1, <2>2, <4>1 DEF Good
      <4>. QED  BY <1>1, <4>2 DEF SlotsFit
    <3>. QED  BY <3>1, <3>2
  <2>15. InFlight' = {}
    BY <1>1, <1>3 DEF SlotsFit, InFlight
  <2>16. ASSUME NEW k \in DOMAIN ready' PROVE \E i \in Good' : Rank(i)' = k
    BY <2>9, <2>11, <2>12
  <2>17. SlotsFit'
    <3>1. Len(ready') = Cardinality(Good')
      BY <2>9, <2>10, <2>12
    <3>. HIDE DEF m
    <3>. QED
      BY <1>3, <2>8, <2>9, <2>12, <2>13, <2>14, <2>15, <2>16, <3>1 DEF SlotsFit
  <2>18. NoneBehind'
    <3>. SUFFICES ASSUME NEW i \in Slot, NEW j \in Slot, i < j, loading[i] = "unavailable"
                  PROVE  j \notin Good'
      BY <1>3 DEF NoneBehind
    <3>1. i \notin 1 .. m
      BY <1>4, <2>3
    <3>. QED  BY <1>2, <2>9, <3>1
  <2>. QED  BY <2>8, <2>17, <2>18
<1>. QED  BY <1>5, <1>6

LEMMA FailFastKeeps == RInv /\ ApplyFailFast => RInv'
<1>. SUFFICES ASSUME RInv, ApplyFailFast PROVE RInv'
  OBVIOUS
<1>1. SlotsFit' /\ NoneBehind' /\ failures' # <<>>
  BY FailFastSorts
<1>2. /\ phase = "failfast" /\ phase' = "dispatch" /\ Consented
      /\ status' = <<>> /\ executed' = <<>> /\ inherited' = None /\ exit' = None
  BY DEF RInv, PhaseFits, ApplyFailFast, Ended, batch, outcome
<1>3. LoadsFit'
  BY <1>2, LoadsRest DEF RInv, LoadsFit, ApplyFailFast, input
<1>4. MayRun'
  BY <1>1, <1>2 DEF MayRun, Consented, ApplyFailFast, input
<1>5. TypeOK'
  BY <1>1, <1>2, <1>3, ReadyBoundAfter DEF RInv, TypeOK, ApplyFailFast, input, batch, outcome
<1>6. PhaseFits'
  BY <1>1, <1>2, <1>4 DEF RInv, PhaseFits, ApplyFailFast, Early, Ended, input, batch, outcome
<1>7. OneResultEach' /\ ZeroIsSuccess'
  BY <1>2, NoneIsNoStatus DEF OneResultEach, ZeroIsSuccess
<1>. QED  BY <1>1, <1>2, <1>3, <1>5, <1>6, <1>7 DEF RInv

-----------------------------------------------------------------------------
(* One inherited child, or the batch.                                      *)

LEMMA InheritedKeeps == RInv /\ RunInherited => RInv'
<1>. SUFFICES ASSUME RInv, RunInherited PROVE RInv'
  OBVIOUS
<1>1. PICK end \in {"exited", "timed_out", "io"}, code \in {-1, 0, 3, 256} :
         /\ inherited' = [end |-> end, code |-> code]
         /\ exit' = CASE end = "exited" -> StatusCode(code)
                      [] end = "timed_out" -> ExitOf("RemoteExecutionFailed")
                      [] OTHER -> ExitOf("Io")
  BY DEF RunInherited
<1>2. /\ phase = "dispatch" /\ phase' = "done" /\ Single
      /\ failures # <<>> /\ status = <<>> /\ executed = <<>> /\ MayRun
      /\ UNCHANGED <<input, answer, prepared, batch, signalCode>>
  BY DEF RunInherited, RInv, PhaseFits
<1>3. exit' \in 0 .. 255 /\ (exit' = 0 => inherited' = [end |-> "exited", code |-> 0])
  <2>1. CASE end = "exited"
    <3>1. exit' = StatusCode(code)
      BY <1>1, <2>1
    <3>2. StatusCode(code) \in 0 .. 255 /\ (StatusCode(code) = 0 => code = 0)
      BY DEF StatusCode
    <3>. QED  BY <1>1, <2>1, <3>1, <3>2
  <2>2. CASE end # "exited"
    <3>1. exit' = 1
      BY <1>1, <2>2 DEF ExitOf
    <3>. QED  BY <3>1
  <2>. QED  BY <2>1, <2>2
<1>4. Quiet
  BY <1>2 DEF Quiet
<1>5. MayRun' /\ Single'
  <2>1. MayRun'
    BY <1>2, MayRunRests DEF input, prepared
  <2>2. Single'
    BY <1>2 DEF Single, input, prepared
  <2>. QED  BY <2>1, <2>2
<1>6. TypeOK'
  BY <1>2, <1>3 DEF RInv, TypeOK, input, prepared, batch
<1>7. PhaseFits'
  <2>1. exit' # None
    BY <1>3, NoneIsNoStatus
  <2>2. failures' # <<>> /\ executed' = <<>>
    BY <1>2 DEF prepared, batch
  <2>3. signalCode' \in {None, SignalExit}
    BY <1>2 DEF RInv, PhaseFits
  <2>. QED  BY <1>2, <1>5, <2>1, <2>2, <2>3 DEF PhaseFits, Early, Ended
<1>8. OneResultEach' /\ ZeroIsSuccess'
  BY <1>2, <1>3 DEF OneResultEach, ZeroIsSuccess
<1>. QED  BY <1>4, <1>6, <1>7, <1>8, QuietKeeps DEF RInv

\* What has been sorted and is not ended has no status yet, and no outcome of
\* a child.
LEMMA NotEnded ==
    ASSUME RInv, phase \in {"dispatch", "batch", "merge", "report"}
    PROVE  /\ failures # <<>> /\ SlotsFit /\ LoadsFit /\ MayRun
           /\ exit = None /\ inherited = None
           /\ Len(ready) \in Nat /\ DOMAIN ready = 1 .. Len(ready)
           /\ ready # <<>> => DOMAIN ready # {}
<1>1. /\ failures # <<>> /\ SlotsFit /\ LoadsFit /\ MayRun
      /\ exit = None /\ inherited = None
  BY DEF RInv, PhaseFits, Ended, MayRun
<1>2. /\ Len(ready) \in Nat /\ DOMAIN ready = 1 .. Len(ready)
      /\ ready # <<>> => DOMAIN ready # {}
  BY <1>1, LenProperties, EmptySeq DEF SlotsFit
<1>. QED  BY <1>1, <1>2

LEMMA DispatchKeeps == RInv /\ Dispatch => RInv'
<1>. SUFFICES ASSUME RInv, Dispatch PROVE RInv'
  OBVIOUS
<1>1. /\ phase = "dispatch" /\ status = <<>> /\ executed = <<>>
      /\ UNCHANGED <<input, answer, prepared, cancelled, executed, outcome>>
  BY DEF Dispatch, RInv, PhaseFits
<1>2. /\ failures # <<>> /\ SlotsFit /\ LoadsFit /\ MayRun
      /\ exit = None /\ inherited = None
      /\ ready # <<>> => DOMAIN ready # {}
  BY <1>1, NotEnded
<1>3. LoadsFit' /\ SlotsFit' /\ MayRun' /\ failures' # <<>>
  <2>1. phase' \in {"batch", "merge"}
    BY DEF Dispatch
  <2>2. LoadsFit'
    BY <1>1, <1>2, <2>1, LoadsRest DEF input, prepared
  <2>3. SlotsFit'
    BY <1>1, <1>2, SlotsRest DEF input, prepared
  <2>4. MayRun'
    BY <1>1, <1>2, MayRunRests DEF input, prepared
  <2>. QED  BY <1>1, <1>2, <2>2, <2>3, <2>4 DEF prepared
<1>4. CASE ready = <<>>
  <2>1. phase' = "merge" /\ status' = <<>> /\ ready' = <<>>
    BY <1>1, <1>4 DEF Dispatch, prepared
  <2>2. TypeOK'
    BY <1>1, <2>1 DEF RInv, TypeOK, input, prepared, outcome
  <2>3. PhaseFits'
    BY <1>1, <1>2, <1>3, <2>1 DEF RInv, PhaseFits, Early, Ended, outcome
  <2>4. OneResultEach' /\ ZeroIsSuccess'
    BY <1>1, <1>2, <2>1, NoneIsNoStatus DEF OneResultEach, ZeroIsSuccess, outcome
  <2>. QED  BY <1>1, <1>3, <2>1, <2>2, <2>3, <2>4 DEF RInv
<1>5. CASE ready # <<>>
  <2>1. /\ phase' = "batch" /\ status' = [k \in DOMAIN ready |-> "queued"]
        /\ ready' = ready
    BY <1>1, <1>5 DEF Dispatch, prepared
  <2>2. DOMAIN status' = DOMAIN ready /\ status' # <<>>
    BY <1>2, <1>5, <2>1
  <2>3. BatchFits'
    <3>1. Batch!Running' = {}
      BY <2>1 DEF Batch!Running
    <3>2. Cardinality({}) <= Jobs
      BY RunAssumption, FS_EmptySet
    <3>. QED  BY <1>5, <2>1, <2>2, <3>1, <3>2 DEF BatchFits
  <2>4. TypeOK'
    BY <1>1, <2>1, <2>2 DEF RInv, TypeOK, input, prepared, outcome
  <2>5. PhaseFits'
    BY <1>1, <1>2, <1>3, <2>1, <2>2 DEF RInv, PhaseFits, Early, Ended, outcome
  <2>6. OneResultEach' /\ ZeroIsSuccess'
    BY <1>1, <1>2, <2>1, NoneIsNoStatus DEF OneResultEach, ZeroIsSuccess, outcome
  <2>. QED  BY <1>1, <1>3, <2>2, <2>3, <2>4, <2>5, <2>6 DEF RInv
<1>. QED  BY <1>4, <1>5

-----------------------------------------------------------------------------
(* In the batch.                                                           *)

\* A step of the batch, or a signal that cancels it.
LEMMA InBatchKeeps ==
    ASSUME RInv, phase = "batch", BatchFits', executed' # <<>> => ExecutedFits',
           UNCHANGED <<phase, input, answer, prepared, outcome>>
    PROVE  RInv'
<1>1. /\ failures # <<>> /\ SlotsFit /\ LoadsFit /\ MayRun
      /\ exit = None /\ inherited = None
      /\ ready # <<>> => DOMAIN ready # {}
  BY NotEnded
<1>2. /\ UNCHANGED <<selected, setting, broad, answer, loading, ssh, ready, failures>>
      /\ phase' = "batch"
  BY DEF input, prepared
<1>3. LoadsFit' /\ SlotsFit' /\ MayRun' /\ failures' # <<>>
  <2>1. LoadsFit'
    BY <1>1, <1>2, LoadsRest
  <2>2. SlotsFit'
    BY <1>1, <1>2, SlotsRest
  <2>3. MayRun'
    BY <1>1, <1>2, MayRunRests
  <2>. QED  BY <1>1, <1>2, <2>1, <2>2, <2>3
<1>4. DOMAIN status' = DOMAIN ready /\ status' # <<>>
  <2>1. DOMAIN status' = DOMAIN ready /\ ready # <<>>
    BY <1>2 DEF BatchFits
  <2>. QED  BY <1>1, <2>1
<1>5. TypeOK'
  BY <1>2, <1>4 DEF RInv, TypeOK, outcome
<1>6. PhaseFits'
  BY <1>1, <1>2, <1>3, <1>4 DEF RInv, PhaseFits, Early, Ended, outcome
<1>7. OneResultEach' /\ ZeroIsSuccess'
  BY <1>1, <1>2, NoneIsNoStatus DEF OneResultEach, ZeroIsSuccess, outcome
<1>. QED  BY <1>3, <1>5, <1>6, <1>7 DEF RInv

\* What the batch is made of while it runs.
LEMMA BatchIs ==
    ASSUME RInv, phase = "batch"
    PROVE  /\ BatchFits
           /\ Batch!Running \in SUBSET DOMAIN ready /\ IsFiniteSet(Batch!Running)
           /\ ready \in Seq(Target)
<1>1. BatchFits /\ SlotsFit
  BY NotEnded DEF RInv, PhaseFits
<1>2. Batch!Running \in SUBSET DOMAIN ready
  BY <1>1 DEF BatchFits, Batch!Running
<1>3. DOMAIN ready = 1 .. Len(ready) /\ Len(ready) \in Nat
  BY <1>1, LenProperties DEF SlotsFit
<1>4. IsFiniteSet(DOMAIN ready)
  BY <1>3, FS_Interval
<1>. QED  BY <1>1, <1>2, <1>4, FS_Subset DEF SlotsFit

LEMMA StartKeeps ==
    ASSUME RInv, RunBatch, NEW k \in DOMAIN ready, Batch!Start(k)
    PROVE  BatchFits' /\ executed' = <<>>
<1>1. /\ phase = "batch" /\ BatchFits /\ Batch!Running \in SUBSET DOMAIN ready
      /\ IsFiniteSet(Batch!Running)
  BY BatchIs DEF RunBatch
<1>2. /\ status' = [status EXCEPT ![k] = "running"]
      /\ status[k] = "queued" /\ Cardinality(Batch!Running) < Jobs
      /\ ready' = ready /\ executed' = executed /\ executed = <<>>
  <2>1. Cardinality(Batch!Running) < Jobs
    <3>1. Batch!Cardinality(Batch!Running) < Jobs
      BY DEF Batch!Start
    <3>2. Batch!Cardinality(Batch!Running) = Cardinality(Batch!Running)
      BY DEF Cardinality, Batch!Cardinality
    <3>. QED  BY <3>1, <3>2
  <2>2. /\ status' = [status EXCEPT ![k] = "running"]
        /\ status[k] = "queued" /\ executed = <<>>
    BY DEF Batch!Start
  <2>3. ready' = ready /\ executed' = executed
    BY DEF Batch!Start
  <2>. QED  BY <2>1, <2>2, <2>3
<1>3. Batch!Running' = Batch!Running \cup {k} /\ k \notin Batch!Running
  <2>1. k \in DOMAIN status /\ DOMAIN status' = DOMAIN status
    BY <1>1, <1>2 DEF BatchFits
  <2>. QED  BY <1>2, <2>1 DEF Batch!Running
<1>4. Cardinality(Batch!Running') <= Jobs
  <2>1. Cardinality(Batch!Running') = Cardinality(Batch!Running) + 1
    BY <1>1, <1>3, FS_AddElement
  <2>2. Cardinality(Batch!Running) \in Nat
    BY <1>1, FS_CardinalityType
  <2>. QED  BY <1>2, <2>1, <2>2, RunAssumption
<1>5. \A j \in DOMAIN status' : status'[j] \in Batch!Outcome \cup {"queued", "running"}
  BY <1>1, <1>2 DEF BatchFits
<1>. QED  BY <1>1, <1>2, <1>4, <1>5 DEF BatchFits, Batch!Outcome

LEMMA FinishKeeps ==
    ASSUME RInv, RunBatch, NEW k \in DOMAIN ready, NEW state \in Batch!Outcome,
           Batch!Finish(k, state)
    PROVE  BatchFits' /\ executed' = <<>>
<1>1. /\ phase = "batch" /\ BatchFits /\ Batch!Running \in SUBSET DOMAIN ready
      /\ IsFiniteSet(Batch!Running)
  BY BatchIs DEF RunBatch
<1>2. /\ status' = [status EXCEPT ![k] = state]
      /\ ready' = ready /\ executed' = executed /\ executed = <<>>
  BY DEF Batch!Finish
<1>3. Batch!Running' \in SUBSET Batch!Running
  <2>1. k \in DOMAIN status /\ DOMAIN status' = DOMAIN status /\ state # "running"
    BY <1>1, <1>2 DEF BatchFits, Batch!Outcome
  <2>. QED  BY <1>2, <2>1 DEF Batch!Running
<1>4. Cardinality(Batch!Running') <= Jobs
  <2>1. /\ Cardinality(Batch!Running') <= Cardinality(Batch!Running)
        /\ IsFiniteSet(Batch!Running')
    BY <1>1, <1>3, FS_Subset
  <2>2. Cardinality(Batch!Running) \in Nat /\ Cardinality(Batch!Running') \in Nat
    BY <1>1, <2>1, FS_CardinalityType
  <2>. QED  BY <1>1, <2>1, <2>2, RunAssumption DEF BatchFits
<1>5. \A j \in DOMAIN status' : status'[j] \in Batch!Outcome \cup {"queued", "running"}
  BY <1>1, <1>2 DEF BatchFits
<1>. QED  BY <1>1, <1>2, <1>4, <1>5 DEF BatchFits, Batch!Outcome

\* The report of the batch, with or without --fail-fast.
LEMMA ReportFits ==
    ASSUME RInv, RunBatch, NEW reason \in {"cancelled", "skipped"},
           FailFastBatch!Report(reason) \/ Batch!Report(reason)
    PROVE  BatchFits' /\ ExecutedFits'
<1>1. phase = "batch" /\ BatchFits /\ ready \in Seq(Target)
  BY BatchIs DEF RunBatch
<1>2. /\ Batch!Running = {} /\ ready' = ready /\ status' = status
      /\ executed' = [k \in DOMAIN ready |->
                        [target |-> ready[k],
                         state  |-> IF status[k] = "queued" THEN reason ELSE status[k]]]
  BY DEF FailFastBatch!Report, Batch!Report, FailFastBatch!Running, Batch!Running
<1>3. BatchFits'
  BY <1>1, <1>2, BatchRests
<1>4. DOMAIN ready = 1 .. Len(ready) /\ Len(ready) \in Nat
  BY <1>1, LenProperties
<1>5. ASSUME NEW k \in DOMAIN ready
      PROVE  /\ executed'[k] \in Result
             /\ executed'[k].target = ready[k]
             /\ executed'[k].state = "succeeded" <=> status[k] = "succeeded"
  <2>1. ready[k] \in Target
    BY <1>1, <1>4, ElementOfSeq
  <2>2. status[k] \in Batch!Outcome \cup {"queued"}
    BY <1>1, <1>2 DEF BatchFits, Batch!Running
  <2>3. executed'[k] = [target |-> ready[k],
                        state |-> IF status[k] = "queued" THEN reason ELSE status[k]]
    BY <1>2
  <2>4. CASE status[k] = "queued"
    BY <2>1, <2>3, <2>4 DEF Result, Batch!Outcome
  <2>5. CASE status[k] # "queued"
    BY <2>1, <2>2, <2>3, <2>5 DEF Result, Batch!Outcome
  <2>. QED  BY <2>4, <2>5
<1>6. executed' \in Seq(Result) /\ Len(executed') = Len(ready)
  <2>1. executed' \in [1 .. Len(ready) -> Result]
    BY <1>2, <1>4, <1>5
  <2>2. executed' \in Seq(Result)
    BY <1>4, <2>1, SeqDef
  <2>3. DOMAIN executed' = 1 .. Len(executed') /\ Len(executed') \in Nat
    BY <2>2, LenProperties
  <2>4. Len(executed') = Len(ready)
    BY <1>2, <1>4, <2>3
  <2>. QED  BY <2>2, <2>4
<1>. QED  BY <1>2, <1>3, <1>5, <1>6 DEF ExecutedFits

LEMMA RunBatchKeeps == RInv /\ RunBatch => RInv'
<1>. SUFFICES ASSUME RInv, RunBatch PROVE RInv'
  OBVIOUS
<1>1. CASE \E k \in DOMAIN ready : Batch!Start(k)
  <2>1. ready' = ready
    BY <1>1 DEF Batch!Start
  <2>. QED  BY <1>1, <2>1, StartKeeps, InBatchKeeps DEF RunBatch, prepared
<1>2. CASE \E k \in DOMAIN ready : \E state \in Batch!Outcome : Batch!Finish(k, state)
  <2>1. ready' = ready
    BY <1>2 DEF Batch!Finish
  <2>. QED  BY <1>2, <2>1, FinishKeeps, InBatchKeeps DEF RunBatch, prepared
<1>3. CASE \E reason \in {"cancelled", "skipped"} :
              FailFastBatch!Report(reason) \/ Batch!Report(reason)
  <2>1. ready' = ready
    BY <1>3 DEF Batch!Report, FailFastBatch!Report
  <2>. QED  BY <1>3, <2>1, ReportFits, InBatchKeeps DEF RunBatch, prepared
<1>. QED  BY <1>1, <1>2, <1>3 DEF RunBatch

\* A signal cancels the batch, or ends the process.
LEMMA SignalInBatchKeeps == RInv /\ SignalInBatch => RInv'
<1>. SUFFICES ASSUME RInv, SignalInBatch PROVE RInv'
  OBVIOUS
<1>1. phase = "batch" /\ BatchFits
  BY BatchIs DEF SignalInBatch
<1>2. CASE ~ cancelled
  <2>1. UNCHANGED <<phase, input, answer, prepared, outcome>>
    BY <1>2 DEF SignalInBatch, outcome
  <2>2. UNCHANGED <<ready, status, executed>>
    BY <1>2 DEF SignalInBatch, Batch!Cancel
  <2>3. BatchFits' /\ (executed' # <<>> => ExecutedFits')
    BY <1>1, <2>2, BatchRests, ExecutedRests DEF RInv
  <2>. QED  BY <1>1, <2>1, <2>3, InBatchKeeps
<1>3. CASE cancelled
  BY <1>1, <1>3, SignalKeeps DEF SignalInBatch, EndsWith, Ended
<1>. QED  BY <1>2, <1>3

LEMMA OtherSignalsKeep == RInv /\ (SignalBeforeBatch \/ SignalAfterBatch) => RInv'
BY SignalKeeps DEF SignalBeforeBatch, SignalAfterBatch, EndsWith, Ended

\* The batch is left with its results.
LEMMA LeaveKeeps == RInv /\ LeaveBatch => RInv'
<1>. SUFFICES ASSUME RInv, LeaveBatch PROVE RInv'
  OBVIOUS
<1>1. phase = "batch" /\ executed # <<>> /\ status # <<>> /\ ready # <<>>
  BY BatchIs DEF LeaveBatch, RInv, PhaseFits, BatchFits
<1>2. /\ failures # <<>> /\ MayRun /\ exit = None /\ inherited = None
  BY <1>1, NotEnded
<1>3. Quiet
  BY <1>1 DEF Quiet, LeaveBatch
<1>4. /\ phase' = "merge" /\ UNCHANGED <<input, answer, prepared, batch, inherited, results, exit>>
      /\ signalCode' \in {None, SignalExit}
  BY DEF LeaveBatch
<1>5. MayRun'
  BY <1>2, <1>4, MayRunRests DEF input, prepared
<1>6. TypeOK'
  BY <1>4 DEF RInv, TypeOK, input, prepared, batch
<1>7. PhaseFits'
  BY <1>1, <1>2, <1>4, <1>5 DEF PhaseFits, Early, Ended, prepared, batch
<1>8. OneResultEach' /\ ZeroIsSuccess'
  BY <1>2, <1>4, NoneIsNoStatus DEF OneResultEach, ZeroIsSuccess
<1>. QED  BY <1>3, <1>6, <1>7, <1>8, QuietKeeps DEF RInv

-----------------------------------------------------------------------------
(* The report.                                                             *)

\* The command ran well in a selected environment when its slot has no failure
\* and the result at its rank is a success.
LEMMA RanWellAtRank ==
    ASSUME RInv, phase = "merge"
    PROVE  /\ \A i \in Good : Ran(i)
           /\ \A i \in Slot : RanWell(selected[i]) <=>
                 i \in Good /\ executed[Rank(i)].state = "succeeded"
           /\ \A i \in Good : executed[Rank(i)].target.environment = selected[i]
<1>1. /\ SlotsFit /\ LoadsFit
      /\ Len(ready) \in Nat /\ DOMAIN ready = 1 .. Len(ready)
      /\ ready # <<>> => DOMAIN ready # {}
  BY NotEnded
<1>2. DOMAIN status = DOMAIN ready /\ Len(executed) = Len(ready)
      /\ \A k \in DOMAIN ready :
            /\ executed[k].target = ready[k]
            /\ executed[k].state = "succeeded" <=> status[k] = "succeeded"
  <2>1. CASE ready = <<>>
    <3>1. status = <<>> /\ executed = <<>>
      BY <2>1 DEF RInv, PhaseFits
    <3>2. DOMAIN ready = {}
      BY <2>1
    <3>. QED  BY <2>1, <3>1, <3>2
  <2>2. CASE ready # <<>>
    <3>1. BatchFits /\ ExecutedFits
      BY <2>2 DEF RInv, PhaseFits
    <3>. QED  BY <3>1 DEF BatchFits, ExecutedFits
  <2>. QED  BY <2>1, <2>2
<1>3. \A i \in Good : Rank(i) \in DOMAIN ready
  BY <1>1 DEF SlotsFit
<1>4. ASSUME NEW i \in Good PROVE ready[Rank(i)].environment = selected[i]
  <2>1. ready[Rank(i)] = [environment |-> selected[i], ssh |-> selected[i]]
    BY <1>1 DEF SlotsFit
  <2>. QED  BY <2>1
<1>5. ASSUME NEW i \in Good PROVE Ran(i)
  <2>1. Rank(i) \in 1 .. Len(ready) /\ Len(executed) = Len(ready)
    BY <1>1, <1>2, <1>3
  <2>2. Rank(i) <= Len(executed)
    BY <1>1, <2>1
  <2>. QED  BY <2>2 DEF Ran, Good
<1>6. ASSUME NEW i \in Good PROVE executed[Rank(i)].target.environment = selected[i]
  <2>1. executed[Rank(i)].target = ready[Rank(i)]
    BY <1>2, <1>3
  <2>2. ready[Rank(i)].environment = selected[i]
    BY <1>4
  <2>. QED  BY <2>1, <2>2
<1>7. ASSUME NEW i \in Good, executed[Rank(i)].state = "succeeded"
      PROVE  RanWell(selected[i])
  <2>1. Rank(i) \in DOMAIN status /\ status[Rank(i)] = "succeeded"
    BY <1>2, <1>3, <1>7
  <2>2. ready[Rank(i)].environment = selected[i]
    BY <1>4
  <2>. QED  BY <2>1, <2>2 DEF RanWell
<1>8. ASSUME NEW i \in Slot, RanWell(selected[i])
      PROVE  i \in Good /\ executed[Rank(i)].state = "succeeded"
  <2>1. PICK k \in DOMAIN ready : ready[k].environment = selected[i]
                                  /\ status[k] = "succeeded"
    BY <1>2, <1>8 DEF RanWell
  <2>2. PICK j \in Good : Rank(j) = k
    BY <1>1 DEF SlotsFit
  <2>3. ready[k].environment = selected[j] /\ j \in Slot
    <3>1. ready[Rank(j)].environment = selected[j]
      BY <1>4
    <3>. QED  BY <2>2, <3>1 DEF Good
  <2>4. i = j
    BY <1>1, <2>1, <2>3, SelectionShape DEF LoadsFit
  <2>. QED  BY <1>2, <2>1, <2>2, <2>4
<1>. QED  BY <1>5, <1>6, <1>7, <1>8

\* Every slot is filled, so the results stand in the order of the slots.
LEMMA MergeTells ==
    RInv /\ Merge =>
        /\ results' = [i \in Slot |-> Merged(i)]
        /\ \A i \in Slot :
              /\ Merged(i).environment = selected[i]
              /\ (Merged(i).state = "succeeded") <=> RanWell(selected[i])
<1>. SUFFICES ASSUME RInv, Merge
              PROVE  /\ results' = [i \in Slot |-> Merged(i)]
                     /\ \A i \in Slot :
                           /\ Merged(i).environment = selected[i]
                           /\ (Merged(i).state = "succeeded") <=> RanWell(selected[i])
  OBVIOUS
<1>1. phase = "merge" /\ SlotsFit /\ LoadsFit
  BY NotEnded DEF Merge
<1>2. \A i \in Good : Ran(i)
  BY <1>1, RanWellAtRank
<1>. DEFINE n == Len(selected)
<1>3. n \in Nat /\ Slot = 1 .. n
  BY <1>1, SelectionShape DEF LoadsFit
<1>4. {i \in DOMAIN failures : failures[i] # None \/ Ran(i)} = 1 .. n
  BY <1>1, <1>2, <1>3 DEF SlotsFit, Good
<1>5. results' = [k \in DOMAIN InOrder(1 .. n) |-> Merged(InOrder(1 .. n)[k])]
  BY <1>4 DEF Merge
<1>6. DOMAIN InOrder(1 .. n) = 1 .. n /\ \A k \in 1 .. n : InOrder(1 .. n)[k] = k
  <2>. HIDE DEF n
  <2>1. 1 .. n \in SUBSET Nat /\ IsFiniteSet(1 .. n) /\ Cardinality(1 .. n) = n
    BY <1>3, FS_Interval, AllInOrder
  <2>2. InOrder(1 .. n) \in [1 .. n -> 1 .. n]
    BY <2>1, InOrderFits
  <2>. QED  BY <1>3, <2>2, AllInOrder
<1>7. results' = [i \in Slot |-> Merged(i)]
  <2>. HIDE DEF n
  <2>. QED  BY <1>3, <1>5, <1>6
<1>8. ASSUME NEW i \in Slot
      PROVE  /\ Merged(i).environment = selected[i]
             /\ (Merged(i).state = "succeeded") <=> RanWell(selected[i])
  <2>1. CASE i \in Good
    <3>1. Merged(i) = [environment |-> executed[Rank(i)].target.environment,
                       state |-> executed[Rank(i)].state]
      BY <2>1 DEF Merged, Good
    <3>. QED  BY <1>1, <2>1, <3>1, RanWellAtRank
  <2>2. CASE i \notin Good
    <3>1. Merged(i) = failures[i]
      BY <2>2 DEF Merged, Good
    <3>2. PICK state \in {"failed", "skipped"} :
             failures[i] = [environment |-> selected[i], state |-> state]
      BY <1>1, <2>2 DEF SlotsFit
    <3>3. ~ RanWell(selected[i])
      BY <1>1, <2>2, RanWellAtRank
    <3>. QED  BY <3>1, <3>2, <3>3
  <2>. QED  BY <2>1, <2>2
<1>. QED  BY <1>7, <1>8

LEMMA MergeKeeps == RInv /\ Merge => RInv'
<1>. SUFFICES ASSUME RInv, Merge PROVE RInv'
  OBVIOUS
<1>1. /\ phase = "merge" /\ phase' = "report"
      /\ UNCHANGED <<input, answer, prepared, batch, inherited, signalCode, exit>>
  BY DEF Merge
<1>2. /\ failures # <<>> /\ MayRun /\ LoadsFit /\ exit = None /\ inherited = None
  BY <1>1, NotEnded
<1>3. Quiet
  BY <1>1 DEF Quiet
<1>4. Slot' = Slot /\ DOMAIN results' = Slot
  BY <1>1, MergeTells DEF Slot, input
<1>5. MayRun'
  BY <1>1, <1>2, MayRunRests DEF input, prepared
<1>6. TypeOK'
  BY <1>1 DEF RInv, TypeOK, input, prepared, batch
<1>7. PhaseFits'
  BY <1>1, <1>2, <1>4, <1>5 DEF RInv, PhaseFits, Early, Ended, prepared, batch
<1>8. OneResultEach'
  <2>1. /\ selected' = selected /\ ready' = ready /\ status' = status
    BY <1>1 DEF input, prepared, batch
  <2>2. \A i \in Slot : RanWell(selected[i])' <=> RanWell(selected[i])
    BY <2>1 DEF RanWell
  <2>3. Len(results') = Len(selected)
    <3>1. Len(selected) \in Nat /\ Slot = 1 .. Len(selected)
      BY <1>2, SelectionShape DEF LoadsFit
    <3>2. results' \in [1 .. Len(selected) -> {Merged(i) : i \in Slot}]
      BY <3>1, MergeTells
    <3>3. results' \in Seq({Merged(i) : i \in Slot})
      BY <3>1, <3>2, SeqDef
    <3>4. DOMAIN results' = 1 .. Len(results') /\ Len(results') \in Nat
      BY <3>3, LenProperties
    <3>. QED  BY <1>4, <3>1, <3>4
  <2>4. ASSUME NEW i \in DOMAIN results'
        PROVE  /\ results'[i].environment = selected[i]
               /\ (results'[i].state = "succeeded") = RanWell(selected[i])'
    <3>1. i \in Slot /\ results'[i] = Merged(i)
      BY <1>4, MergeTells
    <3>2. results'[i].environment = selected[i]
      BY <3>1, MergeTells
    <3>3. (results'[i].state = "succeeded") <=> RanWell(selected[i])'
      BY <2>2, <3>1, MergeTells
    <3>4. RanWell(selected[i])' \in BOOLEAN
      BY DEF RanWell
    <3>. QED  BY <3>2, <3>3, <3>4
  <2>. QED  BY <2>1, <2>3, <2>4 DEF OneResultEach
<1>9. ZeroIsSuccess'
  BY <1>1, <1>2, NoneIsNoStatus DEF ZeroIsSuccess
<1>. QED  BY <1>3, <1>6, <1>7, <1>8, <1>9, QuietKeeps DEF RInv

LEMMA ReportKeeps == RInv /\ Report => RInv'
<1>. SUFFICES ASSUME RInv, Report PROVE RInv'
  OBVIOUS
<1>1. /\ phase = "report" /\ phase' = "done"
      /\ UNCHANGED <<input, answer, prepared, batch, inherited, signalCode, results>>
  BY DEF Report
<1>2. signalCode \in {None, SignalExit} /\ DOMAIN results = Slot
  BY <1>1 DEF RInv, PhaseFits
<1>3. CASE exit' = ExitOf("Io")
  <2>1. exit' = 1
    BY <1>3 DEF ExitOf
  <2>2. EndsWith(1)
    BY <1>1, <2>1 DEF EndsWith, Ended
  <2>. QED  BY <1>1, <2>2, EndKeeps DEF Ended
<1>4. CASE Succeeded /\ exit' = 0
  <2>1. EndsWith(0)
    BY <1>1, <1>4 DEF EndsWith, Ended
  <2>2. \A i \in Slot : RanWell(selected[i])
    BY <1>1, <1>2, <1>4 DEF RInv, OneResultEach, Succeeded
  <2>. QED  BY <1>1, <2>1, <2>2, EndKeeps DEF Ended
<1>5. CASE ~ Succeeded /\ exit' \in {1, SignalExit}
  <2>1. exit' \in 0 .. 255 /\ exit' # 0
    BY <1>5 DEF SignalExit
  <2>2. PICK c \in 0 .. 255 : c = exit'
    BY <2>1
  <2>3. EndsWith(c) /\ c # 0
    BY <1>1, <2>1, <2>2 DEF EndsWith, Ended
  <2>. QED  BY <1>1, <2>3, EndKeeps DEF Ended
<1>. QED  BY <1>2, <1>3, <1>4, <1>5 DEF Report

-----------------------------------------------------------------------------
(* Every step keeps the invariant.                                         *)

LEMMA Initially == Init => RInv
<1>. SUFFICES ASSUME Init PROVE RInv
  OBVIOUS
<1>1. selected \in Selections /\ setting \in Settings /\ broad \in BOOLEAN
  BY DEF Init
<1>2. Len(selected) \in Nat \ {0} /\ {setting.failFast, setting.yes, setting.interactive}
                                        \subseteq BOOLEAN
  BY <1>1, SelectionShape
<1>3. InFlight = {} /\ Cardinality({}) <= Jobs
  BY RunAssumption, FS_EmptySet DEF Init, InFlight
<1>4. LoadsFit
  BY <1>1, <1>3 DEF Init, LoadsFit, Slot, Usable
<1>5. TypeOK
  <2>1. Len(ready) = 0 /\ DOMAIN status = {} /\ DOMAIN ready = {}
    BY DEF Init
  <2>. QED  BY <1>2, <2>1 DEF Init, TypeOK
<1>6. PhaseFits
  BY DEF Init, PhaseFits, Early, Ended
<1>7. OneResultEach /\ ZeroIsSuccess
  BY NoneIsNoStatus DEF Init, OneResultEach, ZeroIsSuccess
<1>. QED  BY <1>4, <1>5, <1>6, <1>7 DEF Init, RInv

LEMMA Keeps == RInv /\ [Next]_vars => RInv'
<1>. SUFFICES ASSUME RInv, [Next]_vars PROVE RInv'
  OBVIOUS
<1>1. CASE Validate \/ Resolve \/ Confirm \/ CheckAvailable
  BY <1>1, PreludeKeeps
<1>2. CASE Load \/ Split \/ ApplyFailFast
  BY <1>2, LoadKeeps, SplitKeeps, FailFastKeeps
<1>3. CASE RunInherited \/ Dispatch \/ RunBatch \/ LeaveBatch
  BY <1>3, InheritedKeeps, DispatchKeeps, RunBatchKeeps, LeaveKeeps
<1>4. CASE Merge \/ Report
  BY <1>4, MergeKeeps, ReportKeeps
<1>5. CASE SignalBeforeBatch \/ SignalInBatch \/ SignalAfterBatch
  BY <1>5, SignalInBatchKeeps, OtherSignalsKeep
<1>6. CASE UNCHANGED vars
  <2>. USE <1>6 DEF vars, input, prepared, batch, outcome
  <2>1. LoadsFit'
    BY LoadsRest DEF RInv, LoadsFit
  <2>2. failures' # <<>> => SlotsFit'
    BY SlotsRest DEF RInv
  <2>3. (status' # <<>> => MayRun' /\ BatchFits') /\ (executed' # <<>> => ExecutedFits')
    BY MayRunRests, BatchRests, ExecutedRests DEF RInv
  <2>4. TypeOK'
    BY DEF RInv, TypeOK
  <2>5. PhaseFits'
    <3>1. MayRun => MayRun'
      BY MayRunRests
    <3>. QED  BY <3>1 DEF RInv, PhaseFits, Consented, Single, Slot
  <2>6. OneResultEach' /\ ZeroIsSuccess'
    BY DEF RInv, OneResultEach, ZeroIsSuccess, RanWell
  <2>. QED  BY <2>1, <2>2, <2>3, <2>4, <2>5, <2>6 DEF RInv
<1>. QED  BY <1>1, <1>2, <1>3, <1>4, <1>5, <1>6 DEF Next, Command

LEMMA Invariance == Spec => []RInv
BY Initially, Keeps, PTL DEF Spec

-----------------------------------------------------------------------------
(* What the invariant says.                                                *)

LEMMA Reached == RInv => ReachedWhereSelected
<1>. SUFFICES ASSUME RInv, failures # <<>> PROVE ReachedWhereSelected
  BY DEF RInv, PhaseFits, ReachedWhereSelected
<1>1. SlotsFit /\ LoadsFit
  BY DEF RInv
<1>2. ASSUME NEW k \in DOMAIN ready
      PROVE  /\ \E i \in DOMAIN selected : ready[k].environment = selected[i]
             /\ ready[k].ssh = ready[k].environment
  <2>1. PICK i \in Good : Rank(i) = k
    BY <1>1 DEF SlotsFit
  <2>2. ready[Rank(i)] = [environment |-> selected[i], ssh |-> selected[i]]
    BY <1>1 DEF SlotsFit
  <2>3. ready[k] = [environment |-> selected[i], ssh |-> selected[i]]
    BY <2>1, <2>2
  <2>. QED  BY <2>3 DEF Good, Slot
<1>3. ASSUME inherited # None PROVE <<ready[1].environment>> = selected
  <2>1. Len(ready) = 1 /\ Good = Slot
    BY <1>1, <1>3 DEF RInv, PhaseFits, Single, SlotsFit, Good
  <2>2. Len(selected) \in Nat /\ Slot = 1 .. Len(selected)
    BY <1>1, SelectionShape DEF LoadsFit
  <2>3. Len(selected) = 1
    <3>1. Cardinality(1 .. Len(selected)) = Len(selected)
      BY <2>2, AllInOrder
    <3>. QED  BY <1>1, <2>1, <2>2, <3>1 DEF SlotsFit
  <2>4. 1 \in DOMAIN ready
    BY <1>1, <2>1, LenProperties DEF SlotsFit
  <2>5. ready[1].environment = selected[1]
    BY <1>2, <2>2, <2>3, <2>4 DEF Slot
  <2>6. selected \in Seq(Environment)
    BY <1>1, RunAssumption DEF LoadsFit
  <2>. QED  BY <2>3, <2>5, <2>6
<1>. QED  BY <1>2, <1>3 DEF ReachedWhereSelected

LEMMA Confirmed == RInv => NothingUnconfirmed
<1>. SUFFICES ASSUME RInv, (\E k \in DOMAIN ready : Attempted(k)) \/ inherited # None
              PROVE  ~ broad \/ setting.yes \/ answer = "yes"
  BY DEF NothingUnconfirmed
<1>1. MayRun
  BY DEF RInv, PhaseFits, Attempted
<1>. QED  BY <1>1 DEF MayRun, Consented

LEMMA StopsLater == RInv => FailFastStopsLater
<1>. SUFFICES ASSUME RInv, setting.failFast,
                     NEW i \in DOMAIN selected, NEW j \in DOMAIN selected,
                     i < j, loading[i] = "unavailable",
                     NEW k \in DOMAIN ready, ready[k].environment = selected[j], Attempted(k)
              PROVE  FALSE
  BY DEF FailFastStopsLater
<1>1. MayRun /\ SlotsFit /\ LoadsFit
  BY DEF RInv, Attempted, MayRun
<1>2. j \notin Good
  BY <1>1 DEF MayRun, NoneBehind, Slot
<1>3. PICK g \in Good : Rank(g) = k
  BY <1>1 DEF SlotsFit
<1>4. ready[Rank(g)] = [environment |-> selected[g], ssh |-> selected[g]]
  BY <1>1 DEF SlotsFit
<1>5. selected[g] = selected[j] /\ g \in Slot /\ j \in Slot
  BY <1>3, <1>4 DEF Good, Slot
<1>6. g = j
  BY <1>1, <1>5, SelectionShape DEF LoadsFit
<1>. QED  BY <1>2, <1>6

LEMMA WithinJobs == RInv => JobsBound
<1>. SUFFICES ASSUME RInv PROVE JobsBound
  OBVIOUS
<1>1. Cardinality({}) = 0
  BY FS_EmptySet
<1>2. CASE status = <<>>
  <2>1. {k \in DOMAIN status : status[k] = "running"} = {}
    BY <1>2
  <2>2. Cardinality(InFlight) \in Nat /\ Cardinality(InFlight) <= Jobs
    BY InFlightFinite, FS_CardinalityType DEF RInv, LoadsFit
  <2>3. Cardinality({k \in DOMAIN status : status[k] = "running"}) = 0
    BY <1>1, <2>1
  <2>4. Jobs \in Nat
    BY RunAssumption
  <2>. QED  BY <2>2, <2>3, <2>4 DEF JobsBound
<1>3. CASE status # <<>>
  <2>1. InFlight = {} /\ Cardinality(Batch!Running) <= Jobs
    BY <1>3 DEF RInv, MayRun, SlotsFit, BatchFits
  <2>2. DOMAIN ready = 1 .. Len(ready) /\ Len(ready) \in Nat
        /\ DOMAIN status = DOMAIN ready
    BY <1>3, LenProperties DEF RInv, MayRun, SlotsFit, BatchFits
  <2>3. Batch!Running \in SUBSET DOMAIN ready /\ IsFiniteSet(DOMAIN ready)
    BY <2>2, FS_Interval DEF Batch!Running
  <2>4. Cardinality(Batch!Running) \in Nat
    BY <2>3, FS_Subset, FS_CardinalityType
  <2>5. {k \in DOMAIN status : status[k] = "running"} = Batch!Running
    BY DEF Batch!Running
  <2>. QED  BY <1>1, <2>1, <2>4, <2>5 DEF JobsBound
<1>. QED  BY <1>2, <1>3

-----------------------------------------------------------------------------
(* The theorems.                                                           *)

\* The report has one result for each selected environment, in the order of the
\* selection and under its own name, and it is a success exactly when the
\* command succeeded there: merge_results puts what ran back into the slots it
\* was taken from.
THEOREM ReportsAreTrue == Spec => []OneResultEach
BY Invariance, PTL DEF RInv

\* The command is started only in the selected environments, at their own
\* coordinates, after a confirmation where one is needed, with --fail-fast not
\* behind an environment that could not be loaded, and with --jobs children and
\* requests at a time.
THEOREM RunsOnlyWhereItMay == Spec => []StartedOnlyWhereItMay
<1>1. RInv => StartedOnlyWhereItMay
  BY Reached, Confirmed, StopsLater, WithinJobs DEF StartedOnlyWhereItMay, RInv
<1>. QED  BY <1>1, Invariance, PTL

\* hb ssh run exits with status 0 only if the command ran in every selected
\* environment and each run was a success.
THEOREM ZeroMeansSuccess == Spec => []ZeroIsSuccess
BY Invariance, PTL DEF RInv
-----------------------------------------------------------------------------
(* Selection.  Sets in an order, by what comes before.                     *)

\* The same, under the name Selection has it.
LEMMA Counts == \A S : Selecting!Cardinality(S) = Cardinality(S)
BY DEF Selecting!Cardinality, Cardinality

OneToOne(f, S, T) ==
    /\ f \in [S -> T]
    /\ \A x, y \in S : f[x] = f[y] => x = y
    /\ \A z \in T : \E x \in S : f[x] = z

LEMMA AsMany ==
    ASSUME NEW S, NEW T, NEW f, OneToOne(f, S, T), IsFiniteSet(S)
    PROVE  IsFiniteSet(T) /\ Cardinality(T) = Cardinality(S)
<1>1. f \in Bijection(S, T)
  BY DEF OneToOne, Bijection, Injection, Surjection, IsInjective
<1>. QED  BY <1>1, FS_Bijection DEF ExistsBijection

\* A strict order in which any two are told apart.
Orders(before, S) ==
    /\ \A x \in S : <<x, x>> \notin before
    /\ \A x, y, z \in S : <<x, y>> \in before /\ <<y, z>> \in before => <<x, z>> \in before
    /\ \A x, y \in S : x # y => <<x, y>> \in before \/ <<y, x>> \in before

Below(x, S, before) == {y \in S : <<y, x>> \in before}

\* How many come before tells the members of a finite set apart, and there is
\* one for every number: the order is a list of the set.
LEMMA OrderIs ==
    ASSUME NEW S, NEW before, IsFiniteSet(S), Orders(before, S)
    PROVE  LET s == Selecting!InOrder(S, before)
               n == Cardinality(S)
           IN  /\ n \in Nat
               /\ OneToOne(s, 1 .. n, S)
               /\ \A k \in 1 .. n : Cardinality(Below(s[k], S, before)) = k - 1
               /\ \A x, y \in S : Cardinality(Below(x, S, before)) =
                                  Cardinality(Below(y, S, before)) => x = y
<1>. DEFINE n == Cardinality(S)
            B(x) == Below(x, S, before)
            rank == [x \in S |-> Cardinality(B(x)) + 1]
<1>1. n \in Nat
  BY FS_CardinalityType
<1>2. ASSUME NEW x \in S
      PROVE  IsFiniteSet(B(x)) /\ Cardinality(B(x)) \in Nat /\ Cardinality(B(x)) < n
  <2>1. B(x) \in SUBSET S /\ B(x) # S
    BY DEF Below, Orders
  <2>2. IsFiniteSet(B(x)) /\ Cardinality(B(x)) <= n /\ Cardinality(B(x)) # n
    BY <2>1, FS_Subset
  <2>. QED  BY <1>1, <2>2, FS_CardinalityType
<1>3. ASSUME NEW x \in S, NEW y \in S, <<x, y>> \in before
      PROVE  Cardinality(B(x)) < Cardinality(B(y))
  <2>1. B(x) \in SUBSET B(y) /\ B(x) # B(y)
    <3>1. x \in B(y) /\ x \notin B(x)
      BY <1>3 DEF Below, Orders
    <3>2. \A z \in B(x) : z \in B(y)
      BY <1>3 DEF Below, Orders
    <3>. QED  BY <3>1, <3>2
  <2>2. Cardinality(B(x)) <= Cardinality(B(y)) /\ Cardinality(B(x)) # Cardinality(B(y))
    BY <2>1, <1>2, FS_Subset
  <2>. QED  BY <1>2, <2>2
<1>4. \A x, y \in S : Cardinality(B(x)) = Cardinality(B(y)) => x = y
  <2>. SUFFICES ASSUME NEW x \in S, NEW y \in S, Cardinality(B(x)) = Cardinality(B(y)), x # y
                PROVE  FALSE
    OBVIOUS
  <2>1. <<x, y>> \in before \/ <<y, x>> \in before
    BY DEF Orders
  <2>2. Cardinality(B(x)) \in Nat /\ Cardinality(B(y)) \in Nat
    BY <1>2
  <2>3. Cardinality(B(x)) < Cardinality(B(y)) \/ Cardinality(B(y)) < Cardinality(B(x))
    BY <1>3, <2>1
  <2>. QED  BY <2>2, <2>3
<1>. HIDE DEF B
<1>5. rank \in Injection(S, 1 .. n)
  <2>1. \A x \in S : rank[x] \in 1 .. n
    BY <1>1, <1>2
  <2>2. \A x, y \in S : rank[x] = rank[y] => x = y
    <3>1. \A x \in S : Cardinality(B(x)) \in Nat /\ rank[x] = Cardinality(B(x)) + 1
      BY <1>2
    <3>. HIDE DEF rank
    <3>. QED  BY <1>4, <3>1
  <2>3. rank \in [S -> 1 .. n]
    BY <2>1
  <2>. HIDE DEF rank
  <2>. QED  BY <2>2, <2>3 DEF Injection, IsInjective
<1>6. \A k \in 1 .. n : \E x \in S : rank[x] = k
  <2>1. IsFiniteSet(1 .. n) /\ Cardinality(1 .. n) = n
    BY <1>1, FS_Interval
  <2>. HIDE DEF rank
  <2>2. rank \in Surjection(S, 1 .. n)
    BY <1>5, <2>1, FS_Injection
  <2>. QED  BY <2>2 DEF Surjection
<1>. DEFINE s == Selecting!InOrder(S, before)
<1>7. /\ DOMAIN s = 1 .. n
      /\ s = [k \in 1 .. n |-> s[k]]
      /\ \A k \in 1 .. n : (\E x \in S : Cardinality({y \in S : <<y, x>> \in before}) = k - 1) =>
            s[k] \in S /\ Cardinality({y \in S : <<y, s[k]>> \in before}) = k - 1
  <2>1. DOMAIN s = 1 .. n
    BY Counts DEF Selecting!InOrder
  <2>2. s = [k \in 1 .. n |-> s[k]]
    <3>. DEFINE e(k) == CHOOSE x \in S : Selecting!Cardinality({y \in S : <<y, x>> \in before}) = k - 1
    <3>1. s = [k \in 1 .. Selecting!Cardinality(S) |-> e(k)]
      BY DEF Selecting!InOrder
    <3>2. Selecting!Cardinality(S) = n
      BY Counts
    <3>. HIDE DEF e, s
    <3>. QED  BY <3>1, <3>2
  <2>3. ASSUME NEW k \in 1 .. n, NEW x \in S, Cardinality({y \in S : <<y, x>> \in before}) = k - 1
        PROVE  s[k] \in S /\ Cardinality({y \in S : <<y, s[k]>> \in before}) = k - 1
    <3>. HIDE DEF B, rank
    <3>. QED  BY <2>3, Counts DEF Selecting!InOrder
  <2>. HIDE DEF s
  <2>. QED  BY <2>1, <2>2, <2>3
<1>8. ASSUME NEW k \in 1 .. n
      PROVE  s[k] \in S /\ Cardinality(B(s[k])) = k - 1
  <2>1. PICK x \in S : Cardinality(B(x)) = k - 1
    <3>1. PICK x \in S : rank[x] = k
      BY <1>6
    <3>2. Cardinality(B(x)) \in Nat /\ rank[x] = Cardinality(B(x)) + 1
      BY <1>2
    <3>. QED  BY <3>1, <3>2
  <2>2. \A z \in S : B(z) = {y \in S : <<y, z>> \in before}
    BY DEF B, Below
  <2>. HIDE DEF s
  <2>. QED  BY <1>7, <2>1, <2>2
<1>. HIDE DEF s, n, rank
<1>10. OneToOne(s, 1 .. n, S)
  <2>1. s \in [1 .. n -> S]
    <3>1. \A k \in 1 .. n : s[k] \in S
      BY <1>8
    <3>. QED  BY <1>7, <3>1, Zenon
  <2>2. ASSUME NEW j \in 1 .. n, NEW k \in 1 .. n, s[j] = s[k] PROVE j = k
    <3>1. j \in Int /\ k \in Int /\ j - 1 = k - 1
      BY <1>1, <1>8, <2>2
    <3>. QED  BY <3>1
  <2>3. ASSUME NEW z \in S PROVE \E k \in 1 .. n : s[k] = z
    <3>1. PICK k \in 1 .. n : k = Cardinality(B(z)) + 1
      BY <1>1, <1>2 DEF n
    <3>2. Cardinality(B(s[k])) = Cardinality(B(z)) /\ s[k] \in S
      BY <1>2, <1>8, <3>1
    <3>. QED  BY <1>4, <3>2
  <2>. QED  BY <2>1, <2>2, <2>3 DEF OneToOne
<1>. QED  BY <1>1, <1>4, <1>8, <1>10 DEF B, s, n

\* Comparing one part after another is a strict order.
LEMMA LessOrders ==
    ASSUME NEW n \in Nat, NEW p \in [1 .. n -> Int], NEW q \in [1 .. n -> Int],
           NEW r \in [1 .. n -> Int]
    PROVE  /\ ~ Selecting!Less(p, p)
           /\ Selecting!Less(p, q) /\ Selecting!Less(q, r) => Selecting!Less(p, r)
           /\ p # q => Selecting!Less(p, q) \/ Selecting!Less(q, p)
<1>1. ~ Selecting!Less(p, p)
  BY DEF Selecting!Less
<1>2. ASSUME Selecting!Less(p, q), Selecting!Less(q, r) PROVE Selecting!Less(p, r)
  <2>1. PICK k \in 1 .. n : p[k] < q[k] /\ \A m \in 1 .. k - 1 : p[m] = q[m]
    BY <1>2 DEF Selecting!Less
  <2>2. PICK l \in 1 .. n : q[l] < r[l] /\ \A m \in 1 .. l - 1 : q[m] = r[m]
    BY <1>2 DEF Selecting!Less
  <2>3. CASE k <= l
    <3>1. p[k] < r[k]
      <4>1. k = l \/ k \in 1 .. l - 1
        BY <2>3
      <4>2. q[k] <= r[k]
        BY <2>2, <4>1
      <4>. QED  BY <2>1, <4>2
    <3>2. \A m \in 1 .. k - 1 : m \in 1 .. l - 1
      BY <2>3
    <3>. QED  BY <2>1, <2>2, <3>1, <3>2 DEF Selecting!Less
  <2>4. CASE l < k
    <3>1. l \in 1 .. k - 1 /\ p[l] = q[l] /\ p[l] < r[l]
      BY <2>1, <2>2, <2>4
    <3>2. \A m \in 1 .. l - 1 : m \in 1 .. k - 1
      BY <2>4
    <3>. QED  BY <2>1, <2>2, <3>1, <3>2 DEF Selecting!Less
  <2>. QED  BY <2>3, <2>4
<1>3. ASSUME p # q PROVE Selecting!Less(p, q) \/ Selecting!Less(q, p)
  <2>. DEFINE D == {m \in 1 .. n : p[m] # q[m]}
  <2>1. D \in SUBSET Nat /\ D # {}
    <3>1. PICK m \in 1 .. n : p[m] # q[m]
      BY <1>3
    <3>2. m \in D
      BY <3>1
    <3>3. D \in SUBSET Nat
      OBVIOUS
    <3>. HIDE DEF D
    <3>. QED  BY <3>2, <3>3
  <2>2. PICK m \in D : \A k \in D : m <= k
    <3>. HIDE DEF D
    <3>. QED  BY <2>1, LeastOf
  <2>3. \A k \in 1 .. m - 1 : k \in 1 .. n /\ ~ (m <= k)
    OBVIOUS
  <2>4. \A k \in 1 .. m - 1 : p[k] = q[k]
    BY <2>2, <2>3
  <2>5. m \in 1 .. n /\ (p[m] < q[m] \/ q[m] < p[m])
    OBVIOUS
  <2>. QED  BY <2>4, <2>5 DEF Selecting!Less
<1>. QED  BY <1>1, <1>2, <1>3

\* A part that is appended is only looked at where the others are equal.
LEMMA LessAppended ==
    ASSUME NEW n \in Nat, NEW p \in [1 .. n -> Int], NEW q \in [1 .. n -> Int],
           NEW i \in Int, NEW j \in Int
    PROVE  /\ Append(p, i) \in [1 .. n + 1 -> Int]
           /\ Append(p, i) = Append(q, j) => i = j
           /\ p # q => (Selecting!Less(Append(p, i), Append(q, j)) <=> Selecting!Less(p, q))
<1>1. /\ p \in Seq(Int) /\ Len(p) = n /\ q \in Seq(Int) /\ Len(q) = n
  OBVIOUS
<1>. DEFINE pi == Append(p, i)
            qj == Append(q, j)
<1>2. /\ pi \in [1 .. n + 1 -> Int] /\ \A m \in 1 .. n : pi[m] = p[m]
      /\ pi[n + 1] = i
  <2>1. pi \in Seq(Int) /\ Len(pi) = n + 1 /\ \A m \in 1 .. n : pi[m] = p[m]
    BY <1>1, AppendProperties
  <2>2. pi[n + 1] = i
    BY <1>1, AppendProperties
  <2>. HIDE DEF pi
  <2>. QED  BY <2>1, <2>2
<1>3. /\ qj \in [1 .. n + 1 -> Int] /\ \A m \in 1 .. n : qj[m] = q[m]
      /\ qj[n + 1] = j
  <2>1. qj \in Seq(Int) /\ Len(qj) = n + 1 /\ \A m \in 1 .. n : qj[m] = q[m]
    BY <1>1, AppendProperties
  <2>2. qj[n + 1] = j
    BY <1>1, AppendProperties
  <2>. HIDE DEF qj
  <2>. QED  BY <2>1, <2>2
<1>. HIDE DEF pi, qj
<1>4. ASSUME p # q, Selecting!Less(pi, qj) PROVE Selecting!Less(p, q)
  <2>1. PICK k \in 1 .. n + 1 : pi[k] < qj[k] /\ \A m \in 1 .. k - 1 : pi[m] = qj[m]
    BY <1>2, <1>4 DEF Selecting!Less
  <2>2. k # n + 1
    <3>1. ASSUME k = n + 1 PROVE \A m \in 1 .. n : p[m] = q[m]
      BY <1>2, <1>3, <2>1, <3>1
    <3>. QED  BY <1>4, <3>1
  <2>3. k \in 1 .. n /\ \A m \in 1 .. k - 1 : m \in 1 .. n
    BY <2>2
  <2>. QED  BY <1>2, <1>3, <2>1, <2>3 DEF Selecting!Less
<1>5. ASSUME Selecting!Less(p, q) PROVE Selecting!Less(pi, qj)
  <2>1. PICK k \in 1 .. n : p[k] < q[k] /\ \A m \in 1 .. k - 1 : p[m] = q[m]
    BY <1>5 DEF Selecting!Less
  <2>2. k \in 1 .. n + 1 /\ \A m \in 1 .. k - 1 : m \in 1 .. n
    OBVIOUS
  <2>. QED  BY <1>2, <1>3, <2>1, <2>2 DEF Selecting!Less
<1>. QED  BY <1>2, <1>3, <1>4, <1>5 DEF pi, qj

LEMMA KeysOrder ==
    ASSUME NEW n \in Nat, NEW c \in Nat, NEW keys \in [1 .. c -> [1 .. n -> Int]]
    PROVE  /\ Orders(Selecting!ByKey(keys), 1 .. c)
           /\ \A i, j \in 1 .. c : keys[i] # keys[j] =>
                 (<<i, j>> \in Selecting!ByKey(keys) <=> Selecting!Less(keys[i], keys[j]))
<1>. DEFINE K(i) == Append(keys[i], i)
            before == Selecting!ByKey(keys)
<1>1. \A i, j \in 1 .. c : <<i, j>> \in before <=> Selecting!Less(K(i), K(j))
  BY DEF Selecting!ByKey
<1>2. \A i \in 1 .. c : keys[i] \in [1 .. n -> Int] /\ i \in Int
  OBVIOUS
<1>3. \A i \in 1 .. c : K(i) \in [1 .. n + 1 -> Int]
  BY <1>2, LessAppended
<1>4. \A i, j \in 1 .. c : i # j => K(i) # K(j)
  BY <1>2, LessAppended
<1>5. \A i, j \in 1 .. c : keys[i] # keys[j] =>
                 (Selecting!Less(K(i), K(j)) <=> Selecting!Less(keys[i], keys[j]))
  BY <1>2, LessAppended
<1>. HIDE DEF K, before
<1>6. n + 1 \in Nat
  OBVIOUS
<1>7. \A i, j, k \in 1 .. c :
         /\ ~ Selecting!Less(K(i), K(i))
         /\ Selecting!Less(K(i), K(j)) /\ Selecting!Less(K(j), K(k)) => Selecting!Less(K(i), K(k))
         /\ i # j => Selecting!Less(K(i), K(j)) \/ Selecting!Less(K(j), K(i))
  BY <1>3, <1>4, <1>6, LessOrders
<1>. QED  BY <1>1, <1>5, <1>7 DEF Orders, before

LEMMA PlacesOrder ==
    ASSUME NEW places \in SUBSET (Nat \X Nat)
    PROVE  Orders(Selecting!InPlace(places), places)
<1>1. \A p \in places : p \in [1 .. 2 -> Int]
  <2>1. \A i, j \in Nat : <<i, j>> \in [1 .. 2 -> Int]
    OBVIOUS
  <2>2. \A p \in places : \E i, j \in Nat : p = <<i, j>>
    OBVIOUS
  <2>. QED  BY <2>1, <2>2
<1>2. \A p, q \in places : <<p, q>> \in Selecting!InPlace(places) <=> Selecting!Less(p, q)
  BY DEF Selecting!InPlace
<1>3. \A p, q, r \in places :
         /\ ~ Selecting!Less(p, p)
         /\ Selecting!Less(p, q) /\ Selecting!Less(q, r) => Selecting!Less(p, r)
         /\ p # q => Selecting!Less(p, q) \/ Selecting!Less(q, p)
  <2>1. 2 \in Nat
    OBVIOUS
  <2>. QED  BY <1>1, <2>1, LessOrders
<1>. QED  BY <1>2, <1>3 DEF Orders

\* A sorted list has the same members, each at one place.
Sorts(p, c, list, keys) ==
    /\ OneToOne(p, 1 .. c, 1 .. c)
    /\ Selecting!SortedBy(list, keys) = [k \in 1 .. c |-> list[p[k]]]
    /\ \A k \in 1 .. c : Cardinality(Below(p[k], 1 .. c, Selecting!ByKey(keys))) = k - 1
    /\ \A x, y \in 1 .. c : Cardinality(Below(x, 1 .. c, Selecting!ByKey(keys))) =
                            Cardinality(Below(y, 1 .. c, Selecting!ByKey(keys))) => x = y

LEMMA SortedIs ==
    ASSUME NEW n \in Nat, NEW c \in Nat, NEW list, DOMAIN list = 1 .. c,
           NEW keys \in [1 .. c -> [1 .. n -> Int]]
    PROVE  \E p : Sorts(p, c, list, keys)
<1>. DEFINE before == Selecting!ByKey(keys)
            p == Selecting!InOrder(1 .. c, before)
<1>1. IsFiniteSet(1 .. c) /\ Cardinality(1 .. c) = c
  BY FS_Interval
<1>2. Orders(before, 1 .. c)
  BY KeysOrder
<1>3. Selecting!SortedBy(list, keys) = [k \in 1 .. c |-> list[p[k]]]
  BY DEF Selecting!SortedBy
<1>. HIDE DEF before
<1>4. /\ OneToOne(p, 1 .. c, 1 .. c)
      /\ \A k \in 1 .. c : Cardinality(Below(p[k], 1 .. c, before)) = k - 1
      /\ \A x, y \in 1 .. c : Cardinality(Below(x, 1 .. c, before)) =
                              Cardinality(Below(y, 1 .. c, before)) => x = y
  <2>. DEFINE D == 1 .. c
              s == Selecting!InOrder(D, before)
  <2>1. IsFiniteSet(D) /\ Orders(before, D) /\ Cardinality(D) = c
    BY <1>1, <1>2
  <2>. HIDE DEF D
  <2>2. /\ OneToOne(s, 1 .. Cardinality(D), D)
        /\ \A k \in 1 .. Cardinality(D) : Cardinality(Below(s[k], D, before)) = k - 1
        /\ \A x, y \in D : Cardinality(Below(x, D, before)) =
                           Cardinality(Below(y, D, before)) => x = y
    BY <2>1, OrderIs
  <2>. QED  BY <2>1, <2>2 DEF D
<1>. HIDE DEF p
<1>5. Sorts(p, c, list, keys)
  BY <1>3, <1>4 DEF Sorts, before
<1>. QED  BY <1>5

\* Where no two keys are equal, it does not matter how the list was ordered.
Alike(q, n, c, list, keys, other, others) ==
    /\ n \in Nat /\ c \in Nat
    /\ keys \in [1 .. c -> [1 .. n -> Int]] /\ others \in [1 .. c -> [1 .. n -> Int]]
    /\ DOMAIN list = 1 .. c /\ DOMAIN other = 1 .. c
    /\ OneToOne(q, 1 .. c, 1 .. c)
    /\ \A i \in 1 .. c : other[i] = list[q[i]] /\ others[i] = keys[q[i]]
    /\ \A i, j \in 1 .. c : others[i] = others[j] => i = j

LEMMA SortedSame ==
    ASSUME NEW q, NEW n, NEW c, NEW list, NEW keys, NEW other, NEW others,
           Alike(q, n, c, list, keys, other, others)
    PROVE  Selecting!SortedBy(other, others) = Selecting!SortedBy(list, keys)
<1>. USE DEF Alike
<1>. DEFINE K == Selecting!ByKey(keys)
            O == Selecting!ByKey(others)
<1>0. IsFiniteSet(1 .. c)
  BY FS_Interval
<1>1. PICK p : Sorts(p, c, list, keys)
  BY SortedIs
<1>2. PICK r : Sorts(r, c, other, others)
  BY SortedIs
<1>3. \A i, j \in 1 .. c : i # j =>
         (<<i, j>> \in O <=> Selecting!Less(others[i], others[j]))
  BY KeysOrder
<1>4. \A i, j \in 1 .. c : keys[i] # keys[j] =>
         (<<i, j>> \in K <=> Selecting!Less(keys[i], keys[j]))
  BY KeysOrder
<1>5. Orders(O, 1 .. c) /\ Orders(K, 1 .. c)
  BY KeysOrder
<1>. HIDE DEF K, O
<1>6. \A i \in 1 .. c : q[i] \in 1 .. c
  BY DEF OneToOne
<1>7. \A i, j \in 1 .. c : <<i, j>> \in O <=> <<q[i], q[j]>> \in K
  <2>. SUFFICES ASSUME NEW i \in 1 .. c, NEW j \in 1 .. c
                PROVE  <<i, j>> \in O <=> <<q[i], q[j]>> \in K
    OBVIOUS
  <2>1. CASE i = j
    BY <1>5, <1>6, <2>1 DEF Orders
  <2>2. CASE i # j
    <3>1. others[i] # others[j] /\ others[i] = keys[q[i]] /\ others[j] = keys[q[j]]
      BY <2>2
    <3>2. <<i, j>> \in O <=> Selecting!Less(others[i], others[j])
      BY <1>3, <2>2
    <3>3. <<q[i], q[j]>> \in K <=> Selecting!Less(keys[q[i]], keys[q[j]])
      BY <1>4, <1>6, <3>1
    <3>. QED  BY <3>1, <3>2, <3>3
  <2>. QED  BY <2>1, <2>2
<1>8. ASSUME NEW i \in 1 .. c
      PROVE  Cardinality(Below(q[i], 1 .. c, K)) = Cardinality(Below(i, 1 .. c, O))
  <2>. DEFINE S == Below(i, 1 .. c, O)
              T == Below(q[i], 1 .. c, K)
              f == [x \in S |-> q[x]]
  <2>1. \A x \in 1 .. c : x \in S <=> q[x] \in T
    BY <1>6, <1>7 DEF Below
  <2>2. S \subseteq 1 .. c /\ T \subseteq 1 .. c
    BY DEF Below
  <2>. HIDE DEF S, T
  <2>3. OneToOne(f, S, T)
    <3>1. f \in [S -> T]
      BY <2>1, <2>2
    <3>2. \A x, y \in S : f[x] = f[y] => x = y
      BY <2>2 DEF OneToOne
    <3>3. ASSUME NEW z \in T PROVE \E x \in S : f[x] = z
      <4>1. PICK x \in 1 .. c : q[x] = z
        BY <2>2 DEF OneToOne
      <4>. QED  BY <2>1, <4>1
    <3>. QED  BY <3>1, <3>2, <3>3 DEF OneToOne
  <2>4. IsFiniteSet(S)
    <3>. QED  BY <2>2, <1>0, FS_Subset
  <2>. HIDE DEF f
  <2>. QED  BY <2>3, <2>4, AsMany DEF S, T
<1>9. ASSUME NEW k \in 1 .. c PROVE other[r[k]] = list[p[k]]
  <2>1. r[k] \in 1 .. c /\ p[k] \in 1 .. c
    BY <1>1, <1>2 DEF OneToOne, Sorts
  <2>2. Cardinality(Below(q[r[k]], 1 .. c, K)) = Cardinality(Below(r[k], 1 .. c, O))
    BY <1>8, <2>1
  <2>3. Cardinality(Below(r[k], 1 .. c, O)) = k - 1
    BY <1>2 DEF Sorts, O
  <2>4. Cardinality(Below(p[k], 1 .. c, K)) = k - 1
    BY <1>1 DEF Sorts, K
  <2>5. q[r[k]] \in 1 .. c
    BY <1>6, <2>1
  <2>6. q[r[k]] = p[k]
    BY <1>1, <2>1, <2>2, <2>3, <2>4, <2>5 DEF Sorts, K
  <2>. QED  BY <2>1, <2>6
<1>. QED  BY <1>1, <1>2, <1>9 DEF Sorts

-----------------------------------------------------------------------------
(* The catalog made of a response.                                         *)

Mapped(raw) == [i \in DOMAIN raw.environments |->
                   Selecting!MapEnvironment(raw.id, raw.environments[i])]

EnvironmentKeys(raw) ==
    [i \in DOMAIN raw.environments |-> Selecting!EnvironmentKey(Mapped(raw)[i])]

Sites(given) == [i \in DOMAIN given |-> Selecting!MapSite(given[i])]
SiteKeys(given) == [i \in DOMAIN given |-> Selecting!SiteKey(Sites(given)[i])]

LEMMA KeysAre ==
    ASSUME NEW raw \in Selecting!RawSite
    PROVE  /\ Len(raw.environments) \in Nat
           /\ DOMAIN raw.environments = 1 .. Len(raw.environments)
           /\ \A i \in DOMAIN raw.environments :
                 EnvironmentKeys(raw)[i] =
                    <<Selecting!KindRank(Selecting!NormalizedKind(raw.environments[i].kind)),
                      raw.environments[i].name, raw.environments[i].id>>
           /\ EnvironmentKeys(raw) \in [1 .. Len(raw.environments) -> [1 .. 3 -> Int]]
<1>1. raw.environments \in Seq(Selecting!RawEnvironment)
  BY DEF Selecting!RawSite
<1>2. /\ Len(raw.environments) \in Nat
      /\ DOMAIN raw.environments = 1 .. Len(raw.environments)
      /\ \A i \in DOMAIN raw.environments :
            raw.environments[i].name \in Int /\ raw.environments[i].id \in Int
  <2>1. /\ Len(raw.environments) \in Nat
        /\ DOMAIN raw.environments = 1 .. Len(raw.environments)
        /\ \A i \in DOMAIN raw.environments : raw.environments[i] \in Selecting!RawEnvironment
    BY <1>1
  <2>2. \A e \in Selecting!RawEnvironment : e.name \in Int /\ e.id \in Int
    BY DEF Selecting!RawEnvironment
  <2>. QED  BY <2>1, <2>2
<1>3. \A i \in DOMAIN raw.environments :
         EnvironmentKeys(raw)[i] =
            <<Selecting!KindRank(Selecting!NormalizedKind(raw.environments[i].kind)),
              raw.environments[i].name, raw.environments[i].id>>
  BY DEF EnvironmentKeys, Mapped, Selecting!EnvironmentKey, Selecting!MapEnvironment
<1>4. \A kind : Selecting!KindRank(kind) \in Int
  BY DEF Selecting!KindRank
<1>5. \A x, y, z \in Int : <<x, y, z>> \in [1 .. 3 -> Int]
  OBVIOUS
<1>6. \A i \in DOMAIN raw.environments : EnvironmentKeys(raw)[i] \in [1 .. 3 -> Int]
  <2>. TAKE i \in DOMAIN raw.environments
  <2>. DEFINE x == Selecting!KindRank(Selecting!NormalizedKind(raw.environments[i].kind))
              y == raw.environments[i].name
              z == raw.environments[i].id
  <2>1. x \in Int /\ y \in Int /\ z \in Int
    BY <1>2, <1>4
  <2>2. EnvironmentKeys(raw)[i] = <<x, y, z>>
    BY <1>3
  <2>. HIDE DEF x, y, z
  <2>. QED  BY <1>5, <2>1, <2>2
<1>7. EnvironmentKeys(raw) \in [1 .. Len(raw.environments) -> [1 .. 3 -> Int]]
  <2>1. EnvironmentKeys(raw) = [i \in 1 .. Len(raw.environments) |-> EnvironmentKeys(raw)[i]]
    BY <1>2, Zenon DEF EnvironmentKeys
  <2>. QED  BY <1>2, <1>6, <2>1
<1>. QED  BY <1>2, <1>3, <1>7

\* A site of the catalog is a site of the response, each environment too.
LEMMA SiteIs ==
    ASSUME NEW raw \in Selecting!RawSite
    PROVE  /\ Selecting!MapSite(raw).id = raw.id
           /\ Selecting!MapSite(raw).name = raw.name
           /\ Selecting!MapSite(raw).labels = raw.labels
           /\ Selecting!MapSite(raw).environments =
                 Selecting!SortedBy(Mapped(raw), EnvironmentKeys(raw))
           /\ Selecting!MapSite(raw).domain =
                 Selecting!PrimaryDomain(Selecting!SortedBy(Mapped(raw), EnvironmentKeys(raw)))
           /\ \E p : /\ OneToOne(p, DOMAIN raw.environments, DOMAIN raw.environments)
                     /\ Selecting!MapSite(raw).environments =
                           [k \in DOMAIN raw.environments |->
                               Selecting!MapEnvironment(raw.id, raw.environments[p[k]])]
<1>. DEFINE c == Len(raw.environments)
            list == Selecting!SortedBy(Mapped(raw), EnvironmentKeys(raw))
<1>1. /\ c \in Nat /\ DOMAIN raw.environments = 1 .. c
      /\ EnvironmentKeys(raw) \in [1 .. c -> [1 .. 3 -> Int]]
  BY KeysAre
<1>2. DOMAIN Mapped(raw) = 1 .. c
  BY <1>1 DEF Mapped
<1>3. EnvironmentKeys(raw) =
         [i \in DOMAIN Mapped(raw) |-> Selecting!EnvironmentKey(Mapped(raw)[i])]
  BY <1>1, <1>2 DEF EnvironmentKeys
<1>4. Selecting!MapSite(raw) =
         [id |-> raw.id, name |-> raw.name, labels |-> raw.labels,
          domain |-> Selecting!PrimaryDomain(list), environments |-> list]
  BY <1>3, Zenon DEF Selecting!MapSite, Mapped
<1>. HIDE DEF c
<1>5. PICK p : Sorts(p, c, Mapped(raw), EnvironmentKeys(raw))
  <2>1. 3 \in Nat
    OBVIOUS
  <2>. QED  BY <1>1, <1>2, <2>1, SortedIs
<1>6. list = [k \in 1 .. c |-> Mapped(raw)[p[k]]]
  BY <1>5 DEF Sorts
<1>7. \A k \in 1 .. c : /\ p[k] \in 1 .. c
                        /\ Mapped(raw)[p[k]] =
                              Selecting!MapEnvironment(raw.id, raw.environments[p[k]])
  BY <1>1, <1>5 DEF Sorts, OneToOne, Mapped
<1>8. list = [k \in 1 .. c |-> Selecting!MapEnvironment(raw.id, raw.environments[p[k]])]
  BY <1>6, <1>7
<1>9. OneToOne(p, 1 .. c, 1 .. c)
  BY <1>5 DEF Sorts
<1>. HIDE DEF list
<1>. QED  BY <1>1, <1>4, <1>8, <1>9 DEF list

LEMMA SiteKeysAre ==
    ASSUME NEW given \in Seq(Selecting!RawSite)
    PROVE  /\ Len(given) \in Nat /\ DOMAIN given = 1 .. Len(given)
           /\ \A i \in DOMAIN given : /\ given[i] \in Selecting!RawSite
                                      /\ SiteKeys(given)[i] = <<given[i].name, given[i].id>>
           /\ SiteKeys(given) \in [1 .. Len(given) -> [1 .. 2 -> Int]]
           /\ Selecting!MapCatalog(given) = Selecting!SortedBy(Sites(given), SiteKeys(given))
<1>1. Len(given) \in Nat /\ DOMAIN given = 1 .. Len(given)
  OBVIOUS
<1>2. \A i \in DOMAIN given : given[i] \in Selecting!RawSite
  BY <1>1
<1>3. \A i \in DOMAIN given : SiteKeys(given)[i] = <<given[i].name, given[i].id>>
  BY <1>2, SiteIs DEF SiteKeys, Sites, Selecting!SiteKey
<1>4. \A i \in DOMAIN given : given[i].name \in Int /\ given[i].id \in Int
  BY <1>2 DEF Selecting!RawSite
<1>5. \A x, y \in Int : <<x, y>> \in [1 .. 2 -> Int]
  OBVIOUS
<1>6. \A i \in DOMAIN given : SiteKeys(given)[i] \in [1 .. 2 -> Int]
  BY <1>3, <1>4, <1>5
<1>7. SiteKeys(given) \in [1 .. Len(given) -> [1 .. 2 -> Int]]
  <2>1. SiteKeys(given) = [i \in 1 .. Len(given) |-> SiteKeys(given)[i]]
    BY <1>1, Zenon DEF SiteKeys
  <2>. QED  BY <1>1, <1>6, <2>1
<1>8. DOMAIN Sites(given) = DOMAIN given
  BY DEF Sites
<1>9. Selecting!MapCatalog(given) = Selecting!SortedBy(Sites(given), SiteKeys(given))
  BY <1>8 DEF Selecting!MapCatalog, Sites, SiteKeys
<1>. QED  BY <1>1, <1>2, <1>3, <1>7, <1>9

LEMMA CatalogIs ==
    ASSUME NEW given \in Seq(Selecting!RawSite)
    PROVE  \E p : /\ OneToOne(p, DOMAIN given, DOMAIN given)
                  /\ Selecting!MapCatalog(given) =
                        [k \in DOMAIN given |-> Selecting!MapSite(given[p[k]])]
<1>. DEFINE c == Len(given)
<1>1. /\ c \in Nat /\ DOMAIN given = 1 .. c
      /\ SiteKeys(given) \in [1 .. c -> [1 .. 2 -> Int]]
      /\ Selecting!MapCatalog(given) = Selecting!SortedBy(Sites(given), SiteKeys(given))
  BY SiteKeysAre
<1>2. DOMAIN Sites(given) = 1 .. c
  BY <1>1 DEF Sites
<1>. HIDE DEF c
<1>3. PICK p : Sorts(p, c, Sites(given), SiteKeys(given))
  <2>1. 2 \in Nat
    OBVIOUS
  <2>. QED  BY <1>1, <1>2, <2>1, SortedIs
<1>4. \A k \in 1 .. c : p[k] \in 1 .. c /\ Sites(given)[p[k]] = Selecting!MapSite(given[p[k]])
  BY <1>1, <1>3 DEF Sorts, OneToOne, Sites
<1>5. OneToOne(p, 1 .. c, 1 .. c)
      /\ Selecting!SortedBy(Sites(given), SiteKeys(given)) = [k \in 1 .. c |-> Sites(given)[p[k]]]
  BY <1>3 DEF Sorts
<1>6. Selecting!MapCatalog(given) = [k \in 1 .. c |-> Selecting!MapSite(given[p[k]])]
  BY <1>1, <1>4, <1>5
<1>. QED  BY <1>1, <1>5, <1>6

\* What is known of the places of a list of sites.
LEMMA PlacesAre ==
    ASSUME NEW given \in Seq(Selecting!RawSite)
    PROVE  /\ \A place \in Selecting!Places(given) :
                 \E i \in DOMAIN given : \E j \in DOMAIN given[i].environments : place = <<i, j>>
           /\ \A i \in DOMAIN given : \A j \in DOMAIN given[i].environments :
                 /\ <<i, j>> \in Selecting!Places(given)
                 /\ Selecting!At(given, <<i, j>>) = given[i].environments[j]
           /\ IsFiniteSet(Selecting!Places(given))
<1>. DEFINE n == Len(given)
            Block(i) == {i} \X (DOMAIN given[i].environments)
            f == [i \in 1 .. n |-> Block(i)]
            All == {Block(i) : i \in 1 .. n}
<1>1. n \in Nat /\ DOMAIN given = 1 .. n
  OBVIOUS
<1>2. Selecting!Places(given) = UNION All
  BY <1>1 DEF Selecting!Places
<1>3. ASSUME NEW i \in 1 .. n PROVE IsFiniteSet(Block(i))
  <2>1. given[i] \in Selecting!RawSite
    BY <1>1
  <2>2. /\ Len(given[i].environments) \in Nat
        /\ DOMAIN given[i].environments = 1 .. Len(given[i].environments)
    BY <2>1, KeysAre
  <2>3. IsFiniteSet(DOMAIN given[i].environments)
    <3>1. PICK m \in Nat : DOMAIN given[i].environments = 1 .. m
      BY <2>2
    <3>2. IsFiniteSet(1 .. m)
      BY FS_Interval
    <3>. QED  BY <3>1, <3>2
  <2>4. IsFiniteSet({i})
    BY FS_Singleton
  <2>. QED  BY <2>3, <2>4, FS_Product
<1>4. IsFiniteSet(All)
  <2>1. f \in Surjection(1 .. n, All)
    <3>. HIDE DEF Block
    <3>. QED  BY DEF Surjection
  <2>2. IsFiniteSet(1 .. n)
    BY <1>1, FS_Interval
  <2>. HIDE DEF All, f
  <2>. QED  BY <2>1, <2>2, FS_Surjection
<1>5. IsFiniteSet(UNION All)
  <2>1. \A T \in All : IsFiniteSet(T)
    <3>. HIDE DEF Block
    <3>. QED  BY <1>3
  <2>. HIDE DEF All
  <2>. QED  BY <1>4, <2>1, FS_UNION
<1>6. \A place \in UNION All :
         \E i \in 1 .. n : \E j \in DOMAIN given[i].environments : place = <<i, j>>
  OBVIOUS
<1>7. \A i \in 1 .. n : \A j \in DOMAIN given[i].environments :
         /\ <<i, j>> \in UNION All
         /\ Selecting!At(given, <<i, j>>) = given[i].environments[j]
  BY DEF Selecting!At
<1>. HIDE DEF All, n
<1>. QED  BY <1>1, <1>2, <1>5, <1>6, <1>7

\* Each place of the catalog stands for a place of the response, and each of
\* those has one.
Matches(g, given) ==
    LET snapshot == Selecting!MapCatalog(given)
    IN  /\ OneToOne(g, Selecting!Places(snapshot), Selecting!Places(given))
        /\ \A place \in Selecting!Places(snapshot) :
              /\ g[place][1] \in DOMAIN given
              /\ snapshot[place[1]] = Selecting!MapSite(given[g[place][1]])
              /\ Selecting!At(snapshot, place) =
                    Selecting!MapEnvironment(given[g[place][1]].id, Selecting!At(given, g[place]))

LEMMA CatalogMatches ==
    ASSUME NEW given \in Seq(Selecting!RawSite)
    PROVE  /\ \E g : Matches(g, given)
           /\ IsFiniteSet(Selecting!Places(Selecting!MapCatalog(given)))
           /\ Selecting!Places(Selecting!MapCatalog(given)) \in SUBSET (Nat \X Nat)
<1>. DEFINE snapshot == Selecting!MapCatalog(given)
            D(i) == DOMAIN given[i].environments
<1>1. PICK p : /\ OneToOne(p, DOMAIN given, DOMAIN given)
               /\ snapshot = [k \in DOMAIN given |-> Selecting!MapSite(given[p[k]])]
  BY CatalogIs
<1>. HIDE DEF snapshot
<1>. DEFINE Fits(q, k) ==
                /\ OneToOne(q, D(p[k]), D(p[k]))
                /\ Selecting!MapSite(given[p[k]]).environments =
                      [j \in D(p[k]) |-> Selecting!MapEnvironment(given[p[k]].id,
                                            given[p[k]].environments[q[j]])]
            q == [k \in DOMAIN given |-> CHOOSE r : Fits(r, k)]
<1>2. \A k \in DOMAIN given : p[k] \in DOMAIN given /\ given[p[k]] \in Selecting!RawSite
  BY <1>1 DEF OneToOne
<1>3. ASSUME NEW k \in DOMAIN given PROVE Fits(q[k], k)
  <2>1. \E r : Fits(r, k)
    BY <1>2, SiteIs
  <2>2. Fits(CHOOSE r : Fits(r, k), k)
    <3>. HIDE DEF Fits
    <3>. QED  BY <2>1
  <2>3. q[k] = CHOOSE r : Fits(r, k)
    OBVIOUS
  <2>. HIDE DEF Fits, q
  <2>. QED  BY <2>2, <2>3
<1>. HIDE DEF q
<1>4. /\ DOMAIN snapshot = DOMAIN given
      /\ \A k \in DOMAIN given :
            /\ snapshot[k] = Selecting!MapSite(given[p[k]])
            /\ DOMAIN snapshot[k].environments = D(p[k])
            /\ OneToOne(q[k], D(p[k]), D(p[k]))
            /\ \A j \in D(p[k]) :
                  /\ q[k][j] \in D(p[k])
                  /\ snapshot[k].environments[j] =
                        Selecting!MapEnvironment(given[p[k]].id,
                                                 given[p[k]].environments[q[k][j]])
  <2>1. DOMAIN snapshot = DOMAIN given
    BY <1>1
  <2>2. ASSUME NEW k \in DOMAIN given
        PROVE  /\ snapshot[k] = Selecting!MapSite(given[p[k]])
               /\ DOMAIN snapshot[k].environments = D(p[k])
               /\ OneToOne(q[k], D(p[k]), D(p[k]))
               /\ \A j \in D(p[k]) :
                     /\ q[k][j] \in D(p[k])
                     /\ snapshot[k].environments[j] =
                           Selecting!MapEnvironment(given[p[k]].id,
                                                    given[p[k]].environments[q[k][j]])
    <3>1. snapshot[k] = Selecting!MapSite(given[p[k]])
      BY <1>1
    <3>2. Fits(q[k], k)
      BY <1>3
    <3>. HIDE DEF D
    <3>. QED  BY <3>1, <3>2 DEF OneToOne
  <2>. HIDE DEF Fits, D
  <2>. QED  BY <2>1, <2>2
<1>. HIDE DEF Fits
<1>. DEFINE P == Selecting!Places(snapshot)
            R == Selecting!Places(given)
<1>5. /\ \A place \in P : \E k \in DOMAIN given : \E j \in D(p[k]) : place = <<k, j>>
      /\ \A k \in DOMAIN given : \A j \in D(p[k]) : <<k, j>> \in P
  BY <1>4 DEF Selecting!Places
<1>6. /\ \A place \in R : \E i \in DOMAIN given : \E j \in D(i) : place = <<i, j>>
      /\ \A i \in DOMAIN given : \A j \in D(i) :
            /\ <<i, j>> \in R
            /\ Selecting!At(given, <<i, j>>) = given[i].environments[j]
      /\ IsFiniteSet(R)
  BY PlacesAre
<1>. DEFINE g == [place \in P |-> <<p[place[1]], q[place[1]][place[2]]>>]
<1>. HIDE DEF P, R, D
<1>7. ASSUME NEW k \in DOMAIN given, NEW j \in D(p[k])
      PROVE  /\ <<k, j>> \in P
             /\ g[<<k, j>>] = <<p[k], q[k][j]>>
             /\ g[<<k, j>>] \in R
             /\ g[<<k, j>>][1] = p[k]
             /\ Selecting!At(given, g[<<k, j>>]) = given[p[k]].environments[q[k][j]]
  BY <1>2, <1>4, <1>5, <1>6
<1>8. g \in [P -> R]
  <2>1. ASSUME NEW place \in P PROVE g[place] \in R
    <3>. HIDE DEF g
    <3>1. PICK k \in DOMAIN given : \E j \in D(p[k]) : place = <<k, j>>
      BY <1>5
    <3>2. PICK j \in D(p[k]) : place = <<k, j>>
      BY <3>1
    <3>. QED  BY <1>7, <3>2
  <2>. QED  BY <2>1
<1>9. ASSUME NEW x \in P, NEW y \in P, g[x] = g[y] PROVE x = y
  <2>. HIDE DEF g
  <2>a. PICK k \in DOMAIN given : \E j \in D(p[k]) : x = <<k, j>>
    BY <1>5
  <2>1. PICK j \in D(p[k]) : x = <<k, j>>
    BY <2>a
  <2>b. PICK l \in DOMAIN given : \E m \in D(p[l]) : y = <<l, m>>
    BY <1>5
  <2>2. PICK m \in D(p[l]) : y = <<l, m>>
    BY <2>b
  <2>3. p[k] = p[l] /\ q[k][j] = q[l][m]
    BY <1>7, <1>9, <2>1, <2>2
  <2>4. k = l
    BY <1>1, <2>3 DEF OneToOne
  <2>5. j = m
    BY <1>4, <2>3, <2>4 DEF OneToOne
  <2>. QED  BY <2>1, <2>2, <2>4, <2>5
<1>10. ASSUME NEW z \in R PROVE \E x \in P : g[x] = z
  <2>. HIDE DEF g
  <2>a. PICK i \in DOMAIN given : \E l \in D(i) : z = <<i, l>>
    BY <1>6
  <2>1. PICK l \in D(i) : z = <<i, l>>
    BY <2>a
  <2>2. PICK k \in DOMAIN given : p[k] = i
    BY <1>1 DEF OneToOne
  <2>3. PICK j \in D(p[k]) : q[k][j] = l
    BY <1>4, <2>1, <2>2 DEF OneToOne
  <2>. QED  BY <1>7, <2>1, <2>2, <2>3
<1>11. ASSUME NEW place \in P
       PROVE  /\ g[place][1] \in DOMAIN given
              /\ snapshot[place[1]] = Selecting!MapSite(given[g[place][1]])
              /\ Selecting!At(snapshot, place) =
                    Selecting!MapEnvironment(given[g[place][1]].id, Selecting!At(given, g[place]))
  <2>. HIDE DEF g
  <2>a. PICK k \in DOMAIN given : \E j \in D(p[k]) : place = <<k, j>>
    BY <1>5
  <2>1. PICK j \in D(p[k]) : place = <<k, j>>
    BY <2>a
  <2>2. place[1] = k /\ Selecting!At(snapshot, place) = snapshot[k].environments[j]
    BY <2>1 DEF Selecting!At
  <2>3. /\ g[place][1] = p[k]
        /\ Selecting!At(given, g[place]) = given[p[k]].environments[q[k][j]]
    BY <1>7, <2>1
  <2>4. /\ snapshot[k] = Selecting!MapSite(given[p[k]])
        /\ snapshot[k].environments[j] =
              Selecting!MapEnvironment(given[p[k]].id, given[p[k]].environments[q[k][j]])
        /\ p[k] \in DOMAIN given
    BY <1>2, <1>4
  <2>. QED  BY <2>2, <2>3, <2>4
<1>12. OneToOne(g, P, R)
  <2>. HIDE DEF g
  <2>. QED  BY <1>8, <1>9, <1>10 DEF OneToOne
<1>13. Matches(g, given)
  <2>. HIDE DEF g
  <2>. QED  BY <1>11, <1>12 DEF Matches, P, R, snapshot
<1>14. IsFiniteSet(P)
  <2>. HIDE DEF g
  <2>1. g \in Injection(P, R)
    BY <1>12 DEF OneToOne, Injection, IsInjective
  <2>. QED  BY <1>6, <2>1, FS_Injection
<1>15. P \in SUBSET (Nat \X Nat)
  <2>1. \A i \in DOMAIN given : i \in Nat /\ D(i) \subseteq Nat
    <3>1. \A i \in DOMAIN given : i \in Nat /\ given[i] \in Selecting!RawSite
      OBVIOUS
    <3>2. \A i \in DOMAIN given : D(i) = 1 .. Len(given[i].environments)
      BY <3>1, KeysAre DEF D
    <3>. QED  BY <3>1, <3>2
  <2>2. \A k \in DOMAIN given : D(p[k]) \subseteq Nat
    BY <1>2, <2>1
  <2>. HIDE DEF g
  <2>. QED  BY <1>5, <2>1, <2>2
<1>. HIDE DEF g
<1>. QED  BY <1>13, <1>14, <1>15 DEF P, snapshot

-----------------------------------------------------------------------------
(* The order of a response.                                                *)

LEMMA Shuffled ==
    ASSUME NEW c \in Nat, NEW list, DOMAIN list = 1 .. c,
           NEW other \in Selecting!Reordered(list)
    PROVE  \E q : /\ OneToOne(q, 1 .. c, 1 .. c)
                  /\ DOMAIN other = 1 .. c /\ \A i \in 1 .. c : other[i] = list[q[i]]
<1>1. PICK q \in [1 .. c -> 1 .. c] :
         /\ other = [i \in 1 .. c |-> list[q[i]]]
         /\ \A i, j \in 1 .. c : q[i] = q[j] => i = j
  BY DEF Selecting!Reordered
<1>2. q \in Injection(1 .. c, 1 .. c)
  BY <1>1 DEF Injection, IsInjective
<1>3. IsFiniteSet(1 .. c)
  BY FS_Interval
<1>4. q \in Surjection(1 .. c, 1 .. c)
  BY <1>2, <1>3, FS_Injection
<1>5. \A z \in 1 .. c : \E x \in 1 .. c : q[x] = z
  BY <1>4 DEF Surjection
<1>. QED  BY <1>1, <1>5 DEF OneToOne

LEMMA SameSite ==
    ASSUME NEW raw \in Selecting!RawSite, NEW other \in Selecting!RawSite,
           NEW l \in Selecting!Reordered(raw.environments),
           other = [raw EXCEPT !.environments = l],
           \A i, j \in DOMAIN other.environments :
               other.environments[i].id = other.environments[j].id => i = j
    PROVE  /\ Selecting!MapSite(other) = Selecting!MapSite(raw)
           /\ (\A j \in DOMAIN other.environments : other.environments[j].id # 0) <=>
              (\A j \in DOMAIN raw.environments : raw.environments[j].id # 0)
           /\ other.id = raw.id /\ other.name = raw.name
<1>. DEFINE c == Len(raw.environments)
            sorted(s) == Selecting!SortedBy(Mapped(s), EnvironmentKeys(s))
            made(s, list) == [id |-> s.id, name |-> s.name, labels |-> s.labels,
                              domain |-> Selecting!PrimaryDomain(list), environments |-> list]
<1>1. /\ c \in Nat /\ DOMAIN raw.environments = 1 .. c
      /\ EnvironmentKeys(raw) \in [1 .. c -> [1 .. 3 -> Int]]
      /\ \A i \in 1 .. c : EnvironmentKeys(raw)[i] =
            <<Selecting!KindRank(Selecting!NormalizedKind(raw.environments[i].kind)),
              raw.environments[i].name, raw.environments[i].id>>
  BY KeysAre
<1>2. /\ other.id = raw.id /\ other.name = raw.name /\ other.labels = raw.labels
      /\ other.environments = l
  BY DEF Selecting!RawSite
<1>. HIDE DEF c
<1>3. PICK q : /\ OneToOne(q, 1 .. c, 1 .. c)
                 /\ DOMAIN l = 1 .. c /\ \A i \in 1 .. c : l[i] = raw.environments[q[i]]
  <2>1. PICK list : list = raw.environments
    OBVIOUS
  <2>2. l \in Selecting!Reordered(list) /\ DOMAIN list = 1 .. c
    BY <1>1, <2>1
  <2>3. \E q : /\ OneToOne(q, 1 .. c, 1 .. c)
               /\ DOMAIN l = 1 .. c /\ \A i \in 1 .. c : l[i] = list[q[i]]
    BY <1>1, <2>2, Shuffled
  <2>. QED  BY <2>1, <2>3
<1>4. /\ Len(other.environments) \in Nat
      /\ DOMAIN other.environments = 1 .. c /\ DOMAIN other.environments = 1 .. Len(other.environments)
      /\ EnvironmentKeys(other) \in [1 .. Len(other.environments) -> [1 .. 3 -> Int]]
      /\ \A i \in 1 .. c : EnvironmentKeys(other)[i] =
            <<Selecting!KindRank(Selecting!NormalizedKind(other.environments[i].kind)),
              other.environments[i].name, other.environments[i].id>>
  BY <1>2, <1>3, KeysAre
<1>5. \A i \in 1 .. c : q[i] \in 1 .. c /\ other.environments[i] = raw.environments[q[i]]
  BY <1>2, <1>3 DEF OneToOne
<1>6. DOMAIN Mapped(raw) = 1 .. c /\ DOMAIN Mapped(other) = 1 .. c
  BY <1>1, <1>4 DEF Mapped
<1>7. \A i \in 1 .. c : /\ Mapped(other)[i] = Mapped(raw)[q[i]]
                        /\ EnvironmentKeys(other)[i] = EnvironmentKeys(raw)[q[i]]
  <2>. SUFFICES ASSUME NEW i \in 1 .. c
                PROVE  /\ Mapped(other)[i] = Mapped(raw)[q[i]]
                       /\ EnvironmentKeys(other)[i] = EnvironmentKeys(raw)[q[i]]
    OBVIOUS
  <2>1. q[i] \in 1 .. c /\ other.environments[i] = raw.environments[q[i]]
    BY <1>5
  <2>2. Mapped(other)[i] = Selecting!MapEnvironment(raw.id, raw.environments[q[i]])
    BY <1>2, <1>4, <2>1 DEF Mapped
  <2>3. Mapped(raw)[q[i]] = Selecting!MapEnvironment(raw.id, raw.environments[q[i]])
    BY <1>1, <2>1 DEF Mapped
  <2>4. PICK k \in 1 .. c : k = q[i]
    BY <2>1
  <2>5. EnvironmentKeys(other)[i] = EnvironmentKeys(raw)[k]
    <3>1. other.environments[i] = raw.environments[k]
      BY <2>1, <2>4
    <3>2. EnvironmentKeys(other)[i] =
            <<Selecting!KindRank(Selecting!NormalizedKind(other.environments[i].kind)),
              other.environments[i].name, other.environments[i].id>>
      BY <1>4
    <3>3. EnvironmentKeys(raw)[k] =
            <<Selecting!KindRank(Selecting!NormalizedKind(raw.environments[k].kind)),
              raw.environments[k].name, raw.environments[k].id>>
      BY <1>1
    <3>. QED  BY <3>1, <3>2, <3>3, Zenon
  <2>. QED  BY <2>2, <2>3, <2>4, <2>5
<1>8. \A i, j \in 1 .. c : EnvironmentKeys(other)[i] = EnvironmentKeys(other)[j] => i = j
  <2>1. ASSUME NEW i \in 1 .. c, NEW j \in 1 .. c, EnvironmentKeys(other)[i] = EnvironmentKeys(other)[j]
        PROVE  other.environments[i].id = other.environments[j].id
    <3>1. EnvironmentKeys(other)[i][3] = other.environments[i].id
          /\ EnvironmentKeys(other)[j][3] = other.environments[j].id
      <4>1. \A x, y, z : <<x, y, z>>[3] = z
        OBVIOUS
      <4>2. \A k \in 1 .. c : EnvironmentKeys(other)[k][3] = other.environments[k].id
        <5>1. TAKE k \in 1 .. c
        <5>. DEFINE x == Selecting!KindRank(Selecting!NormalizedKind(other.environments[k].kind))
                    y == other.environments[k].name
                    z == other.environments[k].id
        <5>2. EnvironmentKeys(other)[k] = <<x, y, z>>
          BY <1>4
        <5>. HIDE DEF x, y
        <5>. QED  BY <4>1, <5>2
      <4>. QED  BY <4>2
    <3>. QED  BY <2>1, <3>1
  <2>. QED  BY <1>4, <2>1
<1>9. EnvironmentKeys(other) \in [1 .. c -> [1 .. 3 -> Int]]
  BY <1>4
<1>10. sorted(other) = sorted(raw)
  <2>1. 3 \in Nat
    OBVIOUS
  <2>2. /\ c \in Nat /\ EnvironmentKeys(raw) \in [1 .. c -> [1 .. 3 -> Int]]
        /\ OneToOne(q, 1 .. c, 1 .. c)
    BY <1>1, <1>3
  <2>3. Alike(q, 3, c, Mapped(raw), EnvironmentKeys(raw), Mapped(other), EnvironmentKeys(other))
    BY <2>2, <1>6, <1>7, <1>8, <1>9, <2>1 DEF Alike
  <2>. QED  BY <2>3, SortedSame
<1>11. ASSUME NEW s \in Selecting!RawSite PROVE Selecting!MapSite(s) = made(s, sorted(s))
  <2>1. DOMAIN Mapped(s) = DOMAIN s.environments
    BY DEF Mapped
  <2>2. EnvironmentKeys(s) = [i \in DOMAIN Mapped(s) |-> Selecting!EnvironmentKey(Mapped(s)[i])]
    BY <2>1 DEF EnvironmentKeys
  <2>. QED  BY <2>2, Zenon DEF Selecting!MapSite, Mapped
<1>12. Selecting!MapSite(other) = Selecting!MapSite(raw)
  <2>1. Selecting!MapSite(other) = made(other, sorted(other))
    BY <1>11
  <2>2. Selecting!MapSite(raw) = made(raw, sorted(raw))
    BY <1>11
  <2>3. made(other, sorted(raw)) = made(raw, sorted(raw))
    BY <1>2
  <2>. HIDE DEF made, sorted
  <2>. QED  BY <1>10, <2>1, <2>2, <2>3
<1>13. (\A j \in 1 .. c : other.environments[j].id # 0) <=>
       (\A j \in 1 .. c : raw.environments[j].id # 0)
  <2>1. ASSUME \A j \in 1 .. c : other.environments[j].id # 0, NEW k \in 1 .. c
        PROVE  raw.environments[k].id # 0
    <3>1. PICK j \in 1 .. c : q[j] = k
      BY <1>3 DEF OneToOne
    <3>. QED  BY <1>5, <2>1, <3>1
  <2>. QED  BY <1>5, <2>1
<1>. QED  BY <1>1, <1>2, <1>4, <1>12, <1>13

\* No identifier is listed twice.
Distinct(given) ==
    /\ \A i, j \in DOMAIN given : given[i].id = given[j].id => i = j
    /\ \A i \in DOMAIN given : \A j, k \in DOMAIN given[i].environments :
          given[i].environments[j].id = given[i].environments[k].id => j = k

\* The catalog does not depend on the order of the provider's lists.
LEMMA SameCatalog ==
    ASSUME NEW one \in Seq(Selecting!RawSite), NEW other \in Seq(Selecting!RawSite),
           Selecting!SameContent(one, other), Distinct(other)
    PROVE  /\ Selecting!Mappable(one) <=> Selecting!Mappable(other)
           /\ Selecting!MapCatalog(one) = Selecting!MapCatalog(other)
<1>. DEFINE c == Len(one)
<1>1. /\ c \in Nat /\ DOMAIN one = 1 .. c
      /\ \A i \in 1 .. c : /\ one[i] \in Selecting!RawSite
                           /\ SiteKeys(one)[i] = <<one[i].name, one[i].id>>
      /\ SiteKeys(one) \in [1 .. c -> [1 .. 2 -> Int]]
      /\ Selecting!MapCatalog(one) = Selecting!SortedBy(Sites(one), SiteKeys(one))
  BY SiteKeysAre
<1>. HIDE DEF c
<1>2. PICK shuffled \in Selecting!Reordered(one) :
         /\ Len(shuffled) = Len(other)
         /\ \A i \in DOMAIN other :
               other[i] \in {[shuffled[i] EXCEPT !.environments = l] :
                                l \in Selecting!Reordered(shuffled[i].environments)}
  BY DEF Selecting!SameContent
<1>3. PICK q : /\ OneToOne(q, 1 .. c, 1 .. c)
                 /\ DOMAIN shuffled = 1 .. c /\ \A i \in 1 .. c : shuffled[i] = one[q[i]]
  <2>1. shuffled \in Selecting!Reordered(one)
    OBVIOUS
  <2>2. c \in Nat /\ DOMAIN one = 1 .. c
    BY <1>1
  <2>. QED  BY <2>1, <2>2, Shuffled
<1>4. \A i \in 1 .. c : q[i] \in 1 .. c /\ shuffled[i] = one[q[i]]
  BY <1>3 DEF OneToOne
<1>5. Len(shuffled) = c
  BY <1>1, <1>3
<1>6. /\ DOMAIN other = 1 .. c
      /\ \A i \in 1 .. c : /\ other[i] \in Selecting!RawSite
                           /\ SiteKeys(other)[i] = <<other[i].name, other[i].id>>
      /\ SiteKeys(other) \in [1 .. c -> [1 .. 2 -> Int]]
      /\ Selecting!MapCatalog(other) = Selecting!SortedBy(Sites(other), SiteKeys(other))
  BY <1>2, <1>5, SiteKeysAre
<1>7. ASSUME NEW i \in 1 .. c
      PROVE  /\ Selecting!MapSite(other[i]) = Selecting!MapSite(one[q[i]])
             /\ (\A j \in DOMAIN other[i].environments : other[i].environments[j].id # 0) <=>
                (\A j \in DOMAIN one[q[i]].environments : one[q[i]].environments[j].id # 0)
             /\ other[i].id = one[q[i]].id /\ other[i].name = one[q[i]].name
  <2>1. PICK l \in Selecting!Reordered(one[q[i]].environments) :
           other[i] = [one[q[i]] EXCEPT !.environments = l]
    <3>1. shuffled[i] = one[q[i]] /\ i \in DOMAIN other
      BY <1>4, <1>6
    <3>2. other[i] \in {[shuffled[i] EXCEPT !.environments = l] :
                           l \in Selecting!Reordered(shuffled[i].environments)}
      BY <1>2, <3>1
    <3>. QED  BY <3>1, <3>2, Zenon
  <2>2. one[q[i]] \in Selecting!RawSite /\ other[i] \in Selecting!RawSite
    BY <1>1, <1>4, <1>6
  <2>3. \A j, k \in DOMAIN other[i].environments :
           other[i].environments[j].id = other[i].environments[k].id => j = k
    BY <1>6 DEF Distinct
  <2>. QED  BY <2>1, <2>2, <2>3, SameSite
<1>8. DOMAIN Sites(one) = 1 .. c /\ DOMAIN Sites(other) = 1 .. c
  BY <1>1, <1>6 DEF Sites
<1>9. \A i \in 1 .. c : /\ Sites(other)[i] = Sites(one)[q[i]]
                        /\ SiteKeys(other)[i] = SiteKeys(one)[q[i]]
  <2>. SUFFICES ASSUME NEW i \in 1 .. c
                PROVE  /\ Sites(other)[i] = Sites(one)[q[i]]
                       /\ SiteKeys(other)[i] = SiteKeys(one)[q[i]]
    OBVIOUS
  <2>1. PICK k \in 1 .. c : k = q[i]
    BY <1>4
  <2>2. /\ Selecting!MapSite(other[i]) = Selecting!MapSite(one[k])
        /\ other[i].id = one[k].id /\ other[i].name = one[k].name
    BY <1>7, <2>1
  <2>3. Sites(other)[i] = Sites(one)[k]
    BY <1>1, <1>6, <2>2 DEF Sites
  <2>4. SiteKeys(other)[i] = SiteKeys(one)[k]
    BY <1>1, <1>6, <2>2
  <2>. QED  BY <2>1, <2>3, <2>4
<1>10. \A i, j \in 1 .. c : SiteKeys(other)[i] = SiteKeys(other)[j] => i = j
  <2>1. ASSUME NEW i \in 1 .. c, NEW j \in 1 .. c, SiteKeys(other)[i] = SiteKeys(other)[j]
        PROVE  other[i].id = other[j].id
    <3>1. SiteKeys(other)[i][2] = other[i].id /\ SiteKeys(other)[j][2] = other[j].id
      BY <1>6
    <3>. QED  BY <2>1, <3>1
  <2>. QED  BY <1>6, <2>1 DEF Distinct
<1>11. Selecting!MapCatalog(one) = Selecting!MapCatalog(other)
  <2>1. 2 \in Nat
    OBVIOUS
  <2>2. Selecting!SortedBy(Sites(other), SiteKeys(other)) =
        Selecting!SortedBy(Sites(one), SiteKeys(one))
    <3>1. /\ c \in Nat /\ SiteKeys(one) \in [1 .. c -> [1 .. 2 -> Int]]
          /\ SiteKeys(other) \in [1 .. c -> [1 .. 2 -> Int]]
          /\ OneToOne(q, 1 .. c, 1 .. c)
      BY <1>1, <1>3, <1>6
    <3>2. Alike(q, 2, c, Sites(one), SiteKeys(one), Sites(other), SiteKeys(other))
      BY <3>1, <1>8, <1>9, <1>10, <2>1 DEF Alike
    <3>. QED  BY <3>2, SortedSame
  <2>. QED  BY <1>1, <1>6, <2>2
<1>12. Selecting!Mappable(one) <=> Selecting!Mappable(other)
  <2>. DEFINE Identified(s) == /\ s.id # 0
                           /\ \A j \in DOMAIN s.environments : s.environments[j].id # 0
  <2>1. \A i \in 1 .. c : Identified(other[i]) <=> Identified(one[q[i]])
    BY <1>7
  <2>2. /\ Selecting!Mappable(one) <=> \A i \in 1 .. c : Identified(one[i])
        /\ Selecting!Mappable(other) <=> \A i \in 1 .. c : Identified(other[i])
    BY <1>1, <1>6 DEF Selecting!Mappable
  <2>. HIDE DEF Identified
  <2>3. ASSUME \A i \in 1 .. c : Identified(other[i]), NEW k \in 1 .. c PROVE Identified(one[k])
    <3>1. PICK i \in 1 .. c : q[i] = k
      BY <1>3 DEF OneToOne
    <3>. QED  BY <2>1, <2>3, <3>1
  <2>4. ASSUME \A k \in 1 .. c : Identified(one[k]), NEW i \in 1 .. c PROVE Identified(other[i])
    BY <1>4, <2>1, <2>4
  <2>. QED  BY <2>2, <2>3, <2>4
<1>. QED  BY <1>11, <1>12

-----------------------------------------------------------------------------
(* What is resolved against a catalog.                                     *)

LEMMA Verdicts ==
    ASSUME NEW S
    PROVE  /\ Selecting!Verdict(S) \in {"NotFound", "ok", "AmbiguousTarget"}
           /\ Selecting!Verdict(S) = "ok" => \E x \in S : S = {x}
           /\ (\A x, y \in S : x = y) => Selecting!Verdict(S) # "AmbiguousTarget"
<1>1. CASE S = {}
  BY <1>1 DEF Selecting!Verdict
<1>2. CASE S # {} /\ \E x \in S : S = {x}
  BY <1>2 DEF Selecting!Verdict
<1>3. CASE S # {} /\ ~ \E x \in S : S = {x}
  <2>1. Selecting!Verdict(S) = "AmbiguousTarget"
    BY <1>3 DEF Selecting!Verdict
  <2>2. ~ \A x, y \in S : x = y
    BY <1>3
  <2>. QED  BY <2>1, <2>2
<1>. QED  BY <1>1, <1>2, <1>3

\* A place of the catalog is called what its place in the response is called.
LEMMA PlacesMatch ==
    ASSUME NEW given \in Seq(Selecting!RawSite), NEW g, Matches(g, given),
           NEW place \in Selecting!Places(Selecting!MapCatalog(given))
    PROVE  LET snapshot == Selecting!MapCatalog(given)
               raw == given[g[place][1]]
           IN  /\ g[place] \in Selecting!Places(given)
               /\ snapshot[place[1]].id = raw.id /\ snapshot[place[1]].labels = raw.labels
               /\ Selecting!At(snapshot, place).id = Selecting!At(given, g[place]).id
               /\ Selecting!At(snapshot, place).site = raw.id
               /\ Selecting!At(snapshot, place).kind =
                     Selecting!NormalizedKind(Selecting!At(given, g[place]).kind)
<1>. DEFINE snapshot == Selecting!MapCatalog(given)
            raw == given[g[place][1]]
<1>1. /\ g[place] \in Selecting!Places(given)
      /\ g[place][1] \in DOMAIN given
      /\ snapshot[place[1]] = Selecting!MapSite(raw)
      /\ Selecting!At(snapshot, place) =
            Selecting!MapEnvironment(raw.id, Selecting!At(given, g[place]))
  BY DEF Matches, OneToOne
<1>2. raw \in Selecting!RawSite
  BY <1>1
<1>. HIDE DEF snapshot, raw
<1>3. snapshot[place[1]].id = raw.id /\ snapshot[place[1]].labels = raw.labels
  BY <1>1, <1>2, SiteIs
<1>4. /\ Selecting!At(snapshot, place).id = Selecting!At(given, g[place]).id
      /\ Selecting!At(snapshot, place).site = raw.id
      /\ Selecting!At(snapshot, place).kind =
            Selecting!NormalizedKind(Selecting!At(given, g[place]).kind)
  BY <1>1 DEF Selecting!MapEnvironment
<1>. QED  BY <1>1, <1>3, <1>4 DEF snapshot, raw

\* What the catalog has once, the response has once.
LEMMA OnceListed ==
    ASSUME NEW given \in Seq(Selecting!RawSite), NEW id
    PROVE  LET snapshot == Selecting!MapCatalog(given)
           IN  /\ Selecting!Verdict(Selecting!EnvironmentsOf(snapshot, id)) = "ok" =>
                     \E place \in Selecting!Places(given) :
                        {p \in Selecting!Places(given) : Selecting!At(given, p).id = id} = {place}
               /\ Selecting!Verdict(Selecting!SitesOf(snapshot, id)) = "ok" =>
                     \E i \in DOMAIN given : {j \in DOMAIN given : given[j].id = id} = {i}
<1>. DEFINE snapshot == Selecting!MapCatalog(given)
            E == Selecting!EnvironmentsOf(snapshot, id)
            S == Selecting!SitesOf(snapshot, id)
<1>1. ASSUME Selecting!Verdict(E) = "ok"
      PROVE  \E place \in Selecting!Places(given) :
                {p \in Selecting!Places(given) : Selecting!At(given, p).id = id} = {place}
  <2>1. PICK g : Matches(g, given)
    BY CatalogMatches
  <2>2. PICK x \in E : E = {x}
    BY <1>1, Verdicts
  <2>3. x \in Selecting!Places(snapshot) /\ Selecting!At(snapshot, x).id = id
    BY DEF Selecting!EnvironmentsOf
  <2>4. g[x] \in Selecting!Places(given) /\ Selecting!At(given, g[x]).id = id
    BY <2>1, <2>3, PlacesMatch
  <2>5. ASSUME NEW p \in Selecting!Places(given), Selecting!At(given, p).id = id
        PROVE  p = g[x]
    <3>1. PICK y \in Selecting!Places(snapshot) : g[y] = p
      BY <2>1 DEF Matches, OneToOne
    <3>2. Selecting!At(snapshot, y).id = id
      BY <2>1, <2>5, <3>1, PlacesMatch
    <3>3. y \in E
      BY <3>2 DEF Selecting!EnvironmentsOf
    <3>. QED  BY <2>2, <3>1, <3>3
  <2>. QED  BY <2>4, <2>5
<1>2. ASSUME Selecting!Verdict(S) = "ok"
      PROVE  \E i \in DOMAIN given : {j \in DOMAIN given : given[j].id = id} = {i}
  <2>1. PICK p : /\ OneToOne(p, DOMAIN given, DOMAIN given)
                 /\ snapshot = [k \in DOMAIN given |-> Selecting!MapSite(given[p[k]])]
    BY CatalogIs
  <2>2. \A k \in DOMAIN given : p[k] \in DOMAIN given /\ snapshot[k].id = given[p[k]].id
    <3>1. \A k \in DOMAIN given : p[k] \in DOMAIN given /\ given[p[k]] \in Selecting!RawSite
      BY <2>1 DEF OneToOne
    <3>. HIDE DEF snapshot
    <3>. QED  BY <2>1, <3>1, SiteIs
  <2>3. PICK x \in S : S = {x}
    BY <1>2, Verdicts
  <2>4. DOMAIN snapshot = DOMAIN given
    BY <2>1
  <2>5. x \in DOMAIN given /\ given[p[x]].id = id /\ p[x] \in DOMAIN given
    BY <2>2, <2>4 DEF Selecting!SitesOf
  <2>6. ASSUME NEW j \in DOMAIN given, given[j].id = id PROVE j = p[x]
    <3>1. PICK k \in DOMAIN given : p[k] = j
      BY <2>1 DEF OneToOne
    <3>2. k \in S
      BY <2>2, <2>4, <2>6, <3>1 DEF Selecting!SitesOf
    <3>. QED  BY <2>3, <3>1, <3>2
  <2>. QED  BY <2>5, <2>6
<1>. QED  BY <1>1, <1>2

DistinctPlaces(given) ==
    \A p, q \in Selecting!Places(given) :
        Selecting!At(given, p).id = Selecting!At(given, q).id => p = q

\* Where no identifier is listed twice, none is ambiguous.
LEMMA NoneAmbiguous ==
    ASSUME NEW given \in Seq(Selecting!RawSite), Distinct(given), DistinctPlaces(given), NEW id
    PROVE  LET snapshot == Selecting!MapCatalog(given)
           IN  /\ Selecting!Verdict(Selecting!EnvironmentsOf(snapshot, id)) \in {"NotFound", "ok"}
               /\ Selecting!Verdict(Selecting!SitesOf(snapshot, id)) \in {"NotFound", "ok"}
<1>. DEFINE snapshot == Selecting!MapCatalog(given)
            E == Selecting!EnvironmentsOf(snapshot, id)
            S == Selecting!SitesOf(snapshot, id)
<1>1. ASSUME NEW x \in E, NEW y \in E PROVE x = y
  <2>1. PICK g : Matches(g, given)
    BY CatalogMatches
  <2>2. /\ x \in Selecting!Places(snapshot) /\ Selecting!At(snapshot, x).id = id
        /\ y \in Selecting!Places(snapshot) /\ Selecting!At(snapshot, y).id = id
    BY DEF Selecting!EnvironmentsOf
  <2>3. /\ g[x] \in Selecting!Places(given) /\ Selecting!At(given, g[x]).id = id
        /\ g[y] \in Selecting!Places(given) /\ Selecting!At(given, g[y]).id = id
    BY <2>1, <2>2, PlacesMatch
  <2>4. g[x] = g[y]
    BY <2>3 DEF DistinctPlaces
  <2>. QED  BY <2>1, <2>2, <2>4 DEF Matches, OneToOne
<1>2. ASSUME NEW x \in S, NEW y \in S PROVE x = y
  <2>1. PICK p : /\ OneToOne(p, DOMAIN given, DOMAIN given)
                 /\ snapshot = [k \in DOMAIN given |-> Selecting!MapSite(given[p[k]])]
    BY CatalogIs
  <2>2. \A k \in DOMAIN given : p[k] \in DOMAIN given /\ snapshot[k].id = given[p[k]].id
    <3>1. \A k \in DOMAIN given : p[k] \in DOMAIN given /\ given[p[k]] \in Selecting!RawSite
      BY <2>1 DEF OneToOne
    <3>. HIDE DEF snapshot
    <3>. QED  BY <2>1, <3>1, SiteIs
  <2>3. DOMAIN snapshot = DOMAIN given
    BY <2>1
  <2>4. /\ x \in DOMAIN given /\ given[p[x]].id = id /\ p[x] \in DOMAIN given
        /\ y \in DOMAIN given /\ given[p[y]].id = id /\ p[y] \in DOMAIN given
    BY <2>2, <2>3 DEF Selecting!SitesOf
  <2>5. p[x] = p[y]
    BY <2>4 DEF Distinct
  <2>6. \A k, l \in DOMAIN given : p[k] = p[l] => k = l
    BY <2>1 DEF OneToOne
  <2>. QED  BY <2>4, <2>5, <2>6
<1>. HIDE DEF E, S
<1>3. Selecting!Verdict(E) \in {"NotFound", "ok"}
  BY <1>1, Verdicts
<1>4. Selecting!Verdict(S) \in {"NotFound", "ok"}
  BY <1>2, Verdicts
<1>. QED  BY <1>3, <1>4 DEF E, S

\* Then a command line has one answer.
LEMMA OneAnswer ==
    ASSUME NEW given \in Seq(Selecting!RawSite), Distinct(given), DistinctPlaces(given),
           NEW r \in Requests,
           NEW x \in Selecting!Resolutions(r, Selecting!MapCatalog(given)),
           NEW y \in Selecting!Resolutions(r, Selecting!MapCatalog(given))
    PROVE  x = y
<1>. DEFINE snapshot == Selecting!MapCatalog(given)
<1>1. \A code \in Selecting!Refusals(r, snapshot) : code = "NotFound"
  <2>. DEFINE e == {Selecting!Verdict(Selecting!EnvironmentsOf(snapshot, id)) :
                       id \in r.environments} \ {"ok"}
              s == {Selecting!Verdict(Selecting!SitesOf(snapshot, id)) : id \in r.sites} \ {"ok"}
  <2>1. \A code \in e : code = "NotFound"
    BY NoneAmbiguous
  <2>2. \A code \in s : code = "NotFound"
    BY NoneAmbiguous
  <2>3. Selecting!Refusals(r, snapshot) \subseteq e \cup s \cup {"NotFound"}
    <3>1. \/ Selecting!Refusals(r, snapshot) = e
          \/ Selecting!Refusals(r, snapshot) = s
          \/ Selecting!Refusals(r, snapshot) \subseteq {"NotFound"}
      BY DEF Selecting!Refusals
    <3>. HIDE DEF e, s
    <3>. QED  BY <3>1
  <2>. HIDE DEF e, s
  <2>. QED  BY <2>1, <2>2, <2>3
<1>. HIDE DEF snapshot
<1>2. CASE r.command = "run"
  <2>1. x \in Selecting!SelectEnvironments(r, snapshot)
        /\ y \in Selecting!SelectEnvironments(r, snapshot)
    BY <1>2 DEF Selecting!Resolutions, snapshot
  <2>2. CASE ~ Selecting!WellFormed(r)
    BY <2>1, <2>2 DEF Selecting!SelectEnvironments
  <2>3. CASE Selecting!WellFormed(r) /\ Selecting!Refusals(r, snapshot) # {}
    <3>1. Selecting!SelectEnvironments(r, snapshot) =
             {Selecting!Refused(code) : code \in Selecting!Refusals(r, snapshot)}
      BY <2>3 DEF Selecting!SelectEnvironments
    <3>. QED  BY <1>1, <2>1, <3>1
  <2>4. CASE Selecting!WellFormed(r) /\ Selecting!Refusals(r, snapshot) = {}
    <3>1. \E z : Selecting!SelectEnvironments(r, snapshot) = {z}
      BY <2>4 DEF Selecting!SelectEnvironments
    <3>. QED  BY <2>1, <3>1
  <2>. QED  BY <2>2, <2>3, <2>4
<1>3. CASE r.command = "list"
  <2>1. \E id \in r.sites : r.sites = {id}
    BY <1>3, PartsAssumption DEF Selecting!RequestAssumption
  <2>2. Selecting!Resolutions(r, snapshot) = {Selecting!ResolveSite(snapshot, id) : id \in r.sites}
    BY <1>3 DEF Selecting!Resolutions
  <2>. QED  BY <2>1, <2>2 DEF snapshot
<1>4. CASE r.command = "open"
  <2>1. \E id \in r.environments : r.environments = {id}
    BY <1>4, PartsAssumption DEF Selecting!RequestAssumption
  <2>2. Selecting!Resolutions(r, snapshot) =
           {Selecting!ResolveEnvironment(snapshot, id) : id \in r.environments}
    BY <1>4 DEF Selecting!Resolutions
  <2>. QED  BY <2>1, <2>2 DEF snapshot
<1>5. r.command \in {"run", "list", "open"}
  BY PartsAssumption DEF Selecting!RequestAssumption, Selecting!CommandLine
<1>. QED  BY <1>2, <1>3, <1>4, <1>5

\* The targets are the places that match, one after the other.
LEMMA TargetsAre ==
    ASSUME NEW given \in Seq(Selecting!RawSite), NEW r
    PROVE  LET snapshot == Selecting!MapCatalog(given)
               M == Selecting!Matching(r, snapshot)
               targets == Selecting!Targets(r, snapshot)
           IN  /\ M # {} => targets # <<>>
               /\ \E n \in Nat : \E s :
                     /\ OneToOne(s, 1 .. n, M) /\ DOMAIN targets = 1 .. n
                     /\ \A k \in 1 .. n : targets[k] = Selecting!At(snapshot, s[k])
<1>. DEFINE snapshot == Selecting!MapCatalog(given)
            P == Selecting!Places(snapshot)
            M == Selecting!Matching(r, snapshot)
            before == Selecting!InPlace(M)
            s == Selecting!InOrder(M, before)
            n == Cardinality(M)
            targets == Selecting!Targets(r, snapshot)
<1>1. M \subseteq P
  BY DEF Selecting!Matching
<1>2. IsFiniteSet(P) /\ P \in SUBSET (Nat \X Nat)
  BY CatalogMatches
<1>. HIDE DEF P, M
<1>3. IsFiniteSet(M) /\ M \in SUBSET (Nat \X Nat)
  BY <1>1, <1>2, FS_Subset
<1>4. Orders(before, M)
  BY <1>3, PlacesOrder
<1>. HIDE DEF before
<1>5. n \in Nat /\ OneToOne(s, 1 .. n, M)
  BY <1>3, <1>4, OrderIs
<1>6. targets = [k \in DOMAIN s |-> Selecting!At(snapshot, s[k])]
  BY DEF Selecting!Targets, M, before
<1>7. DOMAIN s = 1 .. n
  BY <1>5 DEF OneToOne
<1>8. DOMAIN targets = 1 .. n /\ \A k \in 1 .. n : targets[k] = Selecting!At(snapshot, s[k])
  BY <1>6, <1>7
<1>9. M # {} => targets # <<>>
  <2>1. M # {} => 1 .. n # {}
    BY <1>5 DEF OneToOne
  <2>. HIDE DEF targets, n
  <2>2. DOMAIN <<>> = {}
    OBVIOUS
  <2>3. DOMAIN targets = 1 .. n
    BY <1>8
  <2>. QED  BY <2>1, <2>2, <2>3, Zenon
<1>. HIDE DEF s, n, targets
<1>. QED  BY <1>5, <1>8, <1>9 DEF M, targets

\* A run that resolves has a catalog that lists what is named exactly once.
LEMMA RunResolves ==
    ASSUME NEW given \in Seq(Selecting!RawSite), NEW r,
           NEW made \in Selecting!SelectEnvironments(r, Selecting!MapCatalog(given)),
           made.code = "ok"
    PROVE  LET snapshot == Selecting!MapCatalog(given)
           IN  /\ Selecting!WellFormed(r)
               /\ Selecting!Matching(r, snapshot) # {}
               /\ made.targets = Selecting!Targets(r, snapshot)
               /\ made.broad = Selecting!Broad(r)
               /\ \A id \in r.environments :
                     Selecting!Verdict(Selecting!EnvironmentsOf(snapshot, id)) = "ok"
               /\ \A id \in r.sites :
                     Selecting!Verdict(Selecting!SitesOf(snapshot, id)) = "ok"
<1>. DEFINE snapshot == Selecting!MapCatalog(given)
            e == {Selecting!Verdict(Selecting!EnvironmentsOf(snapshot, id)) :
                     id \in r.environments} \ {"ok"}
            s == {Selecting!Verdict(Selecting!SitesOf(snapshot, id)) : id \in r.sites} \ {"ok"}
            labels == IF \A l \in r.labels : Selecting!Labelled(snapshot, l) THEN {}
                      ELSE {"NotFound"}
<1>1. Selecting!Refusals(r, snapshot) = IF e # {} THEN e ELSE IF s # {} THEN s ELSE labels
  BY DEF Selecting!Refusals
<1>2. "ok" \notin e /\ "ok" \notin s /\ "ok" \notin labels
  OBVIOUS
<1>3. ASSUME e = {}, NEW id \in r.environments
      PROVE  Selecting!Verdict(Selecting!EnvironmentsOf(snapshot, id)) = "ok"
  BY <1>3
<1>4. ASSUME s = {}, NEW id \in r.sites
      PROVE  Selecting!Verdict(Selecting!SitesOf(snapshot, id)) = "ok"
  BY <1>4
<1>. HIDE DEF e, s, labels, snapshot
<1>5. "ok" \notin Selecting!Refusals(r, snapshot)
  BY <1>1, <1>2
<1>6. \A code : Selecting!Refused(code).code = code
  BY DEF Selecting!Refused
<1>7. made \in Selecting!SelectEnvironments(r, snapshot)
  BY DEF snapshot
<1>8. Selecting!WellFormed(r)
  <2>. SUFFICES ASSUME ~ Selecting!WellFormed(r) PROVE FALSE
    OBVIOUS
  <2>1. made = Selecting!Refused("InvalidInput")
    BY <1>7 DEF Selecting!SelectEnvironments
  <2>. QED  BY <1>6, <2>1
<1>9. Selecting!Refusals(r, snapshot) = {}
  <2>. SUFFICES ASSUME Selecting!Refusals(r, snapshot) # {} PROVE FALSE
    OBVIOUS
  <2>1. Selecting!SelectEnvironments(r, snapshot) =
           {Selecting!Refused(code) : code \in Selecting!Refusals(r, snapshot)}
    BY <1>8 DEF Selecting!SelectEnvironments
  <2>. QED  BY <1>5, <1>6, <1>7, <2>1
<1>10. made = IF Selecting!Matching(r, snapshot) = {} THEN Selecting!Refused("NotFound")
              ELSE Selecting!Resolved(Selecting!Targets(r, snapshot), Selecting!Broad(r), 0)
  BY <1>7, <1>8, <1>9 DEF Selecting!SelectEnvironments
<1>11. Selecting!Matching(r, snapshot) # {}
  BY <1>6, <1>10
<1>12. made = Selecting!Resolved(Selecting!Targets(r, snapshot), Selecting!Broad(r), 0)
  BY <1>10, <1>11
<1>13. made.targets = Selecting!Targets(r, snapshot) /\ made.broad = Selecting!Broad(r)
  BY <1>12 DEF Selecting!Resolved
<1>14. e = {} /\ s = {}
  BY <1>1, <1>9
<1>. QED  BY <1>3, <1>4, <1>8, <1>11, <1>13, <1>14 DEF snapshot

\* The commands that take one identifier.
LEMMA ExactResolves ==
    ASSUME NEW snapshot, NEW id
    PROVE  /\ Selecting!ResolveSite(snapshot, id).code =
                 Selecting!Verdict(Selecting!SitesOf(snapshot, id))
           /\ Selecting!ResolveEnvironment(snapshot, id).code =
                 Selecting!Verdict(Selecting!EnvironmentsOf(snapshot, id))
           /\ Selecting!ResolveSite(snapshot, id).broad = FALSE
           /\ Selecting!ResolveEnvironment(snapshot, id).broad = FALSE
           /\ Selecting!Verdict(Selecting!EnvironmentsOf(snapshot, id)) = "ok" =>
                 Selecting!ResolveEnvironment(snapshot, id).targets # <<>>
  BY DEF Selecting!ResolveSite, Selecting!ResolveEnvironment, Selecting!Resolved,
         Selecting!Refused

-----------------------------------------------------------------------------
(* The commands, from the request to the result.                           *)

Answers(given, made) ==
    IF Selecting!Malformed(request) THEN made = Selecting!Refused("InvalidInput")
    ELSE IF ~ Selecting!Mappable(given) THEN made = Selecting!Refused("ProviderUnavailable")
    ELSE made \in Selecting!Resolutions(request, Selecting!MapCatalog(given))

\* A result answers the response, and the result before it another response of
\* the same content.
SelectionInv ==
    /\ selecting \in {"fetch", "resolve", "resolved"}
    /\ request \in Requests /\ response \in Responses
    /\ selecting # "resolved" => result = Selecting!Missing
    /\ selecting = "resolve" => /\ ~ Selecting!Malformed(request)
                                /\ Selecting!Mappable(response)
                                /\ catalog = Selecting!MapCatalog(response)
    /\ selecting = "resolved" => Answers(response, result)
    /\ previous # Selecting!Missing =>
          \E given \in Responses : Selecting!SameContent(given, response) /\ Answers(given, previous)

LEMMA SelectionInvHolds == Selecting!Spec => []SelectionInv
<1>1. Selecting!Init => SelectionInv
  BY DEF Selecting!Init, SelectionInv
<1>2. SelectionInv /\ [Selecting!Next]_(Selecting!vars) => SelectionInv'
  <2>. SUFFICES ASSUME SelectionInv, [Selecting!Next]_(Selecting!vars)
                PROVE  SelectionInv'
    OBVIOUS
  <2>1. CASE Selecting!Fetch
    <3>1. /\ request' = request /\ response' = response /\ previous' = previous
          /\ selecting' \in {"resolve", "resolved"} /\ selecting = "fetch"
      BY <2>1 DEF Selecting!Fetch
    <3>2. selecting' = "resolve" =>
             /\ ~ Selecting!Malformed(request) /\ Selecting!Mappable(response)
             /\ catalog' = Selecting!MapCatalog(response) /\ result' = result
      BY <2>1 DEF Selecting!Fetch
    <3>3. selecting' = "resolved" =>
             \/ /\ Selecting!Malformed(request)
                /\ result' = Selecting!Refused("InvalidInput")
             \/ /\ ~ Selecting!Malformed(request) /\ ~ Selecting!Mappable(response)
                /\ result' = Selecting!Refused("ProviderUnavailable")
      BY <2>1 DEF Selecting!Fetch
    <3>. QED  BY <3>1, <3>2, <3>3 DEF SelectionInv, Answers
  <2>2. CASE Selecting!Resolve
    BY <2>2 DEF Selecting!Resolve, SelectionInv, Answers
  <2>3. CASE Selecting!RunAgain
    <3>1. /\ request' = request /\ response' \in Responses
          /\ Selecting!SameContent(response, response')
          /\ previous' = result /\ selecting' = "fetch" /\ selecting = "resolved"
          /\ result' = Selecting!Missing
      BY <2>3 DEF Selecting!RunAgain
    <3>. QED  BY <3>1 DEF SelectionInv, Answers
  <2>4. CASE UNCHANGED Selecting!vars
    BY <2>4 DEF Selecting!vars, SelectionInv, Answers
  <2>. QED  BY <2>1, <2>2, <2>3, <2>4 DEF Selecting!Next
<1>. QED  BY <1>1, <1>2, PTL DEF Selecting!Spec

\* A result that answers is of the type of results.
LEMMA AnswersFit ==
    ASSUME NEW given \in Seq(Selecting!RawSite), NEW made, Answers(given, made),
           request \in Requests
    PROVE  /\ made.code \in Selecting!Codes /\ made.broad \in BOOLEAN
           /\ made.code = "ok" /\ request.command # "list" => made.targets # <<>>
<1>. DEFINE snapshot == Selecting!MapCatalog(given)
<1>1. \A code : Selecting!Refused(code).code = code /\ Selecting!Refused(code).broad = FALSE
  BY DEF Selecting!Refused
<1>2. request.command \in {"run", "list", "open"}
  BY PartsAssumption DEF Selecting!RequestAssumption, Selecting!CommandLine
<1>3. request.all \in BOOLEAN
  BY PartsAssumption DEF Selecting!RequestAssumption, Selecting!CommandLine
<1>. HIDE DEF snapshot
<1>4. CASE made = Selecting!Refused("InvalidInput") \/ made = Selecting!Refused("ProviderUnavailable")
  BY <1>1, <1>4 DEF Selecting!Codes
<1>5. CASE made \in Selecting!Resolutions(request, snapshot)
  <2>1. CASE request.command = "run"
    <3>1. made \in Selecting!SelectEnvironments(request, snapshot)
      BY <1>5, <2>1 DEF Selecting!Resolutions
    <3>2. made.code \in Selecting!Codes /\ made.broad \in BOOLEAN
      <4>1. CASE ~ Selecting!WellFormed(request)
        BY <1>1, <3>1, <4>1 DEF Selecting!SelectEnvironments, Selecting!Codes
      <4>2. CASE Selecting!WellFormed(request) /\ Selecting!Refusals(request, snapshot) # {}
        <5>1. PICK code \in Selecting!Refusals(request, snapshot) : made = Selecting!Refused(code)
          BY <3>1, <4>2 DEF Selecting!SelectEnvironments
        <5>2. code \in {"NotFound", "ok", "AmbiguousTarget"}
          BY Verdicts DEF Selecting!Refusals
        <5>. QED  BY <1>1, <5>1, <5>2 DEF Selecting!Codes
      <4>3. CASE Selecting!WellFormed(request) /\ Selecting!Refusals(request, snapshot) = {}
        <5>1. \/ made = Selecting!Refused("NotFound")
              \/ made = Selecting!Resolved(Selecting!Targets(request, snapshot),
                                           Selecting!Broad(request), 0)
          BY <3>1, <4>3 DEF Selecting!SelectEnvironments
        <5>2. Selecting!Broad(request) \in BOOLEAN
          BY <1>3 DEF Selecting!Broad
        <5>3. CASE made = Selecting!Refused("NotFound")
          BY <1>1, <5>3 DEF Selecting!Codes
        <5>4. CASE made = Selecting!Resolved(Selecting!Targets(request, snapshot),
                                             Selecting!Broad(request), 0)
          <6>1. made.code = "ok" /\ made.broad = Selecting!Broad(request)
            BY <5>4 DEF Selecting!Resolved
          <6>2. made.broad \in BOOLEAN
            BY <5>2, <6>1, Zenon
          <6>. QED  BY <6>1, <6>2 DEF Selecting!Codes
        <5>. QED  BY <5>1, <5>3, <5>4
      <4>. QED  BY <4>1, <4>2, <4>3
    <3>3. made.code = "ok" => made.targets # <<>>
      <4>1. ASSUME made.code = "ok"
            PROVE  /\ Selecting!Matching(request, snapshot) # {}
                   /\ made.targets = Selecting!Targets(request, snapshot)
        BY <3>1, <4>1, RunResolves DEF snapshot
      <4>2. Selecting!Matching(request, snapshot) # {} =>
               Selecting!Targets(request, snapshot) # <<>>
        BY TargetsAre DEF snapshot
      <4>. QED  BY <4>1, <4>2
    <3>. QED  BY <3>2, <3>3
  <2>2. CASE request.command = "list"
    <3>1. PICK id : made = Selecting!ResolveSite(snapshot, id)
      BY <1>5, <2>2 DEF Selecting!Resolutions
    <3>2. Selecting!Verdict(Selecting!SitesOf(snapshot, id)) \in Selecting!Codes
      BY Verdicts DEF Selecting!Codes
    <3>. QED  BY <2>2, <3>1, <3>2, ExactResolves
  <2>3. CASE request.command = "open"
    <3>1. PICK id : made = Selecting!ResolveEnvironment(snapshot, id)
      BY <1>5, <2>3 DEF Selecting!Resolutions
    <3>2. Selecting!Verdict(Selecting!EnvironmentsOf(snapshot, id)) \in Selecting!Codes
      BY Verdicts DEF Selecting!Codes
    <3>. QED  BY <3>1, <3>2, ExactResolves
  <2>. QED  BY <1>2, <2>1, <2>2, <2>3
<1>. QED  BY <1>4, <1>5 DEF Answers, snapshot

\* What the invariant says of a success.
LEMMA SucceedsBy ==
    ASSUME SelectionInv, Selecting!Succeeded
    PROVE  /\ response \in Seq(Selecting!RawSite) /\ request \in Requests
           /\ result \in Selecting!Resolutions(request, Selecting!MapCatalog(response))
<1>1. response \in Seq(Selecting!RawSite) /\ request \in Requests
  BY PartsAssumption DEF Selecting!RequestAssumption, SelectionInv
<1>2. Answers(response, result) /\ result.code = "ok"
  BY DEF SelectionInv, Selecting!Succeeded
<1>3. \A code : Selecting!Refused(code).code = code
  BY DEF Selecting!Refused
<1>. QED  BY <1>1, <1>2, <1>3 DEF Answers

LEMMA TypeKept == SelectionInv => Selecting!TypeOK
<1>. SUFFICES ASSUME SelectionInv PROVE Selecting!TypeOK
  OBVIOUS
<1>1. request \in Requests /\ \A given \in Responses : given \in Seq(Selecting!RawSite)
  BY PartsAssumption DEF Selecting!RequestAssumption, SelectionInv
<1>2. ASSUME NEW run \in {result, previous}, run # Selecting!Missing
      PROVE  \E given \in Responses : Answers(given, run)
  BY <1>2 DEF SelectionInv
<1>3. ASSUME NEW run \in {result, previous}, run # Selecting!Missing
      PROVE  /\ run.code \in Selecting!Codes /\ run.broad \in BOOLEAN
             /\ run.code = "ok" /\ request.command # "list" => run.targets # <<>>
  <2>1. PICK given \in Responses : Answers(given, run)
    BY <1>2, <1>3
  <2>. QED  BY <1>1, <2>1, AnswersFit
<1>. QED  BY <1>3 DEF SelectionInv, Selecting!TypeOK

LEMMA NothingGuessed == SelectionInv => Selecting!ExactNeverGuesses
<1>. SUFFICES ASSUME SelectionInv, Selecting!Succeeded
              PROVE  /\ \A id \in request.environments :
                           \E place \in Selecting!Places(response) :
                               Selecting!EnvironmentPlaces(id) = {place}
                     /\ \A id \in request.sites :
                           \E i \in DOMAIN response : Selecting!SitePlaces(id) = {i}
  BY DEF Selecting!ExactNeverGuesses
<1>. DEFINE snapshot == Selecting!MapCatalog(response)
<1>1. /\ response \in Seq(Selecting!RawSite) /\ request \in Requests
      /\ result \in Selecting!Resolutions(request, snapshot)
  BY SucceedsBy
<1>2. result.code = "ok"
  BY DEF Selecting!Succeeded
<1>. HIDE DEF snapshot
<1>3. /\ \A id \in request.environments :
            Selecting!Verdict(Selecting!EnvironmentsOf(snapshot, id)) = "ok"
      /\ \A id \in request.sites : Selecting!Verdict(Selecting!SitesOf(snapshot, id)) = "ok"
  <2>1. CASE request.command = "run"
    BY <1>1, <1>2, <2>1, RunResolves DEF Selecting!Resolutions, snapshot
  <2>2. CASE request.command = "list"
    <3>1. request.environments = {} /\ \E id \in request.sites : request.sites = {id}
      BY <1>1, <2>2, PartsAssumption DEF Selecting!RequestAssumption
    <3>2. PICK id \in request.sites : result = Selecting!ResolveSite(snapshot, id)
      BY <1>1, <2>2 DEF Selecting!Resolutions
    <3>3. Selecting!Verdict(Selecting!SitesOf(snapshot, id)) = "ok"
      BY <1>2, <3>2, ExactResolves
    <3>. QED  BY <3>1, <3>3
  <2>3. CASE request.command = "open"
    <3>1. request.sites = {} /\ \E id \in request.environments : request.environments = {id}
      BY <1>1, <2>3, PartsAssumption DEF Selecting!RequestAssumption
    <3>2. PICK id \in request.environments : result = Selecting!ResolveEnvironment(snapshot, id)
      BY <1>1, <2>3 DEF Selecting!Resolutions
    <3>3. Selecting!Verdict(Selecting!EnvironmentsOf(snapshot, id)) = "ok"
      BY <1>2, <3>2, ExactResolves
    <3>. QED  BY <3>1, <3>3
  <2>4. request.command \in {"run", "list", "open"}
    BY <1>1, PartsAssumption DEF Selecting!RequestAssumption, Selecting!CommandLine
  <2>. QED  BY <2>1, <2>2, <2>3, <2>4
<1>4. ASSUME NEW id \in request.environments
      PROVE  \E place \in Selecting!Places(response) : Selecting!EnvironmentPlaces(id) = {place}
  BY <1>1, <1>3, OnceListed DEF Selecting!EnvironmentPlaces, Selecting!EnvironmentAt, snapshot
<1>5. ASSUME NEW id \in request.sites
      PROVE  \E i \in DOMAIN response : Selecting!SitePlaces(id) = {i}
  BY <1>1, <1>3, OnceListed DEF Selecting!SitePlaces, snapshot
<1>. QED  BY <1>4, <1>5

LEMMA NarrowOnes == SelectionInv => Selecting!NarrowIsExact
<1>. SUFFICES ASSUME SelectionInv, Selecting!Succeeded, request.command = "run", ~ result.broad
              PROVE  /\ {result.targets[i].id : i \in DOMAIN result.targets} = request.environments
                     /\ \A i, j \in DOMAIN result.targets :
                           result.targets[i].id = result.targets[j].id => i = j
  BY DEF Selecting!NarrowIsExact
<1>. DEFINE snapshot == Selecting!MapCatalog(response)
            M == Selecting!Matching(request, snapshot)
<1>1. /\ response \in Seq(Selecting!RawSite)
      /\ result \in Selecting!SelectEnvironments(request, snapshot) /\ result.code = "ok"
  BY SucceedsBy DEF Selecting!Resolutions, Selecting!Succeeded
<1>2. /\ result.targets = Selecting!Targets(request, snapshot)
      /\ result.broad = Selecting!Broad(request)
      /\ Selecting!WellFormed(request)
      /\ \A id \in request.environments :
            Selecting!Verdict(Selecting!EnvironmentsOf(snapshot, id)) = "ok"
  BY <1>1, RunResolves
<1>3. /\ request.sites = {} /\ request.kinds = {} /\ request.labels = {}
      /\ request.environments # {}
  BY <1>2 DEF Selecting!Broad, Selecting!WellFormed
<1>4. PICK n \in Nat : \E s : /\ OneToOne(s, 1 .. n, M) /\ DOMAIN result.targets = 1 .. n
                              /\ \A k \in 1 .. n : result.targets[k] = Selecting!At(snapshot, s[k])
  BY <1>1, <1>2, TargetsAre
<1>5. PICK s : /\ OneToOne(s, 1 .. n, M) /\ DOMAIN result.targets = 1 .. n
               /\ \A k \in 1 .. n : result.targets[k] = Selecting!At(snapshot, s[k])
  BY <1>4
<1>6. M = {p \in Selecting!Places(snapshot) : Selecting!At(snapshot, p).id \in request.environments}
  BY <1>3 DEF Selecting!Matching, Selecting!SiteMatches, Selecting!EnvironmentMatches
<1>. HIDE DEF M, snapshot
<1>7. \A id \in request.environments :
         \E p : Selecting!EnvironmentsOf(snapshot, id) = {p}
  BY <1>2, Verdicts
<1>8. ASSUME NEW k \in 1 .. n
      PROVE  /\ s[k] \in M /\ result.targets[k].id \in request.environments
             /\ s[k] \in Selecting!EnvironmentsOf(snapshot, result.targets[k].id)
  BY <1>5, <1>6 DEF OneToOne, Selecting!EnvironmentsOf
<1>9. ASSUME NEW id \in request.environments PROVE \E k \in 1 .. n : result.targets[k].id = id
  <2>1. PICK p : Selecting!EnvironmentsOf(snapshot, id) = {p}
    BY <1>7
  <2>2. p \in M /\ Selecting!At(snapshot, p).id = id
    BY <1>6, <2>1 DEF Selecting!EnvironmentsOf
  <2>3. PICK k \in 1 .. n : s[k] = p
    BY <1>5, <2>2 DEF OneToOne
  <2>. QED  BY <1>5, <2>2, <2>3
<1>10. ASSUME NEW i \in 1 .. n, NEW j \in 1 .. n, result.targets[i].id = result.targets[j].id
       PROVE  i = j
  <2>1. s[i] = s[j]
    BY <1>7, <1>8, <1>10
  <2>. QED  BY <1>5, <2>1 DEF OneToOne
<1>11. DOMAIN result.targets = 1 .. n
  BY <1>5
<1>12. {result.targets[i].id : i \in 1 .. n} = request.environments
  BY <1>8, <1>9
<1>. QED  BY <1>10, <1>11, <1>12

LEMMA AdmittedSelected == SelectionInv => Selecting!SelectsWhatIsAdmitted
<1>. DEFINE admitted == {place \in Selecting!Places(response) : Selecting!Admitted(place)}
            snapshot == Selecting!MapCatalog(response)
            M == Selecting!Matching(request, snapshot)
            Shown(at) ==
                /\ \A place \in admitted : \E i \in DOMAIN result.targets : at[i] = place
                /\ \A i, j \in DOMAIN result.targets : at[i] = at[j] => i = j
                /\ \A i \in DOMAIN result.targets :
                      /\ result.targets[i].id = Selecting!EnvironmentAt(at[i]).id
                      /\ result.targets[i].site = response[at[i][1]].id
<1>. SUFFICES ASSUME SelectionInv, Selecting!Succeeded, request.command = "run"
              PROVE  \E at \in [DOMAIN result.targets -> admitted] : Shown(at)
  BY DEF Selecting!SelectsWhatIsAdmitted
<1>1. /\ response \in Seq(Selecting!RawSite)
      /\ result \in Selecting!SelectEnvironments(request, snapshot) /\ result.code = "ok"
  BY SucceedsBy DEF Selecting!Resolutions, Selecting!Succeeded
<1>2. result.targets = Selecting!Targets(request, snapshot)
  BY <1>1, RunResolves
<1>3. PICK n \in Nat : \E s : /\ OneToOne(s, 1 .. n, M) /\ DOMAIN result.targets = 1 .. n
                              /\ \A k \in 1 .. n : result.targets[k] = Selecting!At(snapshot, s[k])
  BY <1>1, <1>2, TargetsAre
<1>4. PICK s : /\ OneToOne(s, 1 .. n, M) /\ DOMAIN result.targets = 1 .. n
               /\ \A k \in 1 .. n : result.targets[k] = Selecting!At(snapshot, s[k])
  BY <1>3
<1>5. PICK g : Matches(g, response)
  BY <1>1, CatalogMatches
<1>6. ASSUME NEW place \in Selecting!Places(snapshot)
      PROVE  /\ place \in M <=> g[place] \in admitted
             /\ g[place] \in Selecting!Places(response)
             /\ Selecting!At(snapshot, place).id = Selecting!EnvironmentAt(g[place]).id
             /\ Selecting!At(snapshot, place).site = response[g[place][1]].id
  <2>. DEFINE raw == response[g[place][1]]
              site == snapshot[place[1]]
              environment == Selecting!At(snapshot, place)
              given == Selecting!EnvironmentAt(g[place])
  <2>1. /\ g[place] \in Selecting!Places(response)
        /\ site.id = raw.id /\ site.labels = raw.labels
        /\ environment.id = given.id /\ environment.site = raw.id
        /\ environment.kind = Selecting!NormalizedKind(given.kind)
    BY <1>1, <1>5, PlacesMatch DEF Selecting!EnvironmentAt
  <2>2. place \in M <=> /\ Selecting!SiteMatches(request, site)
                        /\ Selecting!EnvironmentMatches(request, environment)
    BY DEF Selecting!Matching
  <2>3. g[place] \in admitted <=>
           /\ request.sites # {} => request.sites \cap {raw.id} # {}
           /\ request.labels # {} => request.labels \cap raw.labels # {}
           /\ request.environments # {} => request.environments \cap {given.id} # {}
           /\ request.kinds # {} =>
                 request.kinds \cap {Selecting!NormalizedKind(given.kind)} # {}
    BY <2>1 DEF Selecting!Admitted
  <2>. HIDE DEF raw, site, environment, given, M, admitted
  <2>4. place \in M <=> g[place] \in admitted
    BY <2>1, <2>2, <2>3 DEF Selecting!SiteMatches, Selecting!EnvironmentMatches
  <2>. QED  BY <2>1, <2>4 DEF raw, environment, given
<1>7. M \subseteq Selecting!Places(snapshot) /\ admitted \subseteq Selecting!Places(response)
  BY DEF Selecting!Matching
<1>. DEFINE at == [k \in 1 .. n |-> g[s[k]]]
<1>. HIDE DEF M, admitted, snapshot
<1>8. ASSUME NEW k \in 1 .. n
      PROVE  /\ s[k] \in M /\ s[k] \in Selecting!Places(snapshot)
             /\ at[k] = g[s[k]] /\ at[k] \in admitted
  BY <1>4, <1>6, <1>7 DEF OneToOne
<1>9. at \in [1 .. n -> admitted]
  BY <1>8
<1>. HIDE DEF at
<1>10. ASSUME NEW place \in admitted PROVE \E k \in 1 .. n : at[k] = place
  <2>1. PICK p \in Selecting!Places(snapshot) : g[p] = place
    BY <1>5, <1>7 DEF Matches, OneToOne, snapshot
  <2>2. p \in M
    BY <1>6, <2>1
  <2>3. PICK k \in 1 .. n : s[k] = p
    BY <1>4, <2>2 DEF OneToOne
  <2>. QED  BY <1>8, <2>1, <2>3
<1>11. ASSUME NEW i \in 1 .. n, NEW j \in 1 .. n, at[i] = at[j] PROVE i = j
  <2>1. g[s[i]] = g[s[j]] /\ s[i] \in Selecting!Places(snapshot)
        /\ s[j] \in Selecting!Places(snapshot)
    BY <1>8, <1>11
  <2>2. s[i] = s[j]
    BY <1>5, <2>1 DEF Matches, OneToOne, snapshot
  <2>. QED  BY <1>4, <2>2 DEF OneToOne
<1>12. ASSUME NEW i \in 1 .. n
       PROVE  /\ result.targets[i].id = Selecting!EnvironmentAt(at[i]).id
              /\ result.targets[i].site = response[at[i][1]].id
  BY <1>4, <1>6, <1>8
<1>13. DOMAIN result.targets = 1 .. n
  BY <1>4
<1>14. Shown(at)
  BY <1>10, <1>11, <1>12, <1>13
<1>. HIDE DEF Shown
<1>. QED  BY <1>9, <1>13, <1>14

LEMMA AnsweredAlike == SelectionInv => Selecting!SameAgain
<1>. SUFFICES ASSUME SelectionInv, result # Selecting!Missing, previous # Selecting!Missing,
                     Selecting!Unambiguous
              PROVE  result = previous
  BY DEF Selecting!SameAgain
<1>1. response \in Seq(Selecting!RawSite) /\ request \in Requests
      /\ Responses \subseteq Seq(Selecting!RawSite)
  BY PartsAssumption DEF Selecting!RequestAssumption, SelectionInv
<1>2. Answers(response, result)
  BY DEF SelectionInv
<1>3. PICK given \in Responses :
         Selecting!SameContent(given, response) /\ Answers(given, previous)
  BY DEF SelectionInv
<1>4. DistinctPlaces(response)
  BY DEF Selecting!Unambiguous, DistinctPlaces, Selecting!EnvironmentAt
<1>5. Distinct(response)
  <2>1. \A i, j \in DOMAIN response : response[i].id = response[j].id => i = j
    BY DEF Selecting!Unambiguous
  <2>2. ASSUME NEW i \in DOMAIN response, NEW j \in DOMAIN response[i].environments,
               NEW k \in DOMAIN response[i].environments,
               response[i].environments[j].id = response[i].environments[k].id
        PROVE  j = k
    <3>1. /\ <<i, j>> \in Selecting!Places(response) /\ <<i, k>> \in Selecting!Places(response)
          /\ Selecting!At(response, <<i, j>>) = response[i].environments[j]
          /\ Selecting!At(response, <<i, k>>) = response[i].environments[k]
      BY <1>1, PlacesAre
    <3>2. <<i, j>> = <<i, k>>
      BY <1>4, <2>2, <3>1 DEF DistinctPlaces
    <3>. QED  BY <3>2
  <2>. QED  BY <2>1, <2>2 DEF Distinct
<1>6. /\ Selecting!Mappable(given) <=> Selecting!Mappable(response)
      /\ Selecting!MapCatalog(given) = Selecting!MapCatalog(response)
  BY <1>1, <1>3, <1>5, SameCatalog
<1>7. Answers(response, previous)
  BY <1>3, <1>6 DEF Answers
<1>8. \A x, y \in Selecting!Resolutions(request, Selecting!MapCatalog(response)) : x = y
  BY <1>1, <1>4, <1>5, OneAnswer
<1>. QED  BY <1>2, <1>7, <1>8 DEF Answers

\* Selection is exact: what succeeds was listed once, is what the command line
\* names or what every category admits, and is answered the same whatever the
\* order of the provider's lists.
THEOREM SelectionsAreExact == Selecting!Spec => []SelectionIsExact
<1>1. SelectionInv => SelectionIsExact
  BY TypeKept, NothingGuessed, NarrowOnes, AdmittedSelected, AnsweredAlike
     DEF SelectionIsExact, Selecting!SelectionIsExact
<1>. QED  BY <1>1, SelectionInvHolds, PTL
=============================================================================
