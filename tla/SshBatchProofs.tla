--------------------------- MODULE SshBatchProofs ---------------------------
(***************************************************************************)
(* The inductive invariant of SshBatch, and what follows from it for any   *)
(* batch and any number of threads: few late starts under fail-fast, and   *)
(* that every step of the threads is a step of SshBatchContract or none.   *)
(***************************************************************************)
EXTENDS SshBatch, FiniteSetTheorems, TLAPS

\* What a thread holds: a claimed index of its own, whose slot is empty and
\* whose child is as far as the thread is.
ClaimOK(w) ==
    LET t == worker[w]
    IN  /\ t.pc \in Holding =>
              /\ t.index \in Index
              /\ t.index < next
              /\ slots[t.index] = Unset
        /\ t.pc \in {"recheck", "execute"} => child[t.index] = "none"
        /\ t.pc = "wait" => child[t.index] = "running"
        /\ t.pc \in {"notice", "store"} =>
              child[t.index] # "running" /\ t.outcome \in Outcome

\* A thread that left its loop had a reason.
LeftOK(w) == worker[w].pc = "done" =>
                 Halted \/ next > Len(targets) \/ w > Len(targets)

\* Every child is driven, and every claim is held, settled or given up.
TargetOK(i) ==
    /\ child[i] = "running" =>
          \E w \in Worker : worker[w].pc = "wait" /\ worker[w].index = i
    /\ i >= next => child[i] = "none" /\ slots[i] = Unset
    /\ slots[i] # Unset => child[i] # "running"
    /\ i < next /\ slots[i] = Unset =>
          \/ Halted
          \/ \E w \in Worker : worker[w].pc \in Holding /\ worker[w].index = i
    /\ child[i] # "none" => i < next

\* The stop flag is set by a failure under fail-fast, and stays.
StopOK ==
    stop => /\ FailFast
            /\ \E i \in Index, outcome \in Outcome \ {"succeeded"} : Known(i, outcome)

\* The calling thread goes on when the others are done, and knows why a slot
\* is empty.
MainOK ==
    /\ main # "done" => report = <<>>
    /\ main \in {"collect", "done"} => \A w \in Worker : worker[w].pc = "done"
    /\ main = "collect" /\ (\E i \in Index : slots[i] = Unset) =>
          \/ reason = "cancelled" /\ cancelled
          \/ reason = "skipped" /\ FailFast /\ stop

Inv ==
    /\ TypeOK
    /\ next >= 1
    /\ \A w \in Worker : ClaimOK(w) /\ LeftOK(w)
    /\ OneThreadPerTarget
    /\ \A i \in Index : TargetOK(i)
    /\ StopOK
    /\ MainOK

-----------------------------------------------------------------------------
LEMMA Positions ==
    ASSUME TypeOK
    PROVE  /\ Len(targets) \in Nat /\ Len(targets) >= 1
           /\ Index = 1..Len(targets)
           /\ targets \in Seq(Environment)
<1>1. targets \in Seq(Environment) /\ targets # <<>>
  BY BatchAssumption DEF TypeOK
<1>. QED  BY <1>1 DEF Index

\* A thread at work belongs to a batch that is not reported yet.
LEMMA AtWork ==
    ASSUME Inv, NEW w \in Worker, NEW pc, At(w, pc), pc # "done"
    PROVE  main = "scope" /\ report = <<>> /\ worker[w].pc = pc
BY DEF Inv, TypeOK, MainOK, At

\* What a step of one thread does to the threads.
LEMMA Moved ==
    ASSUME TypeOK, NEW w \in Worker, NEW pc \in Pc, Goto(w, pc)
    PROVE  /\ worker' \in [Worker -> Thread]
           /\ worker'[w].pc = pc
           /\ worker'[w].index = worker[w].index
           /\ worker'[w].outcome = worker[w].outcome
           /\ \A v \in Worker : v # w => worker'[v] = worker[v]
BY DEF TypeOK, Goto, Thread

LEMMA MovedOn ==
    ASSUME TypeOK, NEW w \in Worker, NEW outcome \in Outcome, Ended(w, outcome)
    PROVE  /\ worker' \in [Worker -> Thread]
           /\ worker'[w].pc = "notice"
           /\ worker'[w].index = worker[w].index
           /\ worker'[w].outcome = outcome
           /\ \A v \in Worker : v # w => worker'[v] = worker[v]
BY DEF TypeOK, Ended, Thread, Pc, Holding

\* A step of a thread that leaves slots and children alone, and keeps its claim
\* if it has one.
LEMMA QuietMove ==
    ASSUME Inv, NEW w \in Worker, NEW pc \in Pc, NEW old,
           At(w, old), old \in {"check", "recheck", "notice"}, Goto(w, pc),
           UNCHANGED <<targets, next, cancelled, child, slots, main, reason,
                       report, late>>,
           stop' \in BOOLEAN, stop => stop',
           old = "check" => pc \in {"claim", "done"},
           old = "recheck" => pc \in {"execute", "done"},
           old = "notice" => pc = "store",
           pc = "done" => Halted,
           StopOK'
    PROVE  Inv'
<1>. USE DEF Holding
<1>1. /\ worker' \in [Worker -> Thread] /\ worker'[w].pc = pc
      /\ worker'[w].index = worker[w].index
      /\ worker'[w].outcome = worker[w].outcome
      /\ \A v \in Worker : v # w => worker'[v] = worker[v]
  BY Moved DEF Inv
<1>2. main = "scope" /\ report = <<>> /\ worker[w].pc = old
  BY AtWork DEF Inv
<1>3. Halted => Halted'
  BY DEF Halted
<1>4. TypeOK'
  BY <1>1, <1>2 DEF Inv, TypeOK, Index
<1>5. \A v \in Worker : ClaimOK(v)'
  BY <1>1, <1>2 DEF Inv, ClaimOK, Index
<1>6. \A v \in Worker : LeftOK(v)'
  BY <1>1, <1>2, <1>3 DEF Inv, LeftOK
<1>7. OneThreadPerTarget'
  BY <1>1, <1>2 DEF Inv, OneThreadPerTarget
<1>8. \A i \in Index : TargetOK(i)'
  BY <1>1, <1>2, <1>3 DEF Inv, TargetOK
<1>9. MainOK'
  BY <1>2 DEF Inv, MainOK
<1>. QED  BY <1>4, <1>5, <1>6, <1>7, <1>8, <1>9 DEF Inv, Index

\* A failure that is known stays known while its thread moves on to its slot.
LEMMA StopKept ==
    ASSUME Inv, targets' = targets, slots' = slots, stop' = stop,
           \A v \in Worker : worker[v].pc \in {"notice", "store"} =>
              /\ worker'[v].pc \in {"notice", "store"}
              /\ worker'[v].index = worker[v].index
              /\ worker'[v].outcome = worker[v].outcome
    PROVE  StopOK'
<1>. SUFFICES ASSUME stop' PROVE StopOK'
  BY DEF StopOK
<1>1. PICK i \in Index, outcome \in Outcome \ {"succeeded"} : Known(i, outcome)
  BY DEF Inv, StopOK
<1>2. Known(i, outcome)'
  BY <1>1 DEF Known
<1>. QED  BY <1>1, <1>2 DEF StopOK, Inv, Index

LEMMA CheckInv == ASSUME Inv, NEW w \in Worker, Check(w) PROVE Inv'
<1>. DEFINE pc == IF Halted THEN "done" ELSE "claim"
<1>1. pc \in Pc /\ pc \in {"claim", "done"} /\ (pc = "done" => Halted)
  BY DEF Pc
<1>2. Goto(w, pc) /\ At(w, "check")
  BY DEF Check
<1>. HIDE DEF pc
<1>3. StopOK'
  BY <1>1, <1>2, Moved, StopKept DEF Check, Inv, At
<1>. QED  BY <1>1, <1>2, <1>3, QuietMove DEF Check, Inv, TypeOK

LEMMA RecheckInv == ASSUME Inv, NEW w \in Worker, Recheck(w) PROVE Inv'
<1>. DEFINE pc == IF Halted THEN "done" ELSE "execute"
<1>1. pc \in Pc /\ pc \in {"execute", "done"} /\ (pc = "done" => Halted)
  BY DEF Pc, Holding
<1>2. Goto(w, pc) /\ At(w, "recheck")
  BY DEF Recheck
<1>. HIDE DEF pc
<1>3. StopOK'
  BY <1>1, <1>2, Moved, StopKept DEF Recheck, Inv, At
<1>. QED  BY <1>1, <1>2, <1>3, QuietMove DEF Recheck, Inv, TypeOK

LEMMA NoticeInv == ASSUME Inv, NEW w \in Worker, Notice(w) PROVE Inv'
<1>1. "store" \in Pc
  BY DEF Pc, Holding
<1>2. /\ worker'[w].pc = "store" /\ worker'[w].index = worker[w].index
      /\ worker'[w].outcome = worker[w].outcome
      /\ \A v \in Worker : v # w => worker'[v] = worker[v]
      /\ worker[w].pc = "notice"
  BY <1>1, Moved DEF Notice, Inv, At
<1>3. worker[w].index \in Index /\ worker[w].outcome \in Outcome
  BY <1>2 DEF Inv, ClaimOK, Holding
<1>4. StopOK'
  <2>1. CASE stop' = stop
    BY <1>2, <2>1, StopKept DEF Notice
  <2>2. CASE stop' # stop
    <3>1. FailFast /\ worker[w].outcome # "succeeded"
      BY <2>2, BatchAssumption DEF Notice, Inv, TypeOK
    <3>2. PICK i \in Index, outcome \in Outcome \ {"succeeded"} :
             i = worker[w].index /\ outcome = worker[w].outcome
      BY <1>3, <3>1
    <3>3. Known(i, outcome)'
      BY <1>2, <3>2 DEF Known
    <3>. QED  BY <3>1, <3>3 DEF StopOK, Notice, Index
  <2>. QED  BY <2>1, <2>2
<1>5. stop' \in BOOLEAN /\ (stop => stop')
  BY BatchAssumption DEF Notice, Inv, TypeOK
<1>. QED  BY <1>1, <1>4, <1>5, QuietMove DEF Notice

\* The claim: the counter moves past the target, which is the thread's now.
LEMMA ClaimInv == ASSUME Inv, NEW w \in Worker, Claim(w) PROVE Inv'
<1>. USE DEF Holding
<1>. DEFINE pc == IF next > Len(targets) THEN "done" ELSE "recheck"
<1>1. /\ worker' \in [Worker -> Thread] /\ worker'[w].pc = pc
      /\ worker'[w].index = next
      /\ worker'[w].outcome = worker[w].outcome
      /\ \A v \in Worker : v # w => worker'[v] = worker[v]
  BY DEF Inv, TypeOK, Claim, Thread, Pc
<1>2. main = "scope" /\ report = <<>> /\ worker[w].pc = "claim"
  BY AtWork DEF Claim
<1>3. /\ next' = next + 1 /\ next \in Nat /\ next >= 1
      /\ UNCHANGED <<targets, stop, cancelled, child, slots, main, reason,
                     report, late>>
  BY DEF Inv, TypeOK, Claim
<1>4. Len(targets) \in Nat /\ Index = 1..Len(targets)
  BY Positions DEF Inv
<1>5. pc = "recheck" => next \in Index /\ slots[next] = Unset /\ child[next] = "none"
  BY <1>3, <1>4 DEF Inv, TargetOK
<1>6. pc = "done" => next > Len(targets)
  OBVIOUS
<1>7. /\ pc \in {"done", "recheck"} /\ (next > Len(targets) => pc = "done")
      /\ next <= Len(targets) => pc = "recheck"
  BY <1>3, <1>4
<1>. HIDE DEF pc
<1>8. TypeOK'
  BY <1>1, <1>2, <1>3, <1>5, <1>7 DEF Inv, TypeOK, Index
<1>9. \A v \in Worker : ClaimOK(v)'
  <2>1. ClaimOK(w)'
    BY <1>1, <1>2, <1>3, <1>5, <1>7 DEF ClaimOK, Index
  <2>2. ASSUME NEW v \in Worker, v # w PROVE ClaimOK(v)'
    BY <1>1, <1>3, <2>2 DEF Inv, TypeOK, Thread, ClaimOK, Index
  <2>. QED  BY <2>1, <2>2
<1>10. \A v \in Worker : LeftOK(v)'
  <2>1. LeftOK(w)'
    BY <1>1, <1>3, <1>4, <1>6, <1>7 DEF LeftOK
  <2>2. ASSUME NEW v \in Worker, v # w PROVE LeftOK(v)'
    BY <1>1, <1>3, <1>4, <2>2 DEF Inv, LeftOK, Halted
  <2>. QED  BY <2>1, <2>2
<1>11. OneThreadPerTarget'
  <2>1. ASSUME NEW v \in Worker, v # w, worker[v].pc \in Holding
        PROVE  worker[v].index # next
    BY <1>3, <2>1 DEF Inv, ClaimOK, TypeOK, Thread
  <2>. QED  BY <1>1, <1>2, <2>1 DEF Inv, OneThreadPerTarget
<1>12. \A i \in Index : TargetOK(i)'
  <2>. SUFFICES ASSUME NEW i \in Index PROVE TargetOK(i)'
    OBVIOUS
  <2>. i \in Nat /\ i <= Len(targets)
    BY <1>4
  <2>1. i >= next' => child[i] = "none" /\ slots[i] = Unset
    BY <1>3 DEF Inv, TargetOK
  <2>2. i < next' /\ slots[i] = Unset =>
           \/ Halted'
           \/ \E v \in Worker : worker'[v].pc \in Holding /\ worker'[v].index = i
    <3>1. CASE i = next
      BY <1>1, <1>3, <1>4, <1>7, <3>1
    <3>2. CASE i < next
      <4>1. Halted => Halted'
        BY <1>3 DEF Halted
      <4>2. slots[i] = Unset =>
               \/ Halted
               \/ \E v \in Worker : worker[v].pc \in Holding /\ worker[v].index = i
        BY <3>2 DEF Inv, TargetOK
      <4>3. ASSUME NEW v \in Worker, worker[v].pc \in Holding, worker[v].index = i
            PROVE  worker'[v].pc \in Holding /\ worker'[v].index = i
        BY <1>1, <1>2, <4>3
      <4>4. slots' = slots
        BY <1>3
      <4>. HIDE DEF Holding
      <4>. QED  BY <4>1, <4>2, <4>3, <4>4
    <3>. QED  BY <1>3, <3>1, <3>2
  <2>3. child[i] = "running" =>
           \E v \in Worker : worker'[v].pc = "wait" /\ worker'[v].index = i
    BY <1>1, <1>2 DEF Inv, TargetOK
  <2>4. child[i] # "none" => i < next'
    BY <1>3 DEF Inv, TargetOK
  <2>. QED  BY <1>3, <2>1, <2>2, <2>3, <2>4 DEF Inv, TargetOK
<1>13. StopOK'
  BY <1>1, <1>2, <1>3, StopKept
<1>14. MainOK'
  BY <1>2, <1>3 DEF Inv, MainOK
<1>. QED
  BY <1>3, <1>8, <1>9, <1>10, <1>11, <1>12, <1>13, <1>14 DEF Inv, Index

\* Starting a child, or failing to.
LEMMA ExecuteInv == ASSUME Inv, NEW w \in Worker, Execute(w) PROVE Inv'
<1>. USE DEF Holding
<1>. DEFINE n == worker[w].index
<1>1. main = "scope" /\ report = <<>> /\ worker[w].pc = "execute"
  BY AtWork DEF Execute
<1>2. n \in Index /\ n < next /\ slots[n] = Unset /\ child[n] = "none" /\ n \in Nat
  BY <1>1 DEF Inv, ClaimOK, TypeOK, Thread
<1>3. UNCHANGED <<targets, next, stop, cancelled, slots, main, reason, report>>
  BY DEF Execute
<1>4. /\ worker' \in [Worker -> Thread]
      /\ worker'[w].index = n
      /\ \A v \in Worker : v # w => worker'[v] = worker[v]
      /\ \/ /\ worker'[w].pc = "wait"
            /\ child' = [child EXCEPT ![n] = "running"]
         \/ /\ worker'[w].pc = "notice" /\ worker'[w].outcome \in Outcome
            /\ child' = child
  <2>1. "wait" \in Pc /\ "failed" \in Outcome
    BY DEF Pc, Outcome
  <2>. QED  BY <2>1, Moved, MovedOn DEF Execute, Inv
<1>. HIDE DEF n
<1>5. /\ child' \in [Index -> {"none", "running", "gone"}]
      /\ \A i \in Index : i # n => child'[i] = child[i]
      /\ child'[n] = IF worker'[w].pc = "wait" THEN "running" ELSE "none"
  BY <1>2, <1>4 DEF Inv, TypeOK
<1>6. late' \in Nat
  BY DEF Inv, TypeOK, Execute
<1>7. TypeOK'
  BY <1>2, <1>3, <1>4, <1>5, <1>6 DEF Inv, TypeOK, Index
<1>8. \A v \in Worker : ClaimOK(v)'
  <2>1. ClaimOK(w)'
    BY <1>2, <1>3, <1>4, <1>5 DEF ClaimOK, Index
  <2>2. ASSUME NEW v \in Worker, v # w PROVE ClaimOK(v)'
    <3>1. worker[v].pc \in Holding => worker[v].index # n
      BY <1>1, <2>2 DEF Inv, OneThreadPerTarget, n
    <3>. QED  BY <1>3, <1>4, <1>5, <2>2, <3>1 DEF Inv, ClaimOK, Index
  <2>. QED  BY <2>1, <2>2
<1>9. \A v \in Worker : LeftOK(v)'
  BY <1>1, <1>3, <1>4 DEF Inv, LeftOK, Halted
<1>10. OneThreadPerTarget'
  BY <1>1, <1>4 DEF Inv, OneThreadPerTarget, n
<1>11. \A i \in Index : TargetOK(i)'
  <2>. SUFFICES ASSUME NEW i \in Index PROVE TargetOK(i)'
    OBVIOUS
  <2>1. CASE i = n
    <3>1. worker'[w].pc \in Holding /\ (child'[i] = "running" => worker'[w].pc = "wait")
      BY <1>4, <1>5, <2>1
    <3>2. next' = next /\ slots' = slots /\ next \in Nat
      BY <1>3 DEF Inv, TypeOK
    <3>. QED  BY <1>2, <1>4, <2>1, <3>1, <3>2 DEF TargetOK
  <2>2. CASE i # n
    <3>1. Halted => Halted'
      BY <1>3 DEF Halted
    <3>. QED  BY <1>1, <1>3, <1>4, <1>5, <2>2, <3>1 DEF Inv, TargetOK, n
  <2>. QED  BY <2>1, <2>2
<1>12. StopOK'
  BY <1>1, <1>3, <1>4, StopKept
<1>13. MainOK'
  BY <1>1, <1>3 DEF Inv, MainOK
<1>. QED
  BY <1>3, <1>7, <1>8, <1>9, <1>10, <1>11, <1>12, <1>13 DEF Inv, Index

\* The end of a child: reaped, and its outcome known to its thread.
LEMMA ReapedInv ==
    ASSUME Inv, NEW w \in Worker, NEW outcome \in Outcome, Reaped(w, outcome)
    PROVE  Inv'
<1>. USE DEF Holding
<1>. DEFINE n == worker[w].index
<1>1. main = "scope" /\ report = <<>> /\ worker[w].pc = "wait"
  BY AtWork DEF Reaped
<1>2. n \in Index /\ n < next /\ slots[n] = Unset /\ n \in Nat
  BY <1>1 DEF Inv, ClaimOK, TypeOK, Thread
<1>3. UNCHANGED <<targets, next, stop, cancelled, slots, main, reason, report, late>>
  BY DEF Reaped
<1>4. /\ worker' \in [Worker -> Thread] /\ worker'[w].pc = "notice"
      /\ worker'[w].index = n /\ worker'[w].outcome \in Outcome
      /\ \A v \in Worker : v # w => worker'[v] = worker[v]
  BY MovedOn DEF Reaped, Inv
<1>. HIDE DEF n
<1>5. /\ child' \in [Index -> {"none", "running", "gone"}]
      /\ \A i \in Index : i # n => child'[i] = child[i]
      /\ child'[n] = "gone"
  BY <1>2 DEF Inv, TypeOK, Reaped, n
<1>6. TypeOK'
  BY <1>2, <1>3, <1>4, <1>5 DEF Inv, TypeOK, Index
<1>7. \A v \in Worker : ClaimOK(v)'
  <2>1. ClaimOK(w)'
    BY <1>2, <1>3, <1>4, <1>5 DEF ClaimOK, Index
  <2>2. ASSUME NEW v \in Worker, v # w PROVE ClaimOK(v)'
    <3>1. worker[v].pc \in Holding => worker[v].index # n
      BY <1>1, <2>2 DEF Inv, OneThreadPerTarget, n
    <3>. QED  BY <1>3, <1>4, <1>5, <2>2, <3>1 DEF Inv, ClaimOK, Index
  <2>. QED  BY <2>1, <2>2
<1>8. \A v \in Worker : LeftOK(v)'
  BY <1>1, <1>3, <1>4 DEF Inv, LeftOK, Halted
<1>9. OneThreadPerTarget'
  BY <1>1, <1>4 DEF Inv, OneThreadPerTarget, n
<1>10. \A i \in Index : TargetOK(i)'
  <2>. SUFFICES ASSUME NEW i \in Index PROVE TargetOK(i)'
    OBVIOUS
  <2>1. CASE i = n
    <3>1. worker'[w].pc \in Holding /\ child'[i] = "gone"
      BY <1>4, <1>5, <2>1
    <3>2. next' = next /\ slots' = slots /\ next \in Nat
      BY <1>3 DEF Inv, TypeOK
    <3>. QED  BY <1>2, <1>4, <2>1, <3>1, <3>2 DEF TargetOK
  <2>2. CASE i # n
    <3>1. Halted => Halted'
      BY <1>3 DEF Halted
    <3>. QED  BY <1>1, <1>3, <1>4, <1>5, <2>2, <3>1 DEF Inv, TargetOK, n
  <2>. QED  BY <2>1, <2>2
<1>11. StopOK'
  BY <1>1, <1>3, <1>4, StopKept
<1>12. MainOK'
  BY <1>1, <1>3 DEF Inv, MainOK
<1>. QED
  BY <1>3, <1>6, <1>7, <1>8, <1>9, <1>10, <1>11, <1>12 DEF Inv, Index

\* The slot takes over what the thread knew.
LEMMA StoreInv == ASSUME Inv, NEW w \in Worker, Store(w) PROVE Inv'
<1>. USE DEF Holding
<1>. DEFINE n == worker[w].index
            outcome == worker[w].outcome
<1>1. main = "scope" /\ report = <<>> /\ worker[w].pc = "store"
  BY AtWork DEF Store
<1>2. /\ n \in Index /\ n < next /\ slots[n] = Unset /\ n \in Nat
      /\ child[n] # "running" /\ outcome \in Outcome
  BY <1>1 DEF Inv, ClaimOK, TypeOK, Thread
<1>3. UNCHANGED <<targets, next, stop, cancelled, child, main, reason, report, late>>
  BY DEF Store
<1>4. /\ worker' \in [Worker -> Thread] /\ worker'[w].pc = "check"
      /\ \A v \in Worker : v # w => worker'[v] = worker[v]
  BY DEF Store, Inv, TypeOK, Thread, Pc
<1>. HIDE DEF n, outcome
<1>5. /\ slots' \in [Index -> Outcome \union {Unset}]
      /\ \A i \in Index : i # n => slots'[i] = slots[i]
      /\ slots'[n] = outcome
  BY <1>2 DEF Inv, TypeOK, Store, n, outcome
<1>6. TypeOK'
  BY <1>2, <1>3, <1>4, <1>5 DEF Inv, TypeOK, Index
<1>7. \A v \in Worker : ClaimOK(v)'
  <2>1. ClaimOK(w)'
    BY <1>4 DEF ClaimOK
  <2>2. ASSUME NEW v \in Worker, v # w PROVE ClaimOK(v)'
    <3>1. worker[v].pc \in Holding => worker[v].index # n
      BY <1>1, <2>2 DEF Inv, OneThreadPerTarget, n
    <3>. QED  BY <1>3, <1>4, <1>5, <2>2, <3>1 DEF Inv, ClaimOK, Index
  <2>. QED  BY <2>1, <2>2
<1>8. \A v \in Worker : LeftOK(v)'
  BY <1>1, <1>3, <1>4 DEF Inv, LeftOK, Halted
<1>9. OneThreadPerTarget'
  BY <1>1, <1>4 DEF Inv, OneThreadPerTarget
<1>10. \A i \in Index : TargetOK(i)'
  <2>. SUFFICES ASSUME NEW i \in Index PROVE TargetOK(i)'
    OBVIOUS
  <2>1. CASE i = n
    <3>1. slots'[i] # Unset
      BY <1>2, <1>5, <2>1, BatchAssumption DEF Outcome
    <3>2. next' = next /\ child' = child /\ next \in Nat
      BY <1>3 DEF Inv, TypeOK
    <3>. QED  BY <1>2, <2>1, <3>1, <3>2 DEF TargetOK
  <2>2. CASE i # n
    <3>1. Halted => Halted'
      BY <1>3 DEF Halted
    <3>. QED  BY <1>1, <1>3, <1>4, <1>5, <2>2, <3>1 DEF Inv, TargetOK, n
  <2>. QED  BY <2>1, <2>2
<1>11. StopOK'
  <2>. SUFFICES ASSUME stop' PROVE StopOK'
    BY DEF StopOK
  <2>1. PICK i \in Index, o \in Outcome \ {"succeeded"} : Known(i, o)
    BY <1>3 DEF Inv, StopOK
  <2>2. Known(i, o)'
    <3>1. CASE slots[i] = o
      BY <1>2, <1>5, <2>1, <3>1, BatchAssumption DEF Known, Outcome
    <3>2. ASSUME NEW v \in Worker, worker[v].pc \in {"notice", "store"},
                 worker[v].index = i, worker[v].outcome = o
          PROVE  Known(i, o)'
      <4>1. CASE v = w
        BY <1>5, <3>2, <4>1 DEF Known, n, outcome
      <4>2. CASE v # w
        BY <1>4, <3>2, <4>2 DEF Known
      <4>. QED  BY <4>1, <4>2
    <3>. QED  BY <2>1, <3>1, <3>2 DEF Known
  <2>. QED  BY <1>3, <2>1, <2>2 DEF StopOK, Inv, Index
<1>12. MainOK'
  BY <1>1, <1>3 DEF Inv, MainOK
<1>. QED
  BY <1>3, <1>6, <1>7, <1>8, <1>9, <1>10, <1>11, <1>12 DEF Inv, Index

\* Join looks at the threads when they are gone: whatever slot is empty then was
\* given up under a cancellation, or under a stop.
LEMMA JoinInv == ASSUME Inv, Join PROVE Inv'
<1>1. /\ UNCHANGED <<targets, next, stop, cancelled, worker, child, slots,
                     report, late>>
      /\ main = "scope" /\ main' = "collect"
      /\ reason' = IF cancelled THEN "cancelled" ELSE "skipped"
      /\ \A w \in Worker : worker[w].pc = "done"
  BY DEF Join
<1>2. TypeOK'
  BY <1>1 DEF Inv, TypeOK, Index
<1>3. /\ \A v \in Worker : ClaimOK(v)' /\ LeftOK(v)'
      /\ OneThreadPerTarget'
      /\ \A i \in Index : TargetOK(i)'
  BY <1>1 DEF Inv, ClaimOK, LeftOK, OneThreadPerTarget, TargetOK, Index, Halted
<1>4. StopOK'
  BY <1>1, StopKept
<1>5. (\E i \in Index : slots[i] = Unset) => Halted
  <2>. SUFFICES ASSUME NEW i \in Index, slots[i] = Unset PROVE Halted
    OBVIOUS
  <2>1. 1 \in Worker /\ 1 <= Len(targets) /\ i \in Nat /\ i <= Len(targets)
    BY Positions, BatchAssumption DEF Worker, Inv
  <2>2. Halted \/ next > Len(targets)
    BY <1>1, <2>1, Positions DEF Inv, LeftOK
  <2>3. i < next => Halted
    BY <1>1 DEF Inv, TargetOK, Holding
  <2>. QED  BY <2>1, <2>2, <2>3, Positions DEF Inv, TypeOK
<1>6. MainOK'
  BY <1>1, <1>5 DEF Inv, MainOK, Halted, Index
<1>. QED  BY <1>1, <1>2, <1>3, <1>4, <1>6 DEF Inv, Index

LEMMA CollectInv == ASSUME Inv, Collect PROVE Inv'
<1>1. /\ UNCHANGED <<targets, next, stop, cancelled, worker, child, slots,
                     reason, late>>
      /\ main = "collect" /\ main' = "done"
  BY DEF Collect
<1>2. TypeOK'
  BY <1>1 DEF Inv, TypeOK, Index
<1>3. /\ \A v \in Worker : ClaimOK(v)' /\ LeftOK(v)'
      /\ OneThreadPerTarget'
      /\ \A i \in Index : TargetOK(i)'
  BY <1>1 DEF Inv, ClaimOK, LeftOK, OneThreadPerTarget, TargetOK, Index, Halted
<1>4. StopOK'
  BY <1>1, StopKept
<1>5. MainOK'
  BY <1>1 DEF Inv, MainOK
<1>. QED  BY <1>1, <1>2, <1>3, <1>4, <1>5 DEF Inv, Index

LEMMA SignalInv == ASSUME Inv, Signal PROVE Inv'
<1>1. /\ UNCHANGED <<targets, next, stop, worker, child, slots, reason, report,
                     late>>
      /\ main \in {"scope", "collect"} /\ main' \in {main, "killed"}
      /\ cancelled' \in BOOLEAN /\ (cancelled => cancelled')
  <2>1. UNCHANGED <<targets, next, stop, worker, child, slots, reason, report,
                    late>>
    BY DEF Signal
  <2>2. main \in {"scope", "collect"}
    BY DEF Signal
  <2>3. \/ cancelled' = TRUE /\ main' = main
        \/ cancelled /\ main' = "killed" /\ cancelled' = cancelled
    BY DEF Signal
  <2>4. main' \in {main, "killed"}
    BY <2>3
  <2>5. cancelled' \in BOOLEAN
    BY <2>3 DEF Inv, TypeOK
  <2>6. cancelled => cancelled'
    BY <2>3
  <2>. QED  BY <2>1, <2>2, <2>4, <2>5, <2>6
<1>2. TypeOK'
  BY <1>1 DEF Inv, TypeOK, Index
<1>3. Halted => Halted'
  BY <1>1 DEF Halted
<1>4. /\ \A v \in Worker : ClaimOK(v)' /\ LeftOK(v)'
      /\ OneThreadPerTarget'
  BY <1>1, <1>3 DEF Inv, ClaimOK, LeftOK, OneThreadPerTarget, Index
<1>5. \A i \in Index : TargetOK(i)'
  BY <1>1, <1>3 DEF Inv, TargetOK
<1>6. StopOK'
  BY <1>1, StopKept
<1>7. MainOK'
  BY <1>1 DEF Inv, MainOK, Index
<1>. QED  BY <1>1, <1>2, <1>4, <1>5, <1>6, <1>7 DEF Inv, Index

LEMMA InvInit == Init => Inv
<1>. SUFFICES ASSUME Init PROVE Inv
  OBVIOUS
<1>1. \A w \in Worker : /\ worker[w].index = 0 /\ worker[w].outcome = Unset
                        /\ worker[w].pc = IF w <= Len(targets) THEN "check" ELSE "done"
  BY DEF Init
<1>2. \A w \in Worker : worker[w].pc \in {"check", "done"}
                        /\ worker[w].pc \notin Holding
  BY <1>1 DEF Holding
<1>3. worker \in [Worker -> Thread]
  BY DEF Init, Thread, Pc
<1>4. TypeOK
  BY <1>2, <1>3 DEF Init, TypeOK
<1>5. Len(targets) \in Nat /\ Index = 1..Len(targets)
  BY <1>4, Positions
<1>6. \A w \in Worker : ClaimOK(w)
  BY <1>2 DEF ClaimOK
<1>7. \A w \in Worker : LeftOK(w)
  BY <1>1, <1>5, BatchAssumption DEF LeftOK, Worker
<1>8. OneThreadPerTarget
  BY <1>2 DEF OneThreadPerTarget
<1>9. \A i \in Index : TargetOK(i)
  BY <1>5 DEF Init, TargetOK
<1>10. StopOK /\ MainOK /\ next >= 1
  BY DEF Init, StopOK, MainOK
<1>. QED  BY <1>4, <1>6, <1>7, <1>8, <1>9, <1>10 DEF Inv

LEMMA InvNext == Inv /\ [Next]_vars => Inv'
<1>. SUFFICES ASSUME Inv, [Next]_vars PROVE Inv'
  OBVIOUS
<1>1. CASE UNCHANGED vars
  BY <1>1 DEF vars, Inv, TypeOK, ClaimOK, LeftOK, OneThreadPerTarget, TargetOK,
     StopOK, MainOK, Known, Halted, Index
<1>2. ASSUME NEW w \in Worker, Step(w) \/ Exit(w) PROVE Inv'
  <2>1. {"succeeded", "failed", "cancelled", "timed_out"} \subseteq Outcome
    BY DEF Outcome
  <2>2. ASSUME NEW outcome \in Outcome, Reaped(w, outcome) PROVE Inv'
    BY <2>2, ReapedInv
  <2>. QED
    BY <1>2, <2>1, <2>2, CheckInv, ClaimInv, RecheckInv, ExecuteInv, NoticeInv,
       StoreInv DEF Step, Exit, Kill, Expire
<1>. QED  BY <1>1, <1>2, JoinInv, CollectInv, SignalInv DEF Next

\* The invariant holds for any batch and any number of threads.
THEOREM Invariance == Spec => []Inv
<1>. QED  BY InvInit, InvNext, PTL DEF Spec

\* Type correctness of SshBatch.
THEOREM TypeCorrect == Spec => []TypeOK
<1>1. Inv => TypeOK
  BY DEF Inv
<1>. QED  BY <1>1, Invariance, PTL

\* No two threads ever hold the same claim.
THEOREM ClaimsAreExclusive == Spec => []OneThreadPerTarget
<1>1. Inv => OneThreadPerTarget
  BY DEF Inv
<1>. QED  BY <1>1, Invariance, PTL

-----------------------------------------------------------------------------
(* Late starts.  A thread that looks at the stop flag once it is set starts *)
(* nothing more, so the targets still to be started after that are those of *)
(* the threads already past their second look; the thread that set the flag *)
(* is not among them.                                                       *)

Deciding == {w \in Worker : worker[w].pc = "execute"}

LateOK == IF stop THEN late + Cardinality(Deciding) < Jobs ELSE late = 0

LEMMA FewThreads ==
    /\ IsFiniteSet(Worker) /\ Cardinality(Worker) = Jobs
    /\ \A S \in SUBSET Worker : /\ IsFiniteSet(S)
                                /\ Cardinality(S) \in Nat
                                /\ Cardinality(S) <= Jobs
<1>1. Jobs \in Nat /\ Jobs >= 1
  BY BatchAssumption
<1>2. IsFiniteSet(Worker) /\ Cardinality(Worker) = Jobs
  BY <1>1, FS_Interval DEF Worker
<1>. QED  BY <1>2, FS_Subset, FS_CardinalityType

\* With the stop flag set nobody joins those who decided to start a target, and
\* whoever starts one leaves them.
LEMMA NobodyDecidesLate ==
    ASSUME Inv, stop, Next
    PROVE  /\ stop' /\ Deciding' \subseteq Deciding
           /\ \/ late' = late
              \/ late' = late + 1 /\ \E w \in Deciding : Deciding' \subseteq Deciding \ {w}
<1>. USE DEF Deciding, Inv, TypeOK, At
<1>1. FailFast
  BY DEF StopOK
<1>2. ASSUME NEW w \in Worker, Check(w)
      PROVE  stop' /\ Deciding' \subseteq Deciding /\ late' = late
  BY <1>1, <1>2 DEF Check, Goto, Halted
<1>3. ASSUME NEW w \in Worker, Claim(w)
      PROVE  stop' /\ Deciding' \subseteq Deciding /\ late' = late
  BY <1>3 DEF Claim
<1>4. ASSUME NEW w \in Worker, Recheck(w)
      PROVE  stop' /\ Deciding' \subseteq Deciding /\ late' = late
  BY <1>1, <1>4 DEF Recheck, Goto, Halted
<1>5. ASSUME NEW w \in Worker, Execute(w)
      PROVE  /\ stop'
             /\ late' = late \/ late' = late + 1
             /\ w \in Deciding /\ Deciding' \subseteq Deciding \ {w}
  <2>1. stop' = stop /\ worker[w].pc = "execute"
    BY <1>5 DEF Execute
  <2>2. late' = late \/ late' = late + 1
    BY <1>5 DEF Execute
  <2>3. /\ worker'[w].pc \in {"wait", "notice"}
        /\ \A v \in Worker : v # w => worker'[v] = worker[v]
    <3>1. "wait" \in Pc /\ "failed" \in Outcome
      BY DEF Pc, Holding, Outcome
    <3>. QED  BY <1>5, <3>1, Moved, MovedOn DEF Execute
  <2>. QED  BY <2>1, <2>2, <2>3
<1>6. ASSUME NEW w \in Worker, NEW outcome \in Outcome, Reaped(w, outcome)
      PROVE  stop' /\ Deciding' \subseteq Deciding /\ late' = late
  BY <1>6 DEF Reaped, Ended
<1>7. ASSUME NEW w \in Worker, Notice(w)
      PROVE  stop' /\ Deciding' \subseteq Deciding /\ late' = late
  <2>1. stop'
    BY <1>7, BatchAssumption DEF Notice
  <2>2. Deciding' \subseteq Deciding /\ late' = late
    BY <1>7 DEF Notice, Goto
  <2>. QED  BY <2>1, <2>2
<1>8. ASSUME NEW w \in Worker, Store(w)
      PROVE  stop' /\ Deciding' \subseteq Deciding /\ late' = late
  BY <1>8 DEF Store
<1>9. CASE Join \/ Collect \/ Signal
  BY <1>9 DEF Join, Collect, Signal
<1>10. {"succeeded", "failed", "cancelled", "timed_out"} \subseteq Outcome
  BY DEF Outcome
<1>11. ASSUME NEW w \in Worker, Kill(w) \/ Expire(w) \/ Exit(w)
       PROVE  stop' /\ Deciding' \subseteq Deciding /\ late' = late
  BY <1>6, <1>10, <1>11 DEF Kill, Expire, Exit
<1>. HIDE DEF Deciding, Inv, TypeOK, At
<1>. QED
  BY <1>2, <1>3, <1>4, <1>5, <1>7, <1>8, <1>9, <1>11 DEF Next, Step

\* The flag is set by a thread that is not about to start a target itself.
LEMMA FlagIsSetApart ==
    ASSUME Inv, ~stop, Next
    PROVE  /\ late' = late
           /\ stop' => \E w \in Worker : Deciding' \subseteq Worker \ {w}
<1>. USE DEF Inv, TypeOK, At
<1>1. ASSUME NEW w \in Worker, Notice(w)
      PROVE  late' = late /\ Deciding' \subseteq Worker \ {w}
  BY <1>1 DEF Notice, Goto, Deciding
<1>2. ASSUME NEW w \in Worker, Step(w) \/ Exit(w), ~Notice(w)
      PROVE  late' = late /\ stop' = stop
  BY <1>2 DEF Step, Exit, Check, Claim, Recheck, Execute, Kill, Expire, Store, Reaped
<1>3. CASE Join \/ Collect \/ Signal
  BY <1>3 DEF Join, Collect, Signal
<1>. HIDE DEF Inv, TypeOK, At
<1>. QED  BY <1>1, <1>2, <1>3 DEF Next

LEMMA LateNext == Inv /\ LateOK /\ [Next]_vars => LateOK'
<1>. SUFFICES ASSUME Inv, LateOK, [Next]_vars PROVE LateOK'
  OBVIOUS
<1>1. late \in Nat /\ Jobs \in Nat /\ Jobs >= 1
  BY BatchAssumption DEF Inv, TypeOK
<1>2. Deciding \in SUBSET Worker /\ Deciding' \in SUBSET Worker
  BY DEF Deciding
<1>3. /\ IsFiniteSet(Deciding) /\ Cardinality(Deciding) \in Nat
      /\ Cardinality(Deciding') \in Nat
  BY <1>2, FewThreads
<1>4. CASE UNCHANGED vars
  BY <1>4 DEF vars, LateOK, Deciding
<1>5. CASE Next /\ stop
  <2>1. stop' /\ Deciding' \subseteq Deciding
    BY <1>5, NobodyDecidesLate
  <2>2. CASE late' = late
    <3>1. Cardinality(Deciding') <= Cardinality(Deciding)
      BY <1>3, <2>1, FS_Subset
    <3>. QED  BY <1>1, <1>3, <1>5, <2>1, <2>2, <3>1 DEF LateOK
  <2>3. CASE late' # late
    <3>1. PICK w \in Deciding : late' = late + 1 /\ Deciding' \subseteq Deciding \ {w}
      BY <1>5, <2>3, NobodyDecidesLate
    <3>2. IsFiniteSet(Deciding \ {w}) /\ Cardinality(Deciding \ {w}) = Cardinality(Deciding) - 1
      BY <1>3, FS_RemoveElement
    <3>3. Cardinality(Deciding') <= Cardinality(Deciding) - 1
      BY <3>1, <3>2, FS_Subset
    <3>. QED  BY <1>1, <1>3, <1>5, <2>1, <3>1, <3>3 DEF LateOK
  <2>. QED  BY <2>2, <2>3
<1>6. CASE Next /\ ~stop
  <2>1. late' = 0
    BY <1>6, FlagIsSetApart DEF LateOK
  <2>2. ASSUME stop' PROVE Cardinality(Deciding') < Jobs
    <3>1. PICK w \in Worker : Deciding' \subseteq Worker \ {w}
      BY <1>6, <2>2, FlagIsSetApart
    <3>2. IsFiniteSet(Worker \ {w}) /\ Cardinality(Worker \ {w}) = Jobs - 1
      BY FewThreads, FS_RemoveElement
    <3>3. Cardinality(Deciding') <= Jobs - 1
      BY <3>1, <3>2, FS_Subset
    <3>. QED  BY <1>1, <1>3, <3>3
  <2>. QED  BY <1>3, <2>1, <2>2 DEF LateOK
<1>. QED  BY <1>4, <1>5, <1>6

\* Fail-fast: after a failure is known, fewer targets than there are threads
\* are still started, whatever the batch and the order the threads run in.
THEOREM LateStartsAreFew == Spec => []FewLateStarts
<1>1. Init => LateOK
  BY DEF Init, LateOK
<1>2. Inv /\ LateOK => FewLateStarts
  <2>. SUFFICES ASSUME Inv, LateOK PROVE FewLateStarts
    OBVIOUS
  <2>1. Cardinality(Deciding) \in Nat
    BY FewThreads DEF Deciding
  <2>. QED  BY <2>1, BatchAssumption DEF Inv, TypeOK, LateOK, FewLateStarts
<1>. QED  BY <1>1, <1>2, LateNext, Invariance, PTL DEF Spec

-----------------------------------------------------------------------------
(* The status of a target.                                                 *)

Settled(i) == \E outcome \in Outcome : Known(i, outcome)

StatusOK ==
    /\ status = [i \in Index |-> status[i]]
    /\ \A i \in Index :
          /\ \A outcome \in Outcome : Known(i, outcome) => status[i] = outcome
          /\ ~Settled(i) =>
                status[i] = IF child[i] = "running" THEN "running" ELSE "queued"

\* A target has one outcome: the slot of a claim still held is empty, and no
\* other thread holds it.
LEMMA OneOutcome ==
    ASSUME Inv, NEW i \in Index, NEW a \in Outcome, NEW b \in Outcome,
           Known(i, a), Known(i, b)
    PROVE  a = b
<1>1. Unset \notin Outcome
  BY BatchAssumption DEF Outcome
<1>2. CASE slots[i] # Unset
  <2>1. \A w \in Worker : worker[w].pc \in {"notice", "store"} => worker[w].index # i
    BY <1>2 DEF Inv, ClaimOK, Holding
  <2>. QED  BY <2>1 DEF Known
<1>3. CASE slots[i] = Unset
  <2>1. PICK v \in Worker : /\ worker[v].pc \in {"notice", "store"}
                            /\ worker[v].index = i /\ worker[v].outcome = a
    BY <1>1, <1>3 DEF Known
  <2>2. PICK w \in Worker : /\ worker[w].pc \in {"notice", "store"}
                            /\ worker[w].index = i /\ worker[w].outcome = b
    BY <1>1, <1>3 DEF Known
  <2>3. v = w
    BY <2>1, <2>2 DEF Inv, OneThreadPerTarget, Holding
  <2>. QED  BY <2>1, <2>2, <2>3
<1>. QED  BY <1>2, <1>3

LEMMA StatusRight == Inv => StatusOK
<1>. SUFFICES ASSUME Inv PROVE StatusOK
  OBVIOUS
<1>1. status = [i \in Index |-> status[i]]
  BY DEF status
<1>2. ASSUME NEW i \in Index, NEW outcome \in Outcome, Known(i, outcome)
      PROVE  status[i] = outcome
  <2>. DEFINE chosen == CHOOSE o \in Outcome : Known(i, o)
  <2>1. chosen \in Outcome /\ Known(i, chosen)
    BY <1>2
  <2>2. status[i] = chosen
    BY <1>2 DEF status
  <2>. HIDE DEF chosen
  <2>. QED  BY <1>2, <2>1, <2>2, OneOutcome
<1>3. ASSUME NEW i \in Index, ~Settled(i)
      PROVE  status[i] = IF child[i] = "running" THEN "running" ELSE "queued"
  BY <1>3 DEF status, Settled
<1>. QED  BY <1>1, <1>2, <1>3 DEF StatusOK

LEMMA StatusRightAfter == Inv' => StatusOK'
BY StatusRight, PTL

\* What a status says of a target.
LEMMA StatusMeans ==
    ASSUME StatusOK, NEW i \in Index
    PROVE  /\ status[i] = "running" <=> ~Settled(i) /\ child[i] = "running"
           /\ status[i] = "queued" <=> ~Settled(i) /\ child[i] # "running"
           /\ Settled(i) <=> status[i] \in Outcome
<1>1. "running" \notin Outcome /\ "queued" \notin Outcome
  BY DEF Outcome
<1>2. CASE Settled(i)
  BY <1>1, <1>2 DEF StatusOK, Settled
<1>3. CASE ~Settled(i)
  BY <1>1, <1>3 DEF StatusOK
<1>. QED  BY <1>2, <1>3

\* A target nothing new is known of keeps its status.
LEMMA SameStatus ==
    ASSUME StatusOK, StatusOK', targets' = targets, NEW i \in Index,
           \A outcome \in Outcome : Known(i, outcome)' <=> Known(i, outcome),
           child'[i] = "running" <=> child[i] = "running"
    PROVE  status'[i] = status[i]
<1>0. i \in Index'
  BY DEF Index
<1>1. CASE Settled(i)
  <2>1. PICK outcome \in Outcome : Known(i, outcome)
    BY <1>1 DEF Settled
  <2>. QED  BY <1>0, <2>1 DEF StatusOK
<1>2. CASE ~Settled(i)
  <2>1. ~Settled(i)'
    BY <1>2 DEF Settled
  <2>. QED  BY <1>0, <1>2, <2>1 DEF StatusOK
<1>. QED  BY <1>1, <1>2

LEMMA SameStatuses ==
    ASSUME StatusOK, StatusOK', targets' = targets,
           \A i \in Index :
              /\ \A outcome \in Outcome : Known(i, outcome)' <=> Known(i, outcome)
              /\ child'[i] = "running" <=> child[i] = "running"
    PROVE  status' = status
<1>1. \A i \in Index : status'[i] = status[i]
  BY SameStatus
<1>2. status' = [i \in Index |-> status'[i]] /\ status = [i \in Index |-> status[i]]
  BY DEF StatusOK, Index
<1>. QED  BY <1>1, <1>2

\* A step of thread w to outcome about the target it holds changes that one.
LEMMA OneStatus ==
    ASSUME StatusOK, StatusOK', targets' = targets, NEW k \in Index, NEW value,
           status'[k] = value,
           \A i \in Index : i # k =>
              /\ \A outcome \in Outcome : Known(i, outcome)' <=> Known(i, outcome)
              /\ child'[i] = "running" <=> child[i] = "running"
    PROVE  status' = [status EXCEPT ![k] = value]
<1>1. \A i \in Index : i # k => status'[i] = status[i]
  BY SameStatus
<1>2. status' = [i \in Index |-> status'[i]] /\ status = [i \in Index |-> status[i]]
  BY DEF StatusOK, Index
<1>. QED  BY <1>1, <1>2

-----------------------------------------------------------------------------
(* The steps that change nothing the contract sees.                        *)

Silent == UNCHANGED <<targets, status, cancelled, report>>

\* A thread that only moves on tells nothing new.
LEMMA QuietThread ==
    ASSUME StatusOK, StatusOK',
           UNCHANGED <<targets, cancelled, child, slots, report>>,
           \A v \in Worker :
              /\ worker'[v].pc \in {"notice", "store"}
                    <=> worker[v].pc \in {"notice", "store"}
              /\ worker[v].pc \in {"notice", "store"} =>
                    /\ worker'[v].index = worker[v].index
                    /\ worker'[v].outcome = worker[v].outcome
    PROVE  Silent
<1>1. \A i \in Index, outcome \in Outcome : Known(i, outcome)' <=> Known(i, outcome)
  BY DEF Known
<1>2. status' = status
  BY <1>1, SameStatuses
<1>. QED  BY <1>2 DEF Silent

LEMMA QuietSteps ==
    ASSUME Inv, StatusOK, StatusOK', NEW w \in Worker,
           Check(w) \/ Claim(w) \/ Recheck(w) \/ Notice(w)
    PROVE  Silent
<1>1. worker \in [Worker -> Thread]
  BY DEF Inv, TypeOK
<1>2. CASE Check(w)
  <2>1. PICK pc : Goto(w, pc) /\ pc \in {"claim", "done"}
    BY <1>2 DEF Check
  <2>. QED  BY <1>1, <1>2, <2>1, QuietThread DEF Check, Goto, At, Thread
<1>3. CASE Recheck(w)
  <2>1. PICK pc : Goto(w, pc) /\ pc \in {"execute", "done"}
    BY <1>3 DEF Recheck
  <2>. QED  BY <1>1, <1>3, <2>1, QuietThread DEF Recheck, Goto, At, Thread
<1>4. CASE Notice(w)
  BY <1>1, <1>4, QuietThread DEF Notice, Goto, At, Thread
<1>5. CASE Claim(w)
  <2>1. PICK pc \in {"done", "recheck"} :
           worker' = [worker EXCEPT ![w].index = next, ![w].pc = pc]
    BY <1>5 DEF Claim
  <2>. QED  BY <1>1, <1>5, <2>1, QuietThread DEF Claim, At, Thread
<1>. QED  BY <1>2, <1>3, <1>4, <1>5

\* The slot says what the thread said.
LEMMA StoreIsSilent ==
    ASSUME Inv, StatusOK, StatusOK', NEW w \in Worker, Store(w)
    PROVE  Silent
<1>0. PICK k \in Index : k = worker[w].index
  BY DEF Store, At, Inv, ClaimOK, Holding
<1>1. worker[w].pc = "store" /\ slots[k] = Unset
      /\ worker[w].outcome \in Outcome
  BY <1>0 DEF Store, At, Inv, ClaimOK, Holding
<1>2. worker' = [worker EXCEPT ![w].pc = "check", ![w].outcome = Unset]
      /\ slots' = [slots EXCEPT ![k] = worker[w].outcome]
      /\ UNCHANGED <<targets, cancelled, child, report>>
  BY <1>0 DEF Store
<1>3. worker \in [Worker -> Thread] /\ slots \in [Index -> Outcome \union {Unset}]
  BY DEF Inv, TypeOK
<1>4. worker'[w].pc = "check" /\ \A v \in Worker : v # w => worker'[v] = worker[v]
  BY <1>2, <1>3 DEF Thread
<1>5. slots'[k] = worker[w].outcome
      /\ \A i \in Index : i # k => slots'[i] = slots[i]
  BY <1>1, <1>2, <1>3
<1>6. \A v \in Worker : worker[v].pc \in {"notice", "store"} /\ worker[v].index = k
                        => v = w
  BY <1>0, <1>1 DEF Inv, OneThreadPerTarget, Holding
<1>7. Unset \notin Outcome
  BY BatchAssumption DEF Outcome
<1>8. ASSUME NEW i \in Index, NEW outcome \in Outcome
      PROVE  Known(i, outcome)' <=> Known(i, outcome)
  <2>1. CASE i = k
    <3>2. Known(k, outcome) <=> outcome = worker[w].outcome
      BY <1>0, <1>1, <1>6, <1>7 DEF Known
    <3>3. \A v \in Worker : worker'[v].pc \in {"notice", "store"}
                            => worker'[v].index # k
      BY <1>4, <1>6
    <3>4. Known(k, outcome)' <=> outcome = worker[w].outcome
      BY <1>5, <1>7, <3>3 DEF Known
    <3>. QED  BY <2>1, <3>2, <3>4
  <2>2. CASE i # k
    BY <1>0, <1>1, <1>4, <1>5, <2>2 DEF Known
  <2>. QED  BY <2>1, <2>2
<1>9. status' = status
  BY <1>2, <1>8, SameStatuses
<1>. QED  BY <1>2, <1>9 DEF Silent

-----------------------------------------------------------------------------
(* The steps the contract sees.                                            *)

\* A thread about to start a child is not driving one, so fewer run than there
\* are threads.
LEMMA RoomForOne ==
    ASSUME Inv, StatusOK, NEW w \in Worker, worker[w].pc = "execute"
    PROVE  Contract!Cardinality(Contract!Running) < Jobs
<1>. DEFINE Others  == Worker \ {w}
            Driven  == {worker[v].index : v \in Others}
            Drive   == [v \in Others |-> worker[v].index]
            Running == Contract!Running
<1>1. Running \subseteq Driven
  <2>. SUFFICES ASSUME NEW i \in Running PROVE i \in Driven
    OBVIOUS
  <2>1. i \in Index /\ status[i] = "running"
    BY DEF Contract!Running, StatusOK
  <2>2. child[i] = "running"
    BY <2>1, StatusMeans
  <2>3. PICK v \in Worker : worker[v].pc = "wait" /\ worker[v].index = i
    BY <2>1, <2>2 DEF Inv, TargetOK
  <2>4. v \in Others
    BY <2>3
  <2>. QED  BY <2>3, <2>4
<1>2. Jobs \in Nat /\ Jobs >= 1
  BY BatchAssumption
<1>3. IsFiniteSet(Worker) /\ Cardinality(Worker) = Jobs
  BY <1>2, FS_Interval DEF Worker
<1>4. IsFiniteSet(Others) /\ Cardinality(Others) = Jobs - 1
  BY <1>3, FS_RemoveElement
<1>5. Drive \in Surjection(Others, Driven)
  BY DEF Surjection
<1>. HIDE DEF Others, Driven, Drive, Running
<1>6. IsFiniteSet(Driven) /\ Cardinality(Driven) <= Jobs - 1
  BY <1>4, <1>5, FS_Surjection
<1>7. IsFiniteSet(Running) /\ Cardinality(Running) <= Cardinality(Driven)
  BY <1>1, <1>6, FS_Subset
<1>8. Cardinality(Running) \in Nat /\ Cardinality(Driven) \in Nat
  BY <1>6, <1>7, FS_CardinalityType
<1>9. Cardinality(Running) < Jobs
  BY <1>2, <1>6, <1>7, <1>8
<1>10. Contract!Cardinality(Running) = Cardinality(Running)
  BY DEF Cardinality, Contract!Cardinality
<1>. QED  BY <1>9, <1>10 DEF Running

\* The thread that holds a target, alone, decides what is known of it.
LEMMA HeldAlone ==
    ASSUME Inv, NEW w \in Worker, worker[w].pc \in {"execute", "wait"},
           NEW k \in Index, worker[w].index = k
    PROVE  ~Settled(k)
<1>1. slots[k] = Unset
  BY DEF Inv, ClaimOK, Holding
<1>2. \A v \in Worker : worker[v].pc \in {"notice", "store"} => worker[v].index # k
  BY DEF Inv, OneThreadPerTarget, Holding
<1>3. Unset \notin Outcome
  BY BatchAssumption DEF Outcome
<1>. QED  BY <1>1, <1>2, <1>3 DEF Settled, Known

\* A thread that learns the outcome of its target tells that and nothing else.
LEMMA Learnt ==
    ASSUME Inv, StatusOK, StatusOK', NEW w \in Worker, NEW outcome \in Outcome,
           worker[w].pc \in {"execute", "wait"},
           NEW k \in Index, worker[w].index = k,
           Ended(w, outcome), UNCHANGED <<targets, slots>>,
           child' = child \/ child' = [child EXCEPT ![k] = "gone"]
    PROVE  status' = [status EXCEPT ![k] = outcome]
<1>1. /\ worker'[w].pc = "notice"
      /\ worker'[w].index = k
      /\ worker'[w].outcome = outcome
      /\ \A v \in Worker : v # w => worker'[v] = worker[v]
  BY MovedOn DEF Inv
<1>2. Known(k, outcome)'
  BY <1>1 DEF Known
<1>3. status'[k] = outcome
  <2>1. k \in Index' /\ outcome \in Outcome'
    BY DEF Index, Outcome
  <2>. QED  BY <1>2, <2>1 DEF StatusOK, Outcome
<1>4. child \in [Index -> {"none", "running", "gone"}]
  BY DEF Inv, TypeOK
<1>5. ASSUME NEW i \in Index, i # k
      PROVE  /\ \A o \in Outcome : Known(i, o)' <=> Known(i, o)
             /\ child'[i] = "running" <=> child[i] = "running"
  <2>1. child'[i] = child[i]
    BY <1>4, <1>5
  <2>2. ASSUME NEW o \in Outcome PROVE Known(i, o)' <=> Known(i, o)
    BY <1>1, <1>5 DEF Known
  <2>. QED  BY <2>1, <2>2
<1>. QED  BY <1>3, <1>5, OneStatus

LEMMA ExecuteStep ==
    ASSUME Inv, StatusOK, StatusOK', NEW w \in Worker, Execute(w)
    PROVE  \E i \in Index : Contract!Start(i) \/ Contract!Finish(i, "failed")
<1>1. PICK k \in Index : k = worker[w].index
  BY DEF Execute, At, Inv, ClaimOK, Holding
<1>2. worker[w].pc = "execute" /\ report = <<>> /\ child[k] = "none"
  BY <1>1, AtWork DEF Execute, At, Inv, ClaimOK
<1>3. UNCHANGED <<targets, cancelled, slots, report>>
  BY DEF Execute
<1>4. ~Settled(k) /\ status[k] = "queued"
  BY <1>1, <1>2, HeldAlone, StatusMeans
<1>5. child \in [Index -> {"none", "running", "gone"}]
      /\ worker \in [Worker -> Thread]
  BY DEF Inv, TypeOK
<1>6. CASE child' = [child EXCEPT ![k] = "running"] /\ Goto(w, "wait")
  <2>1. /\ worker'[w].pc = "wait"
        /\ \A v \in Worker : v # w => worker'[v] = worker[v]
    BY <1>5, <1>6 DEF Goto, Thread
  <2>2. ASSUME NEW i \in Index, NEW o \in Outcome
        PROVE  Known(i, o)' <=> Known(i, o)
    BY <1>2, <1>3, <2>1 DEF Known
  <2>3. ~Settled(k)'
    BY <1>4, <2>2 DEF Settled, Outcome
  <2>4. child'[k] = "running" /\ \A i \in Index : i # k => child'[i] = child[i]
    BY <1>5, <1>6
  <2>5. status'[k] = "running"
    BY <1>3, <2>3, <2>4 DEF StatusOK, Index
  <2>6. status' = [status EXCEPT ![k] = "running"]
    BY <1>3, <2>2, <2>4, <2>5, OneStatus
  <2>7. Contract!Cardinality(Contract!Running) < Jobs
    BY <1>2, RoomForOne
  <2>8. Contract!Start(k)
    BY <1>2, <1>3, <1>4, <2>6, <2>7 DEF Contract!Start
  <2>. QED  BY <2>8
<1>7. CASE Ended(w, "failed") /\ child' = child
  <2>1. "failed" \in Outcome
    BY DEF Outcome
  <2>2. status' = [status EXCEPT ![k] = "failed"]
    BY <1>1, <1>2, <1>3, <1>7, <2>1, Learnt
  <2>3. Contract!Finish(k, "failed")
    BY <1>2, <1>3, <1>4, <2>2 DEF Contract!Finish
  <2>. QED  BY <2>3
<1>. QED  BY <1>1, <1>6, <1>7 DEF Execute

LEMMA ReapedStep ==
    ASSUME Inv, StatusOK, StatusOK', NEW w \in Worker, NEW outcome \in Outcome,
           Reaped(w, outcome), outcome = "cancelled" => cancelled
    PROVE  \E i \in Index : Contract!Finish(i, outcome)
<1>1. PICK k \in Index : k = worker[w].index
  BY DEF Reaped, At, Inv, ClaimOK, Holding
<1>2. worker[w].pc = "wait" /\ report = <<>>
  BY AtWork DEF Reaped, At
<1>3. UNCHANGED <<targets, cancelled, slots, report>>
      /\ child' = [child EXCEPT ![k] = "gone"] /\ Ended(w, outcome)
  BY <1>1 DEF Reaped
<1>4. status[k] = "running"
  <2>1. child[k] = "running"
    BY <1>1, <1>2 DEF Inv, ClaimOK
  <2>. QED  BY <1>1, <1>2, <2>1, HeldAlone, StatusMeans
<1>5. status' = [status EXCEPT ![k] = outcome]
  BY <1>1, <1>2, <1>3, Learnt
<1>6. Contract!Finish(k, outcome)
  BY <1>2, <1>3, <1>4, <1>5 DEF Contract!Finish
<1>. QED  BY <1>6

\* The report is written when no thread is at work: nothing runs, what is known
\* is in the slots, and an empty slot has its reason.
LEMMA CollectStep ==
    ASSUME Inv, StatusOK, StatusOK', Collect
    PROVE  Contract!Report(reason)
<1>1. /\ main = "collect" /\ report = <<>>
      /\ UNCHANGED <<targets, cancelled, worker, child, slots>>
      /\ report' = [i \in Index |->
                      [target |-> targets[i],
                       state  |-> IF slots[i] = Unset THEN reason ELSE slots[i]]]
  BY DEF Collect, Inv, MainOK
<1>2. \A w \in Worker : worker[w].pc = "done"
  BY <1>1 DEF Inv, MainOK
<1>3. \A i \in Index : child[i] # "running"
  BY <1>2 DEF Inv, TargetOK
<1>4. Unset \notin Outcome /\ "queued" \notin Outcome
  BY BatchAssumption DEF Outcome
<1>5. ASSUME NEW i \in Index
      PROVE  /\ status[i] # "running"
             /\ status[i] = "queued" <=> slots[i] = Unset
             /\ slots[i] # Unset => status[i] = slots[i]
  <2>1. slots[i] \in Outcome \union {Unset}
    BY DEF Inv, TypeOK
  <2>2. \A outcome \in Outcome : Known(i, outcome) <=> slots[i] = outcome
    BY <1>2 DEF Known
  <2>3. Settled(i) <=> slots[i] # Unset
    BY <1>4, <2>1, <2>2 DEF Settled
  <2>4. slots[i] # Unset => status[i] = slots[i]
    BY <2>1, <2>2 DEF StatusOK
  <2>. QED  BY <1>3, <2>3, <2>4, StatusMeans
<1>6. DOMAIN status = Index
  BY DEF StatusOK
<1>7. Contract!Running = {}
  BY <1>5, <1>6 DEF Contract!Running
<1>8. status' = status
  BY <1>1, SameStatuses DEF Known
<1>9. report' = [i \in DOMAIN targets |->
                   [target |-> targets[i],
                    state  |-> IF status[i] = "queued" THEN reason ELSE status[i]]]
  BY <1>1, <1>5 DEF Index
<1>10. ASSUME NEW i \in Index, status[i] = "queued"
       PROVE  \/ reason = "cancelled" /\ cancelled
              \/ reason = "skipped" /\ FailFast /\ Contract!Failed # {}
  <2>1. \/ reason = "cancelled" /\ cancelled
        \/ reason = "skipped" /\ FailFast /\ stop
    BY <1>1, <1>5, <1>10 DEF Inv, MainOK
  <2>2. ASSUME stop PROVE Contract!Failed # {}
    <3>1. PICK j \in Index, outcome \in Outcome \ {"succeeded"} : Known(j, outcome)
      BY <2>2 DEF Inv, StopOK
    <3>2. status[j] = outcome
      BY <3>1 DEF StatusOK
    <3>3. j \in Contract!Failed
      BY <1>6, <3>1, <3>2 DEF Contract!Failed, Contract!Outcome, Outcome
    <3>. QED  BY <3>3
  <2>. QED  BY <2>1, <2>2
<1>. QED  BY <1>1, <1>6, <1>7, <1>8, <1>9, <1>10 DEF Contract!Report

LEMMA JoinIsSilent == ASSUME StatusOK, StatusOK', Join PROVE Silent
<1>1. status' = status
  BY SameStatuses DEF Join, Known
<1>. QED  BY <1>1 DEF Join, Silent

LEMMA SignalStep ==
    ASSUME StatusOK, StatusOK', Signal PROVE Silent \/ Contract!Cancel
<1>1. UNCHANGED <<targets, report, worker, child, slots>>
      /\ (cancelled' = TRUE \/ cancelled' = cancelled)
  BY DEF Signal
<1>2. status' = status
  BY <1>1, SameStatuses DEF Known
<1>. QED  BY <1>1, <1>2 DEF Silent, Contract!Cancel

\* A batch starts as the contract says.
LEMMA InitContract == ASSUME Init PROVE Contract!Init
<1>1. Inv
  BY InvInit
<1>2. StatusOK
  BY <1>1, StatusRight
<1>3. Unset \notin Outcome
  BY BatchAssumption DEF Outcome
<1>4. \A w \in Worker : worker[w].pc \notin {"notice", "store"}
  BY DEF Init
<1>5. \A i \in Index : ~Settled(i) /\ child[i] # "running"
  BY <1>3, <1>4 DEF Settled, Known, Init
<1>6. \A i \in Index : status[i] = "queued"
  BY <1>2, <1>5, StatusMeans
<1>7. status = [i \in DOMAIN targets |-> "queued"]
  BY <1>2, <1>6 DEF StatusOK, Index
<1>. QED  BY <1>7 DEF Init, Contract!Init

LEMMA NextContract ==
    ASSUME Inv, Inv', [Next]_vars PROVE [Contract!Next]_(Contract!vars)
<1>1. StatusOK /\ StatusOK'
  BY StatusRight, StatusRightAfter
<1>2. Silent => UNCHANGED Contract!vars
  BY DEF Silent, Contract!vars
<1>3. CASE UNCHANGED vars
  <2>1. status' = status
    BY <1>1, <1>3, SameStatuses DEF vars, Known
  <2>. QED  BY <1>2, <1>3, <2>1 DEF vars, Silent
<1>4. ASSUME NEW w \in Worker, Step(w) \/ Exit(w)
      PROVE  [Contract!Next]_(Contract!vars)
  <2>1. {"succeeded", "failed", "cancelled", "timed_out"} \subseteq Outcome
    BY DEF Outcome
  <2>2. CASE Check(w) \/ Claim(w) \/ Recheck(w) \/ Notice(w)
    BY <1>1, <1>2, <2>2, QuietSteps
  <2>3. CASE Store(w)
    BY <1>1, <1>2, <2>3, StoreIsSilent
  <2>4. CASE Execute(w)
    <3>1. PICK i \in Index : Contract!Start(i) \/ Contract!Finish(i, "failed")
      BY <1>1, <2>4, ExecuteStep
    <3>. QED  BY <2>1, <3>1 DEF Contract!Next, Contract!Outcome, Index
  <2>5. ASSUME NEW outcome \in Outcome, Reaped(w, outcome),
               outcome = "cancelled" => cancelled
        PROVE  Contract!Next
    <3>1. PICK i \in Index : Contract!Finish(i, outcome)
      BY <1>1, <2>5, ReapedStep
    <3>. QED  BY <3>1 DEF Contract!Next, Contract!Outcome, Outcome, Index
  <2>6. CASE Kill(w) \/ Expire(w) \/ Exit(w)
    BY <2>1, <2>5, <2>6 DEF Kill, Expire, Exit
  <2>. QED  BY <1>4, <2>2, <2>3, <2>4, <2>6 DEF Step
<1>5. CASE Join
  BY <1>1, <1>2, <1>5, JoinIsSilent
<1>6. CASE Collect
  <2>1. Contract!Report(reason)
    BY <1>1, <1>6, CollectStep
  <2>2. reason \in {"cancelled", "skipped"}
    BY DEF Inv, TypeOK
  <2>. QED  BY <2>1, <2>2 DEF Contract!Next
<1>7. CASE Signal
  BY <1>1, <1>2, <1>7, SignalStep DEF Contract!Next
<1>. QED  BY <1>3, <1>4, <1>5, <1>6, <1>7 DEF Next

\* The threads keep the promise made for a batch: no target twice, never more
\* than Jobs at a time, a report only when nothing runs, one result per target
\* in order, and a target left out only by a cancellation or a fail-fast stop.
THEOREM ImplementsContract == Spec => ContractSpec
<1>1. Init => Contract!Init
  BY InitContract
<1>2. Inv /\ Inv' /\ [Next]_vars => [Contract!Next]_(Contract!vars)
  BY NextContract
<1>. QED  BY <1>1, <1>2, Invariance, PTL DEF Spec, ContractSpec, Contract!Spec
=============================================================================
