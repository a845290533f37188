--------------------------- MODULE Winspool_proofs ---------------------------
(***************************************************************************)
(* Proofs about printing on Windows, for any jobs, pages, queue size and   *)
(* any number of failures and of interventions at the queue.               *)
(***************************************************************************)
EXTENDS Winspool, FiniteSetTheorems, TLAPS

Steps  == {"new", "open", "options", "pages", "retain", "free", "poll", "release", "ended"}
Phases == {"none", "spooling", "waiting", "printing", "printed", "deleting", "gone", "deleted"}
Troubles == {"none", "OFFLINE", "ERROR"}
States == {"QUEUED", "IN_PROGRESS", "DONE", "ABORTED", "STOPPED"}
Spool  == [phase : Phases, paused : BOOLEAN, retained : BOOLEAN, trouble : Troubles]

\* The type of each variable.
TypeOK ==
  /\ doing \in [WinJobs -> Steps] /\ slots \in Nat
  /\ ticket \in [WinJobs -> {"fine", "malformed", "nil"}]
  /\ context \in [WinJobs -> SUBSET Resources] /\ rung \in [WinJobs -> 0 .. 8] /\ page \in [WinJobs -> Nat]
  /\ result \in [WinJobs -> {"none", "id", "error"}] /\ reported \in [WinJobs -> States]
  /\ spool \in [WinJobs -> Spool]
  /\ stopped \in [WinJobs -> BOOLEAN] /\ touched \in [WinJobs -> BOOLEAN]
  /\ metWaiting \in [WinJobs -> BOOLEAN] /\ printed \in [WinJobs -> BOOLEAN]
  /\ callFaults \in Nat /\ touches \in Nat

\* A document that is being spooled belongs to a Print that will end it, the
\* error path of the next call releases all that newJobContext holds, and a
\* Print that does not run holds nothing.
Held(j) ==
  /\ doing[j] = "open" => rung[j] < 8 /\ context[j] \subseteq CleanUp(rung[j] + 1)
  /\ doing[j] = "new" \/ ticket[j] = "nil" => context[j] = {} /\ rung[j] = 0
  /\ spool[j].phase = "spooling" => stopped[j] \/ (Printing(j) /\ "doc" \in context[j])
  /\ ~Printing(j) /\ ~stopped[j] => context[j] = {}

\* A job that nobody touched is in the spooler for as long as its Print and
\* printJob need it: it spools until the document ends, it is retained from
\* then on, and what a poll that did not meet it waiting makes of it is DONE.
Followed(j) ==
  ~touched[j] =>
    /\ ~spool[j].paused /\ spool[j].trouble = "none"
    /\ doing[j] = "new" \/ (doing[j] = "open" /\ rung[j] < 6) => spool[j].phase = "none"
    /\ doing[j] \in {"options", "pages", "retain", "free"} \/ (doing[j] = "open" /\ rung[j] >= 6)
         => spool[j].phase = "spooling"
    /\ doing[j] \in {"free", "poll", "release"} /\ result[j] = "id" => spool[j].retained
    /\ doing[j] \in {"poll", "release"} => spool[j].phase \in {"waiting", "printing", "printed"}
    /\ doing[j] \in {"release", "ended"} /\ result[j] = "id" /\ ~metWaiting[j] => reported[j] = "DONE"

\* The steps at which the result is known.
Results(j) ==
  /\ doing[j] \in {"poll", "release"} => result[j] = "id"
  /\ doing[j] \in {"new", "open", "options", "pages", "retain"} => result[j] = "none"

\* The semaphore of the printer counts the Prints that run.
Slots == slots = Cardinality({j \in WinJobs : Printing(j)})

\* The inductive invariant.
IInv == TypeOK /\ (\A j \in WinJobs : Held(j) /\ Followed(j) /\ Results(j)) /\ Slots

-----------------------------------------------------------------------------
(* Lemmas on the steps of one job *)

\* What a step of another job leaves of job k.
Same(k) ==
  /\ doing'[k] = doing[k] /\ ticket'[k] = ticket[k] /\ context'[k] = context[k] /\ rung'[k] = rung[k]
  /\ result'[k] = result[k]
  /\ reported'[k] = reported[k] /\ spool'[k] = spool[k] /\ stopped'[k] = stopped[k]
  /\ touched'[k] = touched[k] /\ metWaiting'[k] = metWaiting[k]

\* What the invariant says of a job depends on its own entries.
LEMMA SameKeeps ==
  ASSUME NEW k \in WinJobs, Same(k), Held(k), Followed(k), Results(k)
  PROVE  Held(k)' /\ Followed(k)' /\ Results(k)'
<1>1. Held(k)'
  BY DEF Same, Held, Printing
<1>2. Followed(k)'
  BY DEF Same, Followed
<1>3. Results(k)'
  BY DEF Same, Results
<1>4. QED
  BY <1>1, <1>2, <1>3

LEMMA RunningFinite ==
  IsFiniteSet({j \in WinJobs : Printing(j)}) /\ Cardinality({j \in WinJobs : Printing(j)}) \in Nat
  BY WinspoolAssumption, FS_Subset, FS_CardinalityType DEF WinspoolAssumption

\* The count follows a job that starts, ends or goes on to run.
LEMMA SlotsStep ==
  ASSUME TypeOK, Slots, NEW j \in WinJobs, \A k \in WinJobs \ {j} : doing'[k] = doing[k],
         \/ slots' = slots /\ Printing(j)' = Printing(j)
         \/ slots' = slots + 1 /\ ~Printing(j) /\ Printing(j)'
         \/ slots' = slots - 1 /\ Printing(j) /\ ~Printing(j)'
  PROVE  Slots' /\ slots' \in Nat
<1> DEFINE S == {k \in WinJobs : Printing(k)}
           T == {k \in WinJobs : Printing(k)'}
<1>1. \A k \in WinJobs \ {j} : Printing(k)' <=> Printing(k)
  BY DEF Printing
<1>2. IsFiniteSet(S) /\ slots = Cardinality(S) /\ slots \in Nat
  BY RunningFinite DEF Slots
<1>3. CASE slots' = slots /\ Printing(j)' = Printing(j)
  <2>1. T = S
    BY <1>1, <1>3
  <2>2. QED
    BY <2>1, <1>2, <1>3 DEF Slots
<1>4. CASE slots' = slots + 1 /\ ~Printing(j) /\ Printing(j)'
  <2>1. T = S \cup {j} /\ j \notin S
    BY <1>1, <1>4
  <2>2. Cardinality(T) = Cardinality(S) + 1
    BY <2>1, <1>2, FS_AddElement
  <2>3. QED
    BY <2>2, <1>2, <1>4 DEF Slots
<1>5. CASE slots' = slots - 1 /\ Printing(j) /\ ~Printing(j)'
  <2>1. T = S \ {j} /\ j \in S
    BY <1>1, <1>5
  <2>2. Cardinality(T) = Cardinality(S) - 1
    BY <2>1, <1>2, FS_RemoveElement
  <2>3. Cardinality(S) # 0
    BY <2>1, <1>2, FS_EmptySet
  <2>4. QED
    BY <2>2, <2>3, <1>2, <1>5 DEF Slots
<1>6. QED
  BY <1>3, <1>4, <1>5

\* Putting a step of job j together.
LEMMA StepOfJob ==
  ASSUME IInv, NEW j \in WinJobs, TypeOK', \A k \in WinJobs \ {j} : Same(k),
         Held(j)', Followed(j)', Results(j)',
         \/ slots' = slots /\ Printing(j)' = Printing(j)
         \/ slots' = slots + 1 /\ ~Printing(j) /\ Printing(j)'
         \/ slots' = slots - 1 /\ Printing(j) /\ ~Printing(j)'
  PROVE  IInv'
<1>1. Slots'
  BY SlotsStep DEF IInv, Same
<1>2. ASSUME NEW k \in WinJobs
      PROVE  Held(k)' /\ Followed(k)' /\ Results(k)'
  BY SameKeeps DEF IInv
<1>3. QED
  BY <1>1, <1>2 DEF IInv

\* The same of the conjunct of the type that has an arithmetic part.
LEMMA Returned ==
  ASSUME IInv, NEW j \in WinJobs, Printing(j)
  PROVE  slots - 1 \in Nat
<1>1. j \in {k \in WinJobs : Printing(k)}
  OBVIOUS
<1>2. Cardinality({k \in WinJobs : Printing(k)}) # 0
  BY <1>1, RunningFinite, FS_EmptySet
<1>3. QED
  BY <1>2, RunningFinite DEF IInv, Slots

LEMMA EndDocType ==
  ASSUME TypeOK, NEW j \in WinJobs, EndDoc(j)
  PROVE  /\ spool' \in [WinJobs -> Spool]
         /\ \A k \in WinJobs \ {j} : spool'[k] = spool[k]
         /\ spool'[j].phase = (IF spool[j].phase = "spooling" THEN "waiting" ELSE spool[j].phase)
         /\ spool'[j].paused = spool[j].paused /\ spool'[j].retained = spool[j].retained
         /\ spool'[j].trouble = spool[j].trouble
  BY DEF TypeOK, EndDoc, Spool, Phases

LEMMA FaultType ==
  ASSUME TypeOK, NEW j \in WinJobs, CallWorks \/ CallFails(j)
  PROVE  callFaults' \in Nat /\ touched' \in [WinJobs -> BOOLEAN]
<1>1. CASE CallWorks
  BY <1>1 DEF CallWorks, TypeOK
<1>2. CASE CallFails(j)
  BY <1>2 DEF CallFails, TypeOK
<1>3. QED
  BY <1>1, <1>2

LEMMA ReturnType ==
  ASSUME IInv, NEW j \in WinJobs, Printing(j), NEW res \in {"none", "id", "error"}, Return(j, res)
  PROVE  /\ doing' \in [WinJobs -> Steps] /\ slots' \in Nat /\ slots' = slots - 1
         /\ result' \in [WinJobs -> {"none", "id", "error"}] /\ reported' \in [WinJobs -> States]
         /\ doing'[j] = (IF res = "id" THEN "poll" ELSE "ended") /\ result'[j] = res
         /\ ~Printing(j)'
         /\ \A k \in WinJobs \ {j} : doing'[k] = doing[k] /\ result'[k] = result[k] /\ reported'[k] = reported[k]
<1>1. slots - 1 \in Nat
  BY Returned
<1>2. QED
  BY <1>1 DEF IInv, TypeOK, Return, Proceed, Steps, States, Printing

-----------------------------------------------------------------------------
(* The steps of Print *)

LEMMA StepAcquire ==
  ASSUME IInv, NEW j \in WinJobs, Acquire(j)
  PROVE  IInv'
<1>1. TypeOK'
  BY DEF IInv, TypeOK, Acquire, Proceed, CallWorks, CallFails, ctxVars, histVars, Steps
<1>2. \A k \in WinJobs \ {j} : Same(k)
  BY DEF IInv, TypeOK, Acquire, Proceed, CallWorks, CallFails, ctxVars, histVars, Same
<1>3. Held(j)'
  BY DEF IInv, TypeOK, Acquire, Proceed, CallWorks, CallFails, ctxVars, histVars, Held, Printing
<1>4. Followed(j)'
  BY DEF IInv, TypeOK, Acquire, Proceed, CallWorks, CallFails, ctxVars, histVars, Held, Followed, Results
<1>5. Results(j)'
  BY DEF IInv, TypeOK, Acquire, Proceed, CallWorks, CallFails, ctxVars, histVars, Results
<1>6. \/ slots' = slots /\ Printing(j)' = Printing(j)
      \/ slots' = slots + 1 /\ ~Printing(j) /\ Printing(j)'
      \/ slots' = slots - 1 /\ Printing(j) /\ ~Printing(j)'
  BY DEF IInv, TypeOK, Acquire, Proceed, CallWorks, CallFails, ctxVars, histVars, Printing
<1>7. QED
  BY <1>1, <1>2, <1>3, <1>4, <1>5, <1>6, StepOfJob

LEMMA StepNoTicket ==
  ASSUME IInv, NEW j \in WinJobs, NoTicket(j)
  PROVE  IInv'
<1>a. Printing(j)
  BY DEF Printing, NoTicket
<1>b. Return(j, "error") /\ "error" \in {"none", "id", "error"}
  BY DEF NoTicket, IInv, TypeOK
<1>c. /\ doing' \in [WinJobs -> Steps] /\ slots' \in Nat /\ slots' = slots - 1
      /\ result' \in [WinJobs -> {"none", "id", "error"}] /\ reported' \in [WinJobs -> States]
      /\ doing'[j] = (IF "error" = "id" THEN "poll" ELSE "ended") /\ result'[j] = "error"
      /\ ~Printing(j)'
      /\ \A k \in WinJobs \ {j} : doing'[k] = doing[k] /\ result'[k] = result[k] /\ reported'[k] = reported[k]
  BY <1>a, <1>b, ReturnType
<1>1. TypeOK'
  BY <1>a, <1>c DEF IInv, TypeOK, NoTicket, Proceed, CallWorks, CallFails, ctxVars, histVars, Steps
<1>2. \A k \in WinJobs \ {j} : Same(k)
  BY <1>a, <1>c DEF IInv, TypeOK, NoTicket, Proceed, CallWorks, CallFails, ctxVars, histVars, Same
<1>3. Held(j)'
  BY <1>a, <1>c DEF IInv, TypeOK, NoTicket, Proceed, CallWorks, CallFails, ctxVars, histVars, Held, Printing
<1>4. Followed(j)'
  BY <1>a, <1>c DEF IInv, TypeOK, NoTicket, Proceed, CallWorks, CallFails, ctxVars, histVars, Held, Followed,
     Results
<1>5. Results(j)'
  BY <1>a, <1>c DEF IInv, TypeOK, NoTicket, Proceed, CallWorks, CallFails, ctxVars, histVars, Results
<1>6. \/ slots' = slots /\ Printing(j)' = Printing(j)
      \/ slots' = slots + 1 /\ ~Printing(j) /\ Printing(j)'
      \/ slots' = slots - 1 /\ Printing(j) /\ ~Printing(j)'
  BY <1>a, <1>c DEF IInv, TypeOK, NoTicket, Proceed, CallWorks, CallFails, ctxVars, histVars, Printing
<1>7. QED
  BY <1>1, <1>2, <1>3, <1>4, <1>5, <1>6, StepOfJob

\* Whatever the n-th call leaves to be released, the error path of the next one
\* releases.
LEMMA CleanUpCovers ==
  ASSUME NEW n \in 1 .. 7
  PROVE  CleanUp(n) \cup ({Ladder[n]} \cap Resources) \subseteq CleanUp(n + 1)
<1>1. CASE n = 1
  BY <1>1 DEF CleanUp, Ladder, Resources
<1>2. CASE n = 2
  BY <1>2 DEF CleanUp, Ladder, Resources
<1>3. CASE n = 3
  BY <1>3 DEF CleanUp, Ladder, Resources
<1>4. CASE n = 4
  BY <1>4 DEF CleanUp, Ladder, Resources
<1>5. CASE n = 5
  BY <1>5 DEF CleanUp, Ladder, Resources
<1>6. CASE n = 6
  BY <1>6 DEF CleanUp, Ladder, Resources
<1>7. CASE n = 7
  BY <1>7 DEF CleanUp, Ladder, Resources
<1>8. QED
  BY <1>1, <1>2, <1>3, <1>4, <1>5, <1>6, <1>7

LEMMA StepOpen ==
  ASSUME IInv, NEW j \in WinJobs, Open(j)
  PROVE  IInv'
<1>a. /\ rung' = [rung EXCEPT ![j] = rung[j] + 1] /\ rung[j] \in 0 .. 7 /\ doing[j] = "open"
      /\ ticket[j] # "nil"
  BY DEF Open, IInv, TypeOK, Held
<1>b. /\ rung'[j] = rung[j] + 1 /\ rung' \in [WinJobs -> 0 .. 8]
      /\ Len(Ladder) = 8 /\ (Ladder[rung'[j]] = "doc" <=> rung[j] = 5)
  <2>1. rung'[j] = rung[j] + 1 /\ rung' \in [WinJobs -> 0 .. 8]
    BY <1>a DEF IInv, TypeOK
  <2>2. Len(Ladder) = 8 /\ \A n \in 1 .. 8 : Ladder[n] = "doc" <=> n = 6
    BY DEF Ladder
  <2>3. QED
    BY <1>a, <2>1, <2>2
<1>c. /\ context' = [context EXCEPT ![j] = @ \cup ({Ladder[rung'[j]]} \cap Resources)]
      /\ IF rung[j] = 5 THEN StartDoc(j) ELSE UNCHANGED spool
      /\ Proceed(j, IF rung'[j] = Len(Ladder) THEN "options" ELSE "open")
  BY <1>b DEF Open
<1>d. rung[j] = 5 => "doc" \in context'[j]
  BY <1>b, <1>c DEF IInv, TypeOK, Resources
<1>e. context' \in [WinJobs -> SUBSET Resources] /\ context[j] \subseteq context'[j]
      /\ \A k \in WinJobs \ {j} : context'[k] = context[k]
  BY <1>c DEF IInv, TypeOK
<1>f. /\ doing' \in [WinJobs -> Steps] /\ doing'[j] = (IF rung[j] = 7 THEN "options" ELSE "open")
      /\ \A k \in WinJobs \ {j} : doing'[k] = doing[k]
  BY <1>a, <1>b, <1>c DEF IInv, TypeOK, Proceed, Steps
<1>g. /\ spool' \in [WinJobs -> Spool] /\ \A k \in WinJobs \ {j} : spool'[k] = spool[k]
      /\ spool'[j].phase = (IF rung[j] = 5 THEN "spooling" ELSE spool[j].phase)
      /\ spool'[j].paused = spool[j].paused /\ spool'[j].trouble = spool[j].trouble
  <2>1. CASE rung[j] = 5
    <3>1. spool[j] \in Spool /\ spool \in [WinJobs -> Spool]
      BY DEF IInv, TypeOK
    <3>2. spool' = [spool EXCEPT ![j] = [spool[j] EXCEPT !.phase = "spooling"]]
      BY <1>c, <2>1, <3>1 DEF StartDoc
    <3>3. [spool[j] EXCEPT !.phase = "spooling"] \in Spool
      BY <3>1 DEF Spool, Phases
    <3>4. QED
      BY <2>1, <3>1, <3>2, <3>3 DEF Spool
  <2>2. CASE rung[j] # 5
    BY <1>c, <2>2 DEF IInv, TypeOK
  <2>3. QED
    BY <2>1, <2>2
<1>h. UNCHANGED <<slots, ticket, page, result, reported, histVars, callFaults, touches>>
  BY DEF Open
<1>1. TypeOK'
  BY <1>b, <1>e, <1>f, <1>g, <1>h DEF IInv, TypeOK, histVars
<1>2. \A k \in WinJobs \ {j} : Same(k)
  BY <1>a, <1>e, <1>f, <1>g, <1>h DEF IInv, TypeOK, Same, histVars
<1>i. doing'[j] = "open" => context'[j] \subseteq CleanUp(rung'[j] + 1)
  <2>1. SUFFICES ASSUME rung[j] # 7 PROVE context'[j] \subseteq CleanUp(rung'[j] + 1)
    BY <1>f
  <2>2. rung'[j] \in 1 .. 7 /\ context[j] \subseteq CleanUp(rung'[j])
    BY <1>a, <1>b, <2>1 DEF IInv, Held
  <2>3. context'[j] = context[j] \cup ({Ladder[rung'[j]]} \cap Resources)
    BY <1>c DEF IInv, TypeOK
  <2>4. QED
    BY <2>2, <2>3, CleanUpCovers
<1>3. Held(j)'
  BY <1>a, <1>b, <1>d, <1>e, <1>f, <1>g, <1>h, <1>i DEF IInv, TypeOK, Held, Printing, histVars
<1>4. Followed(j)'
  BY <1>a, <1>b, <1>f, <1>g, <1>h DEF IInv, TypeOK, Followed, histVars
<1>5. Results(j)'
  BY <1>a, <1>f, <1>h DEF IInv, Results
<1>6. slots' = slots /\ Printing(j)' = Printing(j)
  BY <1>a, <1>f, <1>h DEF Printing
<1>7. QED
  BY <1>1, <1>2, <1>3, <1>4, <1>5, <1>6, StepOfJob

LEMMA StepOpenFails ==
  ASSUME IInv, NEW j \in WinJobs, OpenFails(j)
  PROVE  IInv'
<1>a. Printing(j)
  BY DEF Printing, OpenFails
<1>b. Return(j, "error") /\ "error" \in {"none", "id", "error"}
  BY DEF OpenFails, IInv, TypeOK
<1>c. /\ doing' \in [WinJobs -> Steps] /\ slots' \in Nat /\ slots' = slots - 1
      /\ result' \in [WinJobs -> {"none", "id", "error"}] /\ reported' \in [WinJobs -> States]
      /\ doing'[j] = (IF "error" = "id" THEN "poll" ELSE "ended") /\ result'[j] = "error"
      /\ ~Printing(j)'
      /\ \A k \in WinJobs \ {j} : doing'[k] = doing[k] /\ result'[k] = result[k] /\ reported'[k] = reported[k]
  BY <1>a, <1>b, ReturnType
<1>d. /\ context' = [context EXCEPT ![j] = {}]
      /\ "doc" \in context[j] => EndDoc(j)
      /\ EndDoc(j) \/ UNCHANGED spool
      /\ rung[j] < 6 => UNCHANGED spool
  <2>1. rung[j] \in 0 .. 7 /\ context[j] \subseteq CleanUp(rung[j] + 1)
    BY DEF OpenFails, IInv, TypeOK, Held
  <2>2. context' = [context EXCEPT ![j] = @ \ CleanUp(rung[j] + 1)]
    BY DEF OpenFails
  <2>3. context[j] \ CleanUp(rung[j] + 1) = {}
    BY <2>1
  <2>4. IF "doc" \in CleanUp(rung[j] + 1) THEN EndDoc(j) ELSE UNCHANGED spool
    BY DEF OpenFails
  <2>5. rung[j] < 6 => "doc" \notin CleanUp(rung[j] + 1)
    BY <2>1 DEF CleanUp
  <2>6. QED
    BY <2>1, <2>2, <2>3, <2>4, <2>5
<1>e. /\ spool' \in [WinJobs -> Spool] /\ \A k \in WinJobs \ {j} : spool'[k] = spool[k]
      /\ spool'[j].phase \in {spool[j].phase, "waiting"}
      /\ "doc" \in context[j] => spool'[j].phase # "spooling"
  BY <1>d, EndDocType DEF IInv, TypeOK
<1>1. TypeOK'
  <2>1. context' \in [WinJobs -> SUBSET Resources]
    BY <1>d DEF IInv, TypeOK
  <2>2. callFaults' \in Nat /\ touched' \in [WinJobs -> BOOLEAN]
    BY DEF OpenFails, CallFails, IInv, TypeOK
  <2>3. UNCHANGED <<ticket, rung, page, stopped, metWaiting, printed, touches>>
    BY DEF OpenFails
  <2>4. QED
    BY <1>c, <1>e, <2>1, <2>2, <2>3 DEF IInv, TypeOK
<1>2. \A k \in WinJobs \ {j} : Same(k)
  BY <1>a, <1>c, <1>d, <1>e DEF IInv, TypeOK, OpenFails, Proceed, CallWorks, CallFails, ctxVars, histVars, Same
<1>3. Held(j)'
  BY <1>a, <1>c, <1>d, <1>e DEF IInv, TypeOK, OpenFails, Proceed, CallWorks, CallFails, ctxVars, histVars,
     Held, Printing
<1>4. Followed(j)'
  BY <1>a, <1>c, <1>d, <1>e DEF IInv, TypeOK, OpenFails, Proceed, CallWorks, CallFails, ctxVars, histVars,
     Held, Followed, Results
<1>5. Results(j)'
  BY <1>a, <1>c, <1>d, <1>e DEF IInv, TypeOK, OpenFails, Proceed, CallWorks, CallFails, ctxVars, histVars, Results
<1>6. \/ slots' = slots /\ Printing(j)' = Printing(j)
      \/ slots' = slots + 1 /\ ~Printing(j) /\ Printing(j)'
      \/ slots' = slots - 1 /\ Printing(j) /\ ~Printing(j)'
  BY <1>a, <1>c, <1>d, <1>e DEF IInv, TypeOK, OpenFails, Proceed, CallWorks, CallFails, ctxVars, histVars, Printing
<1>7. QED
  BY <1>1, <1>2, <1>3, <1>4, <1>5, <1>6, StepOfJob

LEMMA StepOptions ==
  ASSUME IInv, NEW j \in WinJobs, Options(j)
  PROVE  IInv'
<1>1. TypeOK'
  BY DEF IInv, TypeOK, Options, Proceed, CallWorks, CallFails, ctxVars, histVars, Steps
<1>2. \A k \in WinJobs \ {j} : Same(k)
  BY DEF IInv, TypeOK, Options, Proceed, CallWorks, CallFails, ctxVars, histVars, Same
<1>3. Held(j)'
  BY DEF IInv, TypeOK, Options, Proceed, CallWorks, CallFails, ctxVars, histVars, Held, Printing
<1>4. Followed(j)'
  BY DEF IInv, TypeOK, Options, Proceed, CallWorks, CallFails, ctxVars, histVars, Held, Followed, Results
<1>5. Results(j)'
  BY DEF IInv, TypeOK, Options, Proceed, CallWorks, CallFails, ctxVars, histVars, Results
<1>6. \/ slots' = slots /\ Printing(j)' = Printing(j)
      \/ slots' = slots + 1 /\ ~Printing(j) /\ Printing(j)'
      \/ slots' = slots - 1 /\ Printing(j) /\ ~Printing(j)'
  BY DEF IInv, TypeOK, Options, Proceed, CallWorks, CallFails, ctxVars, histVars, Printing
<1>7. QED
  BY <1>1, <1>2, <1>3, <1>4, <1>5, <1>6, StepOfJob

LEMMA StepPrintPage ==
  ASSUME IInv, NEW j \in WinJobs, PrintPage(j)
  PROVE  IInv'
<1>1. TypeOK'
  <2>1. doing' \in [WinJobs -> Steps]
    BY DEF IInv, TypeOK, PrintPage, Proceed, Steps
  <2>2. result' \in [WinJobs -> {"none", "id", "error"}]
    BY DEF IInv, TypeOK, PrintPage
  <2>3. (CallWorks \/ CallFails(j)) /\ UNCHANGED <<slots, ticket, context, rung, reported, stopped, metWaiting, printed, touches>>
    BY DEF PrintPage, ctxVars
  <2>4. callFaults' \in Nat /\ touched' \in [WinJobs -> BOOLEAN]
    BY <2>3, FaultType DEF IInv
  <2>5. page' \in [WinJobs -> Nat] /\ UNCHANGED spool
    BY DEF IInv, TypeOK, PrintPage
  <2>6. QED
    BY <2>1, <2>2, <2>3, <2>4, <2>5 DEF IInv, TypeOK
<1>2. \A k \in WinJobs \ {j} : Same(k)
  BY DEF IInv, TypeOK, PrintPage, Proceed, CallWorks, CallFails, ctxVars, histVars, Same
<1>3. Held(j)'
  BY DEF IInv, TypeOK, PrintPage, Proceed, CallWorks, CallFails, ctxVars, histVars, Held, Printing
<1>4. Followed(j)'
  BY DEF IInv, TypeOK, PrintPage, Proceed, CallWorks, CallFails, ctxVars, histVars, Held, Followed, Results
<1>5. Results(j)'
  BY DEF IInv, TypeOK, PrintPage, Proceed, CallWorks, CallFails, ctxVars, histVars, Results
<1>6. \/ slots' = slots /\ Printing(j)' = Printing(j)
      \/ slots' = slots + 1 /\ ~Printing(j) /\ Printing(j)'
      \/ slots' = slots - 1 /\ Printing(j) /\ ~Printing(j)'
  BY DEF IInv, TypeOK, PrintPage, Proceed, CallWorks, CallFails, ctxVars, histVars, Printing
<1>7. QED
  BY <1>1, <1>2, <1>3, <1>4, <1>5, <1>6, StepOfJob

LEMMA StepCheckPaused ==
  ASSUME IInv, NEW j \in WinJobs, CheckPaused(j)
  PROVE  IInv'
<1>1. TypeOK'
  <2>1. doing' \in [WinJobs -> Steps]
    BY DEF IInv, TypeOK, CheckPaused, Proceed, Steps
  <2>2. result' \in [WinJobs -> {"none", "id", "error"}]
    BY DEF IInv, TypeOK, CheckPaused
  <2>3. (CallWorks \/ CallFails(j)) /\ UNCHANGED <<slots, ticket, context, rung, reported, stopped, metWaiting, printed, touches>>
        /\ UNCHANGED page /\ UNCHANGED spool
    BY DEF CheckPaused, ctxVars
  <2>4. callFaults' \in Nat /\ touched' \in [WinJobs -> BOOLEAN]
    BY <2>3, FaultType DEF IInv
  <2>6. QED
    BY <2>1, <2>2, <2>3, <2>4 DEF IInv, TypeOK
<1>2. \A k \in WinJobs \ {j} : Same(k)
  BY DEF IInv, TypeOK, CheckPaused, Proceed, CallWorks, CallFails, ctxVars, histVars, Same
<1>3. Held(j)'
  BY DEF IInv, TypeOK, CheckPaused, Proceed, CallWorks, CallFails, ctxVars, histVars, Held, Printing, GetJob
<1>4. Followed(j)'
  BY DEF IInv, TypeOK, CheckPaused, Proceed, CallWorks, CallFails, ctxVars, histVars, Held, Followed, Results,
     GetJob
<1>5. Results(j)'
  BY DEF IInv, TypeOK, CheckPaused, Proceed, CallWorks, CallFails, ctxVars, histVars, Results
<1>6. \/ slots' = slots /\ Printing(j)' = Printing(j)
      \/ slots' = slots + 1 /\ ~Printing(j) /\ Printing(j)'
      \/ slots' = slots - 1 /\ Printing(j) /\ ~Printing(j)'
  BY DEF IInv, TypeOK, CheckPaused, Proceed, CallWorks, CallFails, ctxVars, histVars, Printing
<1>7. QED
  BY <1>1, <1>2, <1>3, <1>4, <1>5, <1>6, StepOfJob

LEMMA StepRetain ==
  ASSUME IInv, NEW j \in WinJobs, Retain(j)
  PROVE  IInv'
<1>a. /\ spool' \in [WinJobs -> Spool] /\ \A k \in WinJobs \ {j} : spool'[k] = spool[k]
      /\ spool'[j].phase = spool[j].phase /\ spool'[j].paused = spool[j].paused
      /\ spool'[j].trouble = spool[j].trouble
      /\ (result'[j] = "id" => spool'[j].retained \/ touched'[j])
  <2>1. \/ spool' = [spool EXCEPT ![j].retained = TRUE] /\ result' = [result EXCEPT ![j] = "id"]
        \/ spool' = spool /\ result' = [result EXCEPT ![j] = "error"]
    BY DEF Retain
  <2>2. CASE spool' = [spool EXCEPT ![j].retained = TRUE]
    <3>1. spool[j] \in Spool /\ spool \in [WinJobs -> Spool]
      BY DEF IInv, TypeOK
    <3>2. spool' = [spool EXCEPT ![j] = [spool[j] EXCEPT !.retained = TRUE]]
      BY <2>2, <3>1
    <3>3. [spool[j] EXCEPT !.retained = TRUE] \in Spool
      BY <3>1 DEF Spool
    <3>4. QED
      BY <3>1, <3>2, <3>3 DEF Spool
  <2>3. CASE spool' = spool /\ result' = [result EXCEPT ![j] = "error"]
    BY <2>3 DEF IInv, TypeOK
  <2>4. QED
    BY <2>1, <2>2, <2>3
<1>1. TypeOK'
  <2>1. doing' \in [WinJobs -> Steps]
    BY DEF IInv, TypeOK, Retain, Proceed, Steps
  <2>2. result' \in [WinJobs -> {"none", "id", "error"}]
    BY DEF IInv, TypeOK, Retain
  <2>3. (CallWorks \/ CallFails(j)) /\ UNCHANGED <<slots, ticket, context, rung, reported, stopped, metWaiting, printed, touches>>
        /\ UNCHANGED page
    BY DEF Retain, ctxVars
  <2>4. callFaults' \in Nat /\ touched' \in [WinJobs -> BOOLEAN]
    BY <2>3, FaultType DEF IInv
  <2>6. QED
    BY <1>a, <2>1, <2>2, <2>3, <2>4 DEF IInv, TypeOK
<1>2. \A k \in WinJobs \ {j} : Same(k)
  BY <1>a DEF IInv, TypeOK, Retain, Proceed, CallWorks, CallFails, ctxVars, histVars, Same
<1>3. Held(j)'
  BY <1>a DEF IInv, TypeOK, Retain, Proceed, CallWorks, CallFails, ctxVars, histVars, Held, Printing
<1>4. Followed(j)'
  BY <1>a DEF IInv, TypeOK, Retain, Proceed, CallWorks, CallFails, ctxVars, histVars, Held, Followed, Results
<1>5. Results(j)'
  BY <1>a DEF IInv, TypeOK, Retain, Proceed, CallWorks, CallFails, ctxVars, histVars, Results
<1>6. \/ slots' = slots /\ Printing(j)' = Printing(j)
      \/ slots' = slots + 1 /\ ~Printing(j) /\ Printing(j)'
      \/ slots' = slots - 1 /\ Printing(j) /\ ~Printing(j)'
  BY <1>a DEF IInv, TypeOK, Retain, Proceed, CallWorks, CallFails, ctxVars, histVars, Printing
<1>7. QED
  BY <1>1, <1>2, <1>3, <1>4, <1>5, <1>6, StepOfJob

LEMMA StepFree ==
  ASSUME IInv, NEW j \in WinJobs, Free(j)
  PROVE  IInv'
<1>a. Printing(j)
  BY DEF Printing, Free
<1>b. Return(j, result[j]) /\ result[j] \in {"none", "id", "error"}
  BY DEF Free, IInv, TypeOK
<1>c. /\ doing' \in [WinJobs -> Steps] /\ slots' \in Nat /\ slots' = slots - 1
      /\ result' \in [WinJobs -> {"none", "id", "error"}] /\ reported' \in [WinJobs -> States]
      /\ doing'[j] = (IF result[j] = "id" THEN "poll" ELSE "ended") /\ result'[j] = result[j]
      /\ ~Printing(j)'
      /\ \A k \in WinJobs \ {j} : doing'[k] = doing[k] /\ result'[k] = result[k] /\ reported'[k] = reported[k]
  BY <1>a, <1>b, ReturnType
<1>d. EndDoc(j) /\ context' = [context EXCEPT ![j] = {}]
  <2>1. Released(Len(FreeOrder)) = Resources
    <3>1. Len(FreeOrder) = 6
      BY DEF FreeOrder
    <3>2. Resources \subseteq Released(6)
      <4>1. 1 \in 1 .. 6 /\ 2 \in 1 .. 6 /\ 3 \in 1 .. 6 /\ 4 \in 1 .. 6 /\ 5 \in 1 .. 6 /\ 6 \in 1 .. 6
        OBVIOUS
      <4>2. /\ FreeOrder[1] = "context" /\ FreeOrder[2] = "surface" /\ FreeOrder[3] = "doc"
            /\ FreeOrder[4] = "dc" /\ FreeOrder[5] = "printer" /\ FreeOrder[6] = "document"
        BY DEF FreeOrder
      <4>3. \A i \in 1 .. 6 : FreeOrder[i] \in Released(6)
        BY DEF Released
      <4>4. QED
        BY <4>1, <4>2, <4>3 DEF Resources
    <3>3. Released(6) \subseteq Resources
      BY DEF Released, FreeOrder, Resources
    <3>4. QED
      BY <3>1, <3>2, <3>3
  <2>2. context' = [context EXCEPT ![j] = @ \ Released(Len(FreeOrder))]
    BY DEF Free
  <2>3. context[j] \ Resources = {}
    BY DEF IInv, TypeOK
  <2>4. QED
    BY <2>1, <2>2, <2>3 DEF Free
<1>e. /\ spool' \in [WinJobs -> Spool] /\ \A k \in WinJobs \ {j} : spool'[k] = spool[k]
      /\ spool'[j].phase = (IF spool[j].phase = "spooling" THEN "waiting" ELSE spool[j].phase)
      /\ spool'[j].paused = spool[j].paused /\ spool'[j].retained = spool[j].retained
      /\ spool'[j].trouble = spool[j].trouble
  BY <1>d, EndDocType DEF IInv
<1>1. TypeOK'
  BY <1>a, <1>c, <1>d, <1>e DEF IInv, TypeOK, Free, Proceed, CallWorks, CallFails, ctxVars, histVars, Steps
<1>2. \A k \in WinJobs \ {j} : Same(k)
  BY <1>a, <1>c, <1>d, <1>e DEF IInv, TypeOK, Free, Proceed, CallWorks, CallFails, ctxVars, histVars, Same
<1>3. Held(j)'
  BY <1>a, <1>c, <1>d, <1>e DEF IInv, TypeOK, Free, Proceed, CallWorks, CallFails, ctxVars, histVars, Held,
     Printing
<1>4. Followed(j)'
  BY <1>a, <1>c, <1>d, <1>e DEF IInv, TypeOK, Free, Proceed, CallWorks, CallFails, ctxVars, histVars, Held,
     Followed, Results
<1>5. Results(j)'
  BY <1>a, <1>c, <1>d, <1>e DEF IInv, TypeOK, Free, Proceed, CallWorks, CallFails, ctxVars, histVars, Results
<1>6. \/ slots' = slots /\ Printing(j)' = Printing(j)
      \/ slots' = slots + 1 /\ ~Printing(j) /\ Printing(j)'
      \/ slots' = slots - 1 /\ Printing(j) /\ ~Printing(j)'
  BY <1>a, <1>c, <1>d, <1>e DEF IInv, TypeOK, Free, Proceed, CallWorks, CallFails, ctxVars, histVars, Printing
<1>7. QED
  BY <1>1, <1>2, <1>3, <1>4, <1>5, <1>6, StepOfJob

LEMMA StepFreeStops ==
  ASSUME IInv, NEW j \in WinJobs, FreeStops(j)
  PROVE  IInv'
<1>a. Printing(j)
  BY DEF Printing, FreeStops
<1>b. Return(j, result[j]) /\ result[j] \in {"none", "id", "error"}
  BY DEF FreeStops, IInv, TypeOK
<1>c. /\ doing' \in [WinJobs -> Steps] /\ slots' \in Nat /\ slots' = slots - 1
      /\ result' \in [WinJobs -> {"none", "id", "error"}] /\ reported' \in [WinJobs -> States]
      /\ doing'[j] = (IF result[j] = "id" THEN "poll" ELSE "ended") /\ result'[j] = result[j]
      /\ ~Printing(j)'
      /\ \A k \in WinJobs \ {j} : doing'[k] = doing[k] /\ result'[k] = result[k] /\ reported'[k] = reported[k]
  BY <1>a, <1>b, ReturnType
<1>d. PICK n \in 2 .. 5 :
         /\ context' = [context EXCEPT ![j] = @ \ Released(IF n = 2 THEN n ELSE n - 1)]
         /\ IF n > 3 THEN EndDoc(j) ELSE UNCHANGED spool
  BY DEF FreeStops
<1>e. /\ spool' \in [WinJobs -> Spool] /\ \A k \in WinJobs \ {j} : spool'[k] = spool[k]
  BY <1>d, EndDocType DEF IInv, TypeOK
<1>f. context' \in [WinJobs -> SUBSET Resources] /\ \A k \in WinJobs \ {j} : context'[k] = context[k]
  BY <1>d DEF IInv, TypeOK
<1>g. stopped'[j] /\ touched'[j]
  BY DEF FreeStops, CallFails, IInv, TypeOK
<1>1. TypeOK'
  BY <1>a, <1>c, <1>e, <1>f, <1>g DEF IInv, TypeOK, FreeStops, Proceed, CallWorks, CallFails, ctxVars,
     histVars, Steps
<1>2. \A k \in WinJobs \ {j} : Same(k)
  BY <1>a, <1>c, <1>e, <1>f, <1>g DEF IInv, TypeOK, FreeStops, Proceed, CallWorks, CallFails, ctxVars,
     histVars, Same
<1>3. Held(j)'
  BY <1>a, <1>c, <1>e, <1>f, <1>g DEF IInv, TypeOK, FreeStops, Proceed, CallWorks, CallFails, ctxVars,
     histVars, Held, Printing
<1>4. Followed(j)'
  BY <1>a, <1>c, <1>e, <1>f, <1>g DEF IInv, TypeOK, FreeStops, Proceed, CallWorks, CallFails, ctxVars,
     histVars, Held, Followed, Results
<1>5. Results(j)'
  BY <1>a, <1>c, <1>e, <1>f, <1>g DEF IInv, TypeOK, FreeStops, Proceed, CallWorks, CallFails, ctxVars,
     histVars, Results
<1>6. \/ slots' = slots /\ Printing(j)' = Printing(j)
      \/ slots' = slots + 1 /\ ~Printing(j) /\ Printing(j)'
      \/ slots' = slots - 1 /\ Printing(j) /\ ~Printing(j)'
  BY <1>a, <1>c, <1>e, <1>f, <1>g DEF IInv, TypeOK, FreeStops, Proceed, CallWorks, CallFails, ctxVars,
     histVars, Printing
<1>7. QED
  BY <1>1, <1>2, <1>3, <1>4, <1>5, <1>6, StepOfJob

-----------------------------------------------------------------------------
(* GetJobState and ReleaseJob *)

LEMMA ConvertType ==
  ASSUME NEW fs
  PROVE  ConvertJobState(fs) \in States \ {"QUEUED"}
  BY DEF ConvertJobState, States

\* A poll that meets an untouched job printing keeps polling, and one that meets
\* it printed is done.
LEMMA PolledState ==
  ASSUME NEW s \in Spool, NEW shown \in BOOLEAN
  PROVE  /\ s.phase = "printing" => ConvertJobState(Flags(s, shown)) = "IN_PROGRESS"
         /\ s.phase = "printed" => ConvertJobState(Flags(s, shown)) = "DONE"
<1>1. CASE s.phase = "printing"
  <2>1. "PRINTING" \in Flags(s, shown)
    BY <1>1 DEF Flags
  <2>2. QED
    BY <2>1, <1>1 DEF ConvertJobState
<1>2. CASE s.phase = "printed"
  <2>1. "PRINTED" \in Flags(s, shown)
    BY <1>2 DEF Flags
  <2>2. "SPOOLING" \notin Flags(s, shown) /\ "PRINTING" \notin Flags(s, shown)
    BY <1>2 DEF Flags, Spool, Troubles
  <2>3. QED
    BY <2>1, <2>2, <1>2 DEF ConvertJobState
<1>3. QED
  BY <1>1, <1>2

LEMMA ReportsType ==
  ASSUME TypeOK, NEW j \in WinJobs, NEW state \in States, Reports(j, state)
  PROVE  /\ reported' \in [WinJobs -> States] /\ reported'[j] = state /\ doing' \in [WinJobs -> Steps]
         /\ doing'[j] = (IF state \in {"IN_PROGRESS", "STOPPED"} THEN "poll" ELSE "release")
         /\ \A k \in WinJobs \ {j} : reported'[k] = reported[k] /\ doing'[k] = doing[k]
  BY DEF TypeOK, Reports, Proceed, Steps

LEMMA StepGetJobState ==
  ASSUME IInv, NEW j \in WinJobs, GetJobState(j)
  PROVE  IInv'
<1>a. PICK state \in States :
         /\ Reports(j, state)
         /\ spool[j].phase = "printing" => state = "IN_PROGRESS"
         /\ spool[j].phase = "printed" => state = "DONE"
  <2>1. spool[j] \in Spool
    BY DEF IInv, TypeOK
  <2>2. CASE GetJob(j)
    <3>1. PICK shown \in BOOLEAN : Reports(j, ConvertJobState(Flags(spool[j], shown)))
      BY <2>2 DEF GetJobState
    <3>2. QED
      BY <2>1, <3>1, ConvertType, PolledState
  <2>3. CASE ~GetJob(j)
    BY <2>3 DEF GetJobState, GetJob, UnknownState, States
  <2>4. QED
    BY <2>2, <2>3
<1>b. /\ reported' \in [WinJobs -> States] /\ reported'[j] = state /\ doing' \in [WinJobs -> Steps]
      /\ doing'[j] = (IF state \in {"IN_PROGRESS", "STOPPED"} THEN "poll" ELSE "release")
      /\ \A k \in WinJobs \ {j} : reported'[k] = reported[k] /\ doing'[k] = doing[k]
  BY <1>a, ReportsType DEF IInv
<1>c. metWaiting' = [metWaiting EXCEPT ![j] = @ \/ spool[j].phase = "waiting"]
  BY DEF GetJobState
<1>d. /\ metWaiting' \in [WinJobs -> BOOLEAN] /\ (metWaiting[j] \/ spool[j].phase = "waiting" => metWaiting'[j])
      /\ \A k \in WinJobs \ {j} : metWaiting'[k] = metWaiting[k]
  BY <1>c, Zenon DEF IInv, TypeOK
<1>e. /\ UNCHANGED <<slots, ticket, ctxVars, result, spool, stopped, touched, printed, callFaults, touches>>
      /\ doing[j] = "poll"
  BY DEF GetJobState
<1>1. TypeOK'
  BY <1>b, <1>d, <1>e DEF IInv, TypeOK, ctxVars
<1>2. \A k \in WinJobs \ {j} : Same(k)
  BY <1>b, <1>d, <1>e DEF Same, ctxVars
<1>3. Held(j)'
  BY <1>b, <1>e DEF IInv, Held, Printing, ctxVars
<1>4. Followed(j)'
  BY <1>a, <1>b, <1>d, <1>e DEF IInv, Followed, ctxVars
<1>5. Results(j)'
  BY <1>b, <1>e DEF IInv, Results
<1>6. slots' = slots /\ Printing(j)' = Printing(j)
  BY <1>b, <1>e DEF Printing
<1>7. QED
  BY <1>1, <1>2, <1>3, <1>4, <1>5, <1>6, StepOfJob

LEMMA StepGetJobStateFails ==
  ASSUME IInv, NEW j \in WinJobs, GetJobStateFails(j)
  PROVE  IInv'
<1>a. /\ reported' \in [WinJobs -> States] /\ doing' \in [WinJobs -> Steps] /\ doing'[j] = "release"
      /\ \A k \in WinJobs \ {j} : reported'[k] = reported[k] /\ doing'[k] = doing[k]
  BY ReportsType DEF GetJobStateFails, IInv, States
<1>1. TypeOK'
  <2>1. callFaults' \in Nat /\ touched' \in [WinJobs -> BOOLEAN]
    BY DEF GetJobStateFails, CallFails, IInv, TypeOK
  <2>2. UNCHANGED <<slots, ticket, context, rung, page, result, spool, stopped, metWaiting, printed, touches>>
    BY DEF GetJobStateFails, ctxVars
  <2>3. QED
    BY <1>a, <2>1, <2>2 DEF IInv, TypeOK
<1>2. \A k \in WinJobs \ {j} : Same(k)
  BY <1>a DEF IInv, TypeOK, GetJobStateFails, Proceed, CallWorks, CallFails, ctxVars, histVars, Same
<1>3. Held(j)'
  BY <1>a DEF IInv, TypeOK, GetJobStateFails, Proceed, CallWorks, CallFails, ctxVars, histVars, Held, Printing
<1>4. Followed(j)'
  BY <1>a DEF IInv, TypeOK, GetJobStateFails, Proceed, CallWorks, CallFails, ctxVars, histVars, Held, Followed, Results
<1>5. Results(j)'
  BY <1>a DEF IInv, TypeOK, GetJobStateFails, Proceed, CallWorks, CallFails, ctxVars, histVars, Results
<1>6. \/ slots' = slots /\ Printing(j)' = Printing(j)
      \/ slots' = slots + 1 /\ ~Printing(j) /\ Printing(j)'
      \/ slots' = slots - 1 /\ Printing(j) /\ ~Printing(j)'
  BY <1>a DEF IInv, TypeOK, GetJobStateFails, Proceed, CallWorks, CallFails, ctxVars, histVars, Printing
<1>7. QED
  BY <1>1, <1>2, <1>3, <1>4, <1>5, <1>6, StepOfJob

LEMMA StepReleaseJob ==
  ASSUME IInv, NEW j \in WinJobs, ReleaseWinJob(j)
  PROVE  IInv'
<1>a. /\ spool' \in [WinJobs -> Spool] /\ \A k \in WinJobs \ {j} : spool'[k] = spool[k]
      /\ spool'[j].phase = "spooling" => spool[j].phase = "spooling"
      /\ spool'[j].paused = spool[j].paused /\ spool'[j].trouble = spool[j].trouble
  <2>1. \/ spool' = spool \/ spool' = [spool EXCEPT ![j] = AfterRelease(@)]
    BY DEF ReleaseWinJob
  <2>2. /\ AfterRelease(spool[j]) \in Spool
        /\ AfterRelease(spool[j]).phase = "spooling" => spool[j].phase = "spooling"
        /\ AfterRelease(spool[j]).paused = spool[j].paused
        /\ AfterRelease(spool[j]).trouble = spool[j].trouble
    BY DEF IInv, TypeOK, AfterRelease, Spool, Phases
  <2>3. QED
    BY <2>1, <2>2 DEF IInv, TypeOK
<1>1. TypeOK'
  <2>1. doing' \in [WinJobs -> Steps]
    BY DEF IInv, TypeOK, ReleaseWinJob, Proceed, Steps
  <2>2. callFaults' \in Nat /\ touched' \in [WinJobs -> BOOLEAN]
    BY FaultType DEF ReleaseWinJob, IInv
  <2>3. UNCHANGED <<slots, ticket, context, rung, page, result, reported, stopped, metWaiting, printed, touches>>
    BY DEF ReleaseWinJob, ctxVars
  <2>4. QED
    BY <1>a, <2>1, <2>2, <2>3 DEF IInv, TypeOK
<1>2. \A k \in WinJobs \ {j} : Same(k)
  BY <1>a DEF IInv, TypeOK, ReleaseWinJob, Proceed, CallWorks, CallFails, ctxVars, histVars, Same
<1>3. Held(j)'
  BY <1>a DEF IInv, TypeOK, ReleaseWinJob, Proceed, CallWorks, CallFails, ctxVars, histVars, Held, Printing
<1>4. Followed(j)'
  BY <1>a DEF IInv, TypeOK, ReleaseWinJob, Proceed, CallWorks, CallFails, ctxVars, histVars, Held, Followed, Results
<1>5. Results(j)'
  BY <1>a DEF IInv, TypeOK, ReleaseWinJob, Proceed, CallWorks, CallFails, ctxVars, histVars, Results
<1>6. \/ slots' = slots /\ Printing(j)' = Printing(j)
      \/ slots' = slots + 1 /\ ~Printing(j) /\ Printing(j)'
      \/ slots' = slots - 1 /\ Printing(j) /\ ~Printing(j)'
  BY <1>a DEF IInv, TypeOK, ReleaseWinJob, Proceed, CallWorks, CallFails, ctxVars, histVars, Printing
<1>7. QED
  BY <1>1, <1>2, <1>3, <1>4, <1>5, <1>6, StepOfJob

-----------------------------------------------------------------------------
(* The spooler and the users *)

\* A step of the spooler or a user changes the state of one job in the queue.
LEMMA StepBecomes ==
  ASSUME IInv, NEW j \in WinJobs, NEW s \in Spool, Becomes(j, s), s.phase # "spooling" \/ spool[j].phase = "spooling",
         touched' \in [WinJobs -> BOOLEAN], \A k \in WinJobs \ {j} : touched'[k] = touched[k],
         printed' \in [WinJobs -> BOOLEAN], touches' \in Nat,
         \/ touched'[j]
         \/ /\ touched'[j] = touched[j] /\ s.paused = spool[j].paused /\ s.trouble = spool[j].trouble
            /\ s.retained = spool[j].retained
            /\ spool[j].phase \notin {"none", "spooling"}
            /\ s.phase \in {"waiting", "printing", "printed"}
                 \/ spool[j].phase = "deleting" \/ ~spool[j].retained
  PROVE  IInv'
<1>1. spool' = [spool EXCEPT ![j] = s]
      /\ UNCHANGED <<doing, slots, ticket, context, rung, page, result, reported, stopped, metWaiting, callFaults>>
  BY DEF Becomes, ctxVars
<1>2. spool' \in [WinJobs -> Spool] /\ spool'[j] = s /\ \A k \in WinJobs \ {j} : spool'[k] = spool[k]
  BY <1>1 DEF IInv, TypeOK
<1>3. TypeOK'
  BY <1>1, <1>2 DEF IInv, TypeOK
<1>4. \A k \in WinJobs \ {j} : Same(k)
  BY <1>1, <1>2 DEF Same
<1>5. Held(j)'
  BY <1>1, <1>2 DEF IInv, Held, Printing
<1>6. Followed(j)'
  BY <1>1, <1>2 DEF IInv, TypeOK, Followed, Results
<1>7. Results(j)'
  BY <1>1 DEF IInv, Results
<1>8. slots' = slots /\ Printing(j)' = Printing(j)
  BY <1>1 DEF Printing
<1>9. QED
  BY <1>3, <1>4, <1>5, <1>6, <1>7, <1>8, StepOfJob

LEMMA StepSpooler ==
  ASSUME IInv, NEW j \in WinJobs, Spooler(j)
  PROVE  IInv'
<1>1. /\ spool[j] \in Spool
      /\ touched \in [WinJobs -> BOOLEAN] /\ printed \in [WinJobs -> BOOLEAN] /\ touches \in Nat
  BY DEF IInv, TypeOK
<1>2. CASE StartsPrinting(j)
  <2> DEFINE s == [spool[j] EXCEPT !.phase = "printing"]
  <2>1. Becomes(j, s) /\ UNCHANGED <<touched, printed, touches>> /\ spool[j].phase = "waiting"
    BY <1>2 DEF StartsPrinting
  <2>2. s \in Spool /\ s.phase = "printing" /\ s.paused = spool[j].paused
        /\ s.trouble = spool[j].trouble /\ s.retained = spool[j].retained
    BY <1>1 DEF Spool, Phases
  <2> HIDE DEF s
  <2>3. QED
    BY <1>1, <2>1, <2>2, StepBecomes
<1>3. CASE Printed(j)
  <2> DEFINE s == [spool[j] EXCEPT !.phase = IF spool[j].retained THEN "printed" ELSE "gone"]
  <2>1. /\ Becomes(j, s) /\ spool[j].phase = "printing"
        /\ printed' = [printed EXCEPT ![j] = TRUE] /\ UNCHANGED <<touched, touches>>
    BY <1>3 DEF Printed
  <2>2. /\ s \in Spool /\ s.phase = (IF spool[j].retained THEN "printed" ELSE "gone")
        /\ s.paused = spool[j].paused
        /\ s.trouble = spool[j].trouble /\ s.retained = spool[j].retained
    BY <1>1 DEF Spool, Phases
  <2> HIDE DEF s
  <2>3. printed' \in [WinJobs -> BOOLEAN]
    BY <1>1, <2>1
  <2>4. QED
    BY <1>1, <2>1, <2>2, <2>3, StepBecomes
<1>4. CASE Deletes(j)
  <2> DEFINE s == [spool[j] EXCEPT !.phase = "gone"]
  <2>1. Becomes(j, s) /\ UNCHANGED <<touched, printed, touches>> /\ spool[j].phase = "deleting"
    BY <1>4 DEF Deletes
  <2>2. s \in Spool /\ s.phase = "gone" /\ s.paused = spool[j].paused
        /\ s.trouble = spool[j].trouble /\ s.retained = spool[j].retained
    BY <1>1 DEF Spool, Phases
  <2> HIDE DEF s
  <2>3. QED
    BY <1>1, <2>1, <2>2, StepBecomes
<1>5. QED
  BY <1>2, <1>3, <1>4 DEF Spooler

LEMMA StepTouched ==
  ASSUME IInv, NEW j \in WinJobs, NEW s \in Spool, Touched(j, s),
         s.phase # "spooling" \/ spool[j].phase = "spooling"
  PROVE  IInv'
<1>1. /\ touched' = [touched EXCEPT ![j] = TRUE] /\ UNCHANGED printed /\ touches' = touches + 1
      /\ Becomes(j, s)
  BY DEF Touched
<1>2. touched' \in [WinJobs -> BOOLEAN] /\ touched'[j] /\ \A k \in WinJobs \ {j} : touched'[k] = touched[k]
  BY <1>1 DEF IInv, TypeOK
<1>3. printed' \in [WinJobs -> BOOLEAN] /\ touches' \in Nat
  BY <1>1 DEF IInv, TypeOK
<1>4. QED
  BY <1>1, <1>2, <1>3, StepBecomes

LEMMA StepUser ==
  ASSUME IInv, NEW j \in WinJobs, User(j)
  PROVE  IInv'
<1>1. spool[j] \in Spool
  BY DEF IInv, TypeOK
<1>2. PICK s \in Spool : Touched(j, s) /\ (s.phase # "spooling" \/ spool[j].phase = "spooling")
  <2>1. CASE Touched(j, [spool[j] EXCEPT !.paused = ~@])
    <3>1. [spool[j] EXCEPT !.paused = ~@] \in Spool
          /\ [spool[j] EXCEPT !.paused = ~@].phase = spool[j].phase
      BY <1>1 DEF Spool
    <3>2. QED
      BY <2>1, <3>1
  <2>2. CASE Touched(j, [spool[j] EXCEPT !.phase = IF @ = "spooling" THEN "gone" ELSE "deleting"])
    <3>1. [spool[j] EXCEPT !.phase = IF @ = "spooling" THEN "gone" ELSE "deleting"] \in Spool
          /\ [spool[j] EXCEPT !.phase = IF @ = "spooling" THEN "gone" ELSE "deleting"].phase # "spooling"
      BY <1>1 DEF Spool, Phases
    <3>2. QED
      BY <2>2, <3>1
  <2>3. CASE \E x \in {"none", "OFFLINE", "ERROR"} \ {spool[j].trouble} :
               Touched(j, [spool[j] EXCEPT !.trouble = x])
    <3>1. PICK x \in Troubles : Touched(j, [spool[j] EXCEPT !.trouble = x])
      BY <2>3 DEF Troubles
    <3>2. [spool[j] EXCEPT !.trouble = x] \in Spool
          /\ [spool[j] EXCEPT !.trouble = x].phase = spool[j].phase
      BY <1>1, <3>1 DEF Spool
    <3>3. QED
      BY <3>1, <3>2
  <2>4. QED
    BY <2>1, <2>2, <2>3 DEF User
<1>3. QED
  BY <1>2, StepTouched

-----------------------------------------------------------------------------
(* The theorems *)

LEMMA InitInv == SpoolInit => IInv
<1> SUFFICES ASSUME SpoolInit PROVE IInv
  OBVIOUS
<1>1. TypeOK
  BY DEF SpoolInit, SpoolInitAt, TypeOK, Steps, States, NoSpool, Spool, Phases, Troubles
<1>2. \A j \in WinJobs : Held(j) /\ Followed(j) /\ Results(j)
  BY DEF SpoolInit, SpoolInitAt, Held, Followed, Results, Printing, NoSpool
<1>3. {j \in WinJobs : Printing(j)} = {}
  BY DEF SpoolInit, SpoolInitAt, Printing
<1>4. Slots
  BY <1>3, FS_EmptySet DEF SpoolInit, SpoolInitAt, Slots
<1>5. QED
  BY <1>1, <1>2, <1>4 DEF IInv

LEMMA StepInv == IInv /\ [SpoolNext]_spoolVars => IInv'
<1> SUFFICES ASSUME IInv, [SpoolNext]_spoolVars PROVE IInv'
  OBVIOUS
<1>1. ASSUME NEW j \in WinJobs, PrintDocument(j)
      PROVE  IInv'
  BY <1>1, StepAcquire, StepNoTicket, StepOpen, StepOpenFails, StepOptions, StepPrintPage,
     StepCheckPaused, StepRetain, StepFree, StepFreeStops DEF PrintDocument
<1>2. CASE UNCHANGED spoolVars
  BY <1>2 DEF IInv, TypeOK, Held, Followed, Results, Slots, Printing, spoolVars, ctxVars, histVars
<1>3. CASE SpoolNext
  BY <1>1, <1>3, StepGetJobState, StepGetJobStateFails, StepReleaseJob, StepSpooler, StepUser DEF SpoolNext
<1>4. QED
  BY <1>2, <1>3

\* The invariant holds of every behaviour.
THEOREM InvariantHolds == SpoolSpec => []IInv
<1>1. QED
  BY InitInv, StepInv, PTL DEF SpoolSpec

\* Whatever failed, a Print that has returned holds nothing and has ended its
\* document, unless free() came to an error, and the semaphore counts the Prints
\* that run.  (winspool.Print, newJobContext, jobContext.free.)
THEOREM EverythingFreed == SpoolSpec => []ContextFreed
<1>1. IInv => ContextFreed
  BY DEF IInv, Held, Slots, ContextFreed
<1>2. QED
  BY <1>1, InvariantHolds, PTL

\* A printed job that nobody touched, and that no poll met while it waited, is
\* reported DONE.  (winspool.Print, GetJobState; manager.printJob.)
THEOREM PrintedJobsAreDone == SpoolSpec => []PrintedIsDone
<1>1. IInv => PrintedIsDone
  BY DEF IInv, Followed, PrintedIsDone
<1>2. QED
  BY <1>1, InvariantHolds, PTL
=============================================================================
