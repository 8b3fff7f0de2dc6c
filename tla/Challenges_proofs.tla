------------------------- MODULE Challenges_proofs -------------------------
(***************************************************************************)
(* Proofs about comparisons for any number of comparisons, trials and      *)
(* runner processes: types, no repeated trial, agreement of the stored     *)
(* record with the runner's loop, coherent reports, final verdicts, and    *)
(* what a cancellation stops.                                              *)
(***************************************************************************)
EXTENDS Challenges, TLAPS

Busy == {"picked", "trial", "running", "ran", "closing"}
Record == [status : Statuses, cancel_requested : BOOLEAN, trials : [Trials -> TrialStatuses]]

-----------------------------------------------------------------------------
(* The inductive invariant.                                                *)

\* A process that lives holds the lease.
OneRunner == \A r \in Runners : pc[r] # "down" => lease = r

\* From its pick on a runner has a comparison, and while a trial runs, a trial.
HasWork ==
  \A r \in Runners :
     /\ pc[r] \in Busy => mine[r] \in Ids
     /\ pc[r] \in {"running", "ran"} => at[r] \in Trials

\* A trial that waits has never begun, and one that began never waits again.
UnbegunTrial(c, i) ==
  \/ begun[c][i] = 0
  \/ begun[c][i] = 1 /\ challenge[c].trials[i] # "queued"

Unbegun == \A c \in Ids : \A i \in Trials : UnbegunTrial(c, i)

IInv ==
  TypeOK /\ OneRunner /\ HasWork /\ Unbegun /\ LoopMatchesFile /\ ReportCoherent

-----------------------------------------------------------------------------
\* What clients and runners write over a record is a record.
LEMMA RecordUpdates ==
  ASSUME NEW f \in Record
  PROVE  /\ AfterCancel(f) \in Record
         /\ f.status = "running" => Interrupted(f) \in Record
         /\ \A i \in Trials, o \in Evaluated : Saved(f, i, o) \in Record
         /\ \A r \in Runners : Closed(r, f) \in Record
<1>1. AfterCancel(f) \in Record
  BY DEF AfterCancel, Record, Statuses, All, TrialStatuses, Evaluated
<1>2. Interrupted(f) \in Record
  BY DEF Interrupted, Record, Statuses, TrialStatuses
<1>3. ASSUME NEW i \in Trials, NEW o \in Evaluated PROVE Saved(f, i, o) \in Record
  BY <1>3 DEF Saved, Record, TrialStatuses
<1>4. ASSUME NEW r \in Runners PROVE Closed(r, f) \in Record
  BY <1>4 DEF Closed, Record, Statuses, TrialStatuses, Evaluated
<1> QED BY <1>1, <1>2, <1>3, <1>4

\* A process that ends leaves typed memory behind.
LEMMA GoneTyped ==
  ASSUME TypeOK, NEW r \in Runners, Gone(r)
  PROVE  /\ lease' \in Runners \cup {Nobody}
         /\ pc' \in [Runners -> Places]
         /\ mode' \in [Runners -> {"serve", "once"}]
         /\ shutdown' \in [Runners -> BOOLEAN]
         /\ mine' \in [Runners -> Ids \cup {None}]
         /\ at' \in [Runners -> 1 .. (N + 1)]
         /\ control' \in [Runners -> BOOLEAN]
         /\ outcome' \in [Runners -> Evaluated]
BY ChallengesAssumption DEF TypeOK, Gone, Places, Evaluated

\* With no comparison and no runner the invariant holds.
LEMMA InitIInv == Init => IInv
<1> SUFFICES ASSUME Init PROVE IInv
  OBVIOUS
<1>1. TypeOK
  BY ChallengesAssumption
  DEF Init, TypeOK, NoChallenge, All, Statuses, TrialStatuses, Places, Evaluated
<1>2. OneRunner /\ HasWork /\ LoopMatchesFile
  BY DEF Init, OneRunner, HasWork, LoopMatchesFile, Busy
<1>3. Unbegun
  BY DEF Init, Unbegun, UnbegunTrial
<1>4. ReportCoherent
  BY DEF Init, ReportCoherent, Coherent, NoChallenge
<1> QED BY <1>1, <1>2, <1>3, <1>4 DEF IInv

\* Types, with the index of the trial in its range, are preserved by every step.
LEMMA NextTypeOK == IInv /\ [Next]_vars => TypeOK'
<1> SUFFICES ASSUME IInv, [Next]_vars PROVE TypeOK'
  OBVIOUS
<1>0. TypeOK /\ HasWork
  BY DEF IInv
<1> USE <1>0 DEF process
<1>1. ASSUME NEW c \in Ids, Create(c) PROVE TypeOK'
  BY <1>1 DEF Create, Queue, TypeOK, Statuses
<1>2. ASSUME NEW c \in Ids, Cancel(c) PROVE TypeOK'
  <2>1. challenge' \in [Ids -> Record]
    <3>1. challenge \in [Ids -> Record] /\ AfterCancel(challenge[c]) \in Record
      BY RecordUpdates DEF TypeOK, Record
    <3> QED BY <1>2, <3>1 DEF Cancel
  <2> QED BY <1>2, <2>1 DEF Cancel, TypeOK, Record
<1>3. ASSUME NEW r \in Runners, NEW m \in Modes, Launch(r, m) PROVE TypeOK'
  BY <1>3, ChallengesAssumption DEF Launch, TypeOK, Places
<1>4. ASSUME NEW r \in Runners, NEW c \in Ids, Recover(r, c) PROVE TypeOK'
  <2>1. challenge' \in [Ids -> Record]
    <3>1. challenge \in [Ids -> Record] /\ Interrupted(challenge[c]) \in Record
      BY <1>4, RecordUpdates DEF Recover, TypeOK, Record
    <3> QED BY <1>4, <3>1 DEF Recover
  <2> QED BY <1>4, <2>1 DEF Recover, TypeOK, Record
<1>5. ASSUME NEW r \in Runners, NEW c \in Ids, Pick(r, c) PROVE TypeOK'
  BY <1>5 DEF Pick, TypeOK, Places
<1>6. ASSUME NEW r \in Runners, NEW c \in Ids, CreateOwn(r, c) PROVE TypeOK'
  <2>1. challenge' \in [Ids -> Record]
    <3>1. challenge' = [challenge EXCEPT ![c].status = "queued"]
      BY <1>6 DEF CreateOwn, Queue
    <3>2. challenge \in [Ids -> Record]
      BY DEF TypeOK, Record
    <3>3. [challenge[c] EXCEPT !.status = "queued"] \in Record
      BY <3>2 DEF Record, Statuses
    <3> QED BY <3>1, <3>2, <3>3
  <2> QED BY <1>6, <2>1 DEF CreateOwn, TypeOK, Places, Record
<1>7. ASSUME NEW r \in Runners, RecoveryDone(r) \/ LeaveLoop(r) \/ Monitor(r) \/ Signal(r)
      PROVE  TypeOK'
  BY <1>7 DEF RecoveryDone, LeaveLoop, Monitor, Signal, TypeOK, Places
<1>8. ASSUME NEW r \in Runners, Crash(r) \/ Stop(r) \/ ClaimFails(r) PROVE TypeOK'
  BY <1>8, GoneTyped DEF Crash, Stop, ClaimFails, TypeOK
<1>9. ASSUME NEW r \in Runners, Claim(r) PROVE TypeOK'
  <2> DEFINE c == mine[r]
  <2>1. challenge' \in [Ids -> Record]
    <3>1. c \in Ids
      BY <1>9 DEF Claim, HasWork, Busy
    <3>2. challenge' = [challenge EXCEPT ![c].status = "running"]
      BY <1>9 DEF Claim
    <3>3. challenge \in [Ids -> Record]
      BY DEF TypeOK, Record
    <3>4. [challenge[c] EXCEPT !.status = "running"] \in Record
      BY <3>1, <3>3 DEF Record, Statuses
    <3> QED BY <3>1, <3>2, <3>3, <3>4
  <2>2. 1 \in 1 .. (N + 1)
    BY ChallengesAssumption
  <2> QED BY <1>9, <2>1, <2>2 DEF Claim, TypeOK, Places, Record
<1>10. ASSUME NEW r \in Runners, BeginTrial(r) PROVE TypeOK'
  <2> DEFINE c == mine[r]
             i == at[r]
  <2>1. c \in Ids /\ i \in Trials
    BY <1>10, ChallengesAssumption DEF BeginTrial, HasWork, Busy, TypeOK, Trials
  <2>2. challenge' = [challenge EXCEPT ![c].trials[i] = "running"]
    BY <1>10 DEF BeginTrial
  <2>3. challenge' \in [Ids -> Record]
    <3>1. challenge[c] \in Record
      BY <2>1 DEF TypeOK, Record
    <3>2. [challenge[c] EXCEPT !.trials[i] = "running"] \in Record
      BY <2>1, <3>1 DEF Record, TrialStatuses
    <3>3. challenge \in [Ids -> Record]
      BY DEF TypeOK, Record
    <3> QED BY <2>1, <2>2, <3>2, <3>3
  <2>4. begun' \in [Ids -> [Trials -> Nat]]
    BY <1>10, <2>1 DEF BeginTrial, TypeOK
  <2> QED BY <1>10, <2>3, <2>4 DEF BeginTrial, TypeOK, Places, Record
<1>11. ASSUME NEW r \in Runners, NEW o \in Evaluated, Finish(r, o) PROVE TypeOK'
  BY <1>11 DEF Finish, TypeOK, Places
<1>12. ASSUME NEW r \in Runners, SaveTrial(r) PROVE TypeOK'
  <2>1. mine[r] \in Ids /\ at[r] \in Trials /\ outcome[r] \in Evaluated
    BY <1>12 DEF SaveTrial, HasWork, Busy, TypeOK
  <2>2. challenge' \in [Ids -> Record]
    BY <1>12, <2>1, RecordUpdates DEF SaveTrial, TypeOK, Record
  <2>3. at' \in [Runners -> 1 .. (N + 1)]
    BY <1>12, <2>1, ChallengesAssumption DEF SaveTrial, TypeOK, Trials
  <2> QED BY <1>12, <2>2, <2>3 DEF SaveTrial, TypeOK, Places, Record, Evaluated
<1>13. ASSUME NEW r \in Runners, Close(r) \/ CloseAndExit(r) PROVE TypeOK'
  <2>1. challenge' \in [Ids -> Record]
    <3>1. challenge \in [Ids -> Record]
      BY DEF TypeOK, Record
    <3>2. mine[r] \in Ids /\ Closed(r, challenge[mine[r]]) \in Record
      BY <1>13, <3>1, RecordUpdates DEF Close, CloseAndExit, Settle, HasWork, Busy
    <3> QED BY <1>13, <3>1, <3>2 DEF Close, CloseAndExit, Settle
  <2>2. CASE Close(r)
    <3>1. 1 \in 1 .. (N + 1)
      BY ChallengesAssumption
    <3> QED BY <2>1, <2>2, <3>1 DEF Close, TypeOK, Places, Record
  <2>3. CASE CloseAndExit(r)
    BY <2>1, <2>3, GoneTyped DEF CloseAndExit, TypeOK, Record
  <2> QED BY <1>13, <2>2, <2>3
<1>14. CASE UNCHANGED vars
  BY <1>14 DEF vars, TypeOK
<1> QED
  BY <1>1, <1>2, <1>3, <1>4, <1>5, <1>6, <1>7, <1>8, <1>9, <1>10, <1>11, <1>12, <1>13, <1>14
  DEF Next, Client, Runner, RunnerStep

-----------------------------------------------------------------------------
(* What one step may do to the record of one comparison.                   *)

Keep(c) == challenge'[c] = challenge[c] /\ begun'[c] = begun[c]

Submitted(c) ==
  /\ challenge[c].status = "absent"
  /\ challenge'[c] = [challenge[c] EXCEPT !.status = "queued"]
  /\ begun'[c] = begun[c]

Cancelled(c) == challenge'[c] = AfterCancel(challenge[c]) /\ begun'[c] = begun[c]

Recovered(c) ==
  /\ challenge[c].status = "running"
  /\ challenge'[c] = Interrupted(challenge[c])
  /\ begun'[c] = begun[c]

Claimed(c) ==
  /\ challenge[c].status = "queued"
  /\ challenge'[c] = [challenge[c] EXCEPT !.status = "running"]
  /\ begun'[c] = begun[c]

TrialBegun(c, i) ==
  /\ challenge[c].status = "running" /\ ~challenge[c].cancel_requested
  /\ challenge[c].trials[i] = "queued"
  /\ challenge'[c] = [challenge[c] EXCEPT !.trials[i] = "running"]
  /\ begun'[c] = [begun[c] EXCEPT ![i] = @ + 1]

TrialSaved(c, i, o) ==
  /\ challenge[c].status = "running"
  /\ challenge[c].trials[i] = "running"
  /\ challenge'[c] = Saved(challenge[c], i, o)
  /\ begun'[c] = begun[c]

Ended(c, r) ==
  /\ challenge[c].status = "running"
  /\ \A i \in Trials : challenge[c].trials[i] # "running"
  /\ challenge'[c] = Closed(r, challenge[c])
  /\ begun'[c] = begun[c]

RecordStep(c) ==
  \/ Keep(c) \/ Submitted(c) \/ Cancelled(c) \/ Recovered(c) \/ Claimed(c)
  \/ \E i \in Trials : TrialBegun(c, i) \/ \E o \in Evaluated : TrialSaved(c, i, o)
  \/ \E r \in Runners : Ended(c, r)

\* Every step of the system does one of these to each comparison.
LEMMA RecordSteps == IInv /\ [Next]_vars => \A c \in Ids : RecordStep(c)
<1> SUFFICES ASSUME IInv, [Next]_vars, NEW c \in Ids PROVE RecordStep(c)
  OBVIOUS
<1>0. TypeOK /\ HasWork /\ LoopMatchesFile
  BY DEF IInv
<1> USE <1>0 DEF process
<1>1. ASSUME NEW d \in Ids, Create(d) PROVE Keep(c) \/ Submitted(c)
  BY <1>1 DEF Create, Queue, Keep, Submitted, TypeOK
<1>2. ASSUME NEW d \in Ids, Cancel(d) PROVE Keep(c) \/ Cancelled(c)
  BY <1>2 DEF Cancel, Keep, Cancelled, TypeOK
<1>3. ASSUME NEW r \in Runners, NEW d \in Ids, Recover(r, d) PROVE Keep(c) \/ Recovered(c)
  BY <1>3 DEF Recover, Keep, Recovered, TypeOK
<1>4. ASSUME NEW r \in Runners, NEW d \in Ids, CreateOwn(r, d) PROVE Keep(c) \/ Submitted(c)
  BY <1>4 DEF CreateOwn, Queue, Keep, Submitted, TypeOK
<1>5. ASSUME NEW r \in Runners, Claim(r) PROVE Keep(c) \/ Claimed(c)
  BY <1>5 DEF Claim, StillQueued, Keep, Claimed, TypeOK, HasWork, Busy
<1>6. ASSUME NEW r \in Runners, BeginTrial(r)
      PROVE  Keep(c) \/ \E i \in Trials : TrialBegun(c, i)
  <2> DEFINE d == mine[r]
             i == at[r]
  <2>1. d \in Ids /\ i \in Trials /\ challenge[d].status = "running"
    BY <1>6, ChallengesAssumption
    DEF BeginTrial, HasWork, Busy, TypeOK, Trials, LoopMatchesFile
  <2>2. /\ challenge' = [challenge EXCEPT ![d].trials[i] = "running"]
        /\ begun' = [begun EXCEPT ![d][i] = @ + 1]
        /\ challenge[d].trials[i] = "queued" /\ ~challenge[d].cancel_requested
    BY <1>6 DEF BeginTrial, StopWanted
  <2>3. CASE c = d
    BY <2>1, <2>2, <2>3 DEF TrialBegun, TypeOK
  <2>4. CASE c # d
    BY <2>1, <2>2, <2>4 DEF Keep, TypeOK
  <2> QED BY <2>3, <2>4
<1>7. ASSUME NEW r \in Runners, SaveTrial(r)
      PROVE  Keep(c) \/ \E i \in Trials : \E o \in Evaluated : TrialSaved(c, i, o)
  <2> DEFINE d == mine[r]
  <2>1. /\ d \in Ids /\ at[r] \in Trials /\ outcome[r] \in Evaluated
        /\ challenge[d].status = "running" /\ challenge[d].trials[at[r]] = "running"
    BY <1>7 DEF SaveTrial, HasWork, Busy, TypeOK, LoopMatchesFile
  <2>2. /\ challenge' = [challenge EXCEPT ![d] = Saved(@, at[r], outcome[r])]
        /\ begun' = begun
    BY <1>7 DEF SaveTrial
  <2>3. CASE c = d
    BY <2>1, <2>2, <2>3 DEF TrialSaved, TypeOK
  <2>4. CASE c # d
    BY <2>1, <2>2, <2>4 DEF Keep, TypeOK
  <2> QED BY <2>3, <2>4
<1>8. ASSUME NEW r \in Runners, Close(r) \/ CloseAndExit(r) PROVE Keep(c) \/ Ended(c, r)
  <2> DEFINE d == mine[r]
  <2>0. pc[r] = "closing" /\ LockFree /\ begun' = begun
    BY <1>8 DEF Close, CloseAndExit, Settle
  <2>1. d \in Ids /\ challenge[d].status = "running"
    BY <2>0 DEF HasWork, Busy, LoopMatchesFile
  <2>2. \A i \in Trials : challenge[d].trials[i] # "running"
    <3> TAKE i \in Trials
    <3>1. i < at[r] \/ i = at[r] \/ i > at[r]
      BY ChallengesAssumption DEF TypeOK, Trials
    <3> QED BY <2>0, <3>1 DEF LoopMatchesFile, Evaluated
  <2>3. challenge' = [challenge EXCEPT ![d] = Closed(r, @)]
    BY <1>8 DEF Close, CloseAndExit, Settle
  <2>4. CASE c = d
    BY <2>0, <2>1, <2>2, <2>3, <2>4 DEF Ended, TypeOK
  <2>5. CASE c # d
    BY <2>0, <2>3, <2>5 DEF Keep, TypeOK
  <2> QED BY <2>4, <2>5
<1>9. ASSUME UNCHANGED <<challenge, begun>> PROVE Keep(c)
  BY <1>9 DEF Keep
<1>10. ASSUME NEW r \in Runners,
              \/ \E m \in Modes : Launch(r, m)
              \/ \E d \in Ids : Pick(r, d)
              \/ \E o \in Evaluated : Finish(r, o)
              \/ RecoveryDone(r) \/ Stop(r) \/ ClaimFails(r) \/ LeaveLoop(r)
              \/ Monitor(r) \/ Signal(r) \/ Crash(r)
       PROVE  UNCHANGED <<challenge, begun>>
  BY <1>10 DEF Launch, Pick, Finish, RecoveryDone, Stop, ClaimFails, LeaveLoop, Monitor, Signal,
               Crash
<1>11. CASE UNCHANGED vars
  BY <1>9, <1>11 DEF vars, RecordStep
<1>12. CASE Next
  BY <1>1, <1>2, <1>3, <1>4, <1>5, <1>6, <1>7, <1>8, <1>9, <1>10, <1>12
  DEF Next, Client, Runner, RunnerStep, RecordStep
<1> QED BY <1>11, <1>12

-----------------------------------------------------------------------------
(* Preservation.                                                           *)

\* A step keeps the status and the trials of a comparison coherent.
LEMMA CoherentKept ==
  ASSUME NEW c \in Ids, challenge[c] \in Record, Coherent(challenge[c]), RecordStep(c)
  PROVE  Coherent(challenge'[c])
<1> DEFINE f == challenge[c]
           g == challenge'[c]
<1>1. CASE Keep(c)
  BY <1>1 DEF Keep
<1>2. CASE Submitted(c)
  BY <1>2 DEF Submitted, Coherent, Record
<1>3. CASE Claimed(c)
  <2>1. g.status = "running" /\ g.trials = All("queued")
    BY <1>3 DEF Claimed, Coherent, Record
  <2> QED BY <2>1 DEF Coherent, Without, All
<1>4. CASE Cancelled(c)
  <2>1. CASE f.status = "queued"
    <3>1. g.status = "cancelled" /\ g.trials = All("cancelled")
      BY <1>4, <2>1 DEF Cancelled, AfterCancel
    <3> QED BY <3>1 DEF Coherent, Without, All
  <2>2. CASE f.status = "running"
    <3>1. g.status = "running" /\ g.trials = f.trials
      BY <1>4, <2>2 DEF Cancelled, AfterCancel, Record
    <3> QED BY <2>2, <3>1 DEF Coherent, Without
  <2>3. CASE f.status \notin {"queued", "running"}
    BY <1>4, <2>3 DEF Cancelled, AfterCancel
  <2> QED BY <2>1, <2>2, <2>3
<1>5. CASE Recovered(c)
  <2>1. /\ g.status = "interrupted"
        /\ \A i \in Trials : g.trials[i] # "running"
    BY <1>5 DEF Recovered, Interrupted, Record
  <2> QED BY <2>1 DEF Coherent, Without
<1>6. ASSUME NEW i \in Trials, TrialBegun(c, i) PROVE Coherent(g)
  <2>1. /\ f.status = "running" /\ g.status = "running"
        /\ \A k \in Trials : g.trials[k] \in {f.trials[k], "running"}
    BY <1>6 DEF TrialBegun, Record
  <2> QED BY <2>1 DEF Coherent, Without
<1>7. ASSUME NEW i \in Trials, NEW o \in Evaluated, TrialSaved(c, i, o) PROVE Coherent(g)
  <2>1. /\ f.status = "running" /\ g.status = "running"
        /\ \A k \in Trials : g.trials[k] \in {f.trials[k], o}
    BY <1>7 DEF TrialSaved, Saved, Record
  <2> QED BY <2>1 DEF Coherent, Without, Evaluated
<1>8. ASSUME NEW r \in Runners, Ended(c, r) PROVE Coherent(g)
  <2>1. /\ g.status \in {"cancelled", "completed"}
        /\ g.status = "completed" => ~g.cancel_requested
    BY <1>8 DEF Ended, Closed, Record
  <2>2. \A k \in Trials : g.trials[k] = IF f.trials[k] = "queued" THEN "cancelled"
                                                                 ELSE f.trials[k]
    BY <1>8 DEF Ended, Closed, Record
  <2>3. \A k \in Trials : f.trials[k] \notin {"running", "interrupted"}
    BY <1>8 DEF Ended, Coherent, Without
  <2> QED BY <2>1, <2>2, <2>3 DEF Coherent, Without
<1> QED BY <1>1, <1>2, <1>3, <1>4, <1>5, <1>6, <1>7, <1>8 DEF RecordStep

\* A step keeps a trial unbegun or begins it once.
LEMMA UnbegunKept ==
  ASSUME NEW c \in Ids, NEW i \in Trials, RecordStep(c), UnbegunTrial(c, i),
         challenge[c] \in Record, Coherent(challenge[c]), begun[c] \in [Trials -> Nat]
  PROVE  UnbegunTrial(c, i)'
<1> DEFINE f == challenge[c]
           g == challenge'[c]
<1>1. CASE /\ begun'[c] = begun[c]
           /\ g.trials[i] = "queued" => f.trials[i] = "queued"
  BY <1>1 DEF UnbegunTrial
<1>2. ASSUME Keep(c) \/ Submitted(c) \/ Claimed(c)
      PROVE  begun'[c] = begun[c] /\ (g.trials[i] = "queued" => f.trials[i] = "queued")
  BY <1>2 DEF Keep, Submitted, Claimed, Record
<1>3. ASSUME Cancelled(c)
      PROVE  begun'[c] = begun[c] /\ (g.trials[i] = "queued" => f.trials[i] = "queued")
  BY <1>3 DEF Cancelled, AfterCancel, Record, All
<1>4. ASSUME Recovered(c)
      PROVE  begun'[c] = begun[c] /\ (g.trials[i] = "queued" => f.trials[i] = "queued")
  BY <1>4 DEF Recovered, Interrupted, Record
<1>5. ASSUME NEW k \in Trials, NEW o \in Evaluated, TrialSaved(c, k, o)
      PROVE  begun'[c] = begun[c] /\ (g.trials[i] = "queued" => f.trials[i] = "queued")
  BY <1>5 DEF TrialSaved, Saved, Record, Evaluated
<1>6. ASSUME NEW r \in Runners, Ended(c, r)
      PROVE  begun'[c] = begun[c] /\ (g.trials[i] = "queued" => f.trials[i] = "queued")
  BY <1>6 DEF Ended, Closed, Record
<1>7. ASSUME NEW k \in Trials, TrialBegun(c, k) PROVE UnbegunTrial(c, i)'
  <2>1. CASE i = k
    <3>1. begun[c][i] = 0 /\ begun'[c][i] = begun[c][i] + 1 /\ g.trials[i] = "running"
      BY <1>7, <2>1 DEF TrialBegun, UnbegunTrial, Record
    <3> QED BY <3>1 DEF UnbegunTrial
  <2>2. CASE i # k
    <3>1. begun'[c][i] = begun[c][i] /\ g.trials[i] = f.trials[i]
      BY <1>7, <2>2 DEF TrialBegun, Record
    <3> QED BY <3>1 DEF UnbegunTrial
  <2> QED BY <2>1, <2>2
<1> QED BY <1>1, <1>2, <1>3, <1>4, <1>5, <1>6, <1>7 DEF RecordStep

\* Every step keeps the lease, the runners' work and the position of their loops.
LEMMA NextRunners == IInv /\ [Next]_vars => (OneRunner /\ HasWork /\ LoopMatchesFile)'
<1> SUFFICES ASSUME IInv, [Next]_vars PROVE (OneRunner /\ HasWork /\ LoopMatchesFile)'
  OBVIOUS
<1>0. TypeOK /\ OneRunner /\ HasWork /\ LoopMatchesFile /\ ReportCoherent
  BY DEF IInv
<1> USE <1>0 DEF process
<1> DEFINE Kept == (OneRunner /\ HasWork /\ LoopMatchesFile)'
           Active == {"trial", "running", "ran", "closing"}
<1>1. ASSUME NEW c \in Ids, Create(c) PROVE Kept
  <2>1. \A d \in Ids : challenge[d].status = "running" => challenge'[d] = challenge[d]
    BY <1>1 DEF Create, Queue, TypeOK
  <2> QED BY <1>1, <2>1 DEF Create, OneRunner, HasWork, LoopMatchesFile, Busy
<1>2. ASSUME NEW c \in Ids, Cancel(c) PROVE Kept
  <2>1. \A d \in Ids : challenge[d].status = "running" =>
           challenge'[d].status = "running" /\ challenge'[d].trials = challenge[d].trials
    BY <1>2 DEF Cancel, AfterCancel, TypeOK
  <2> QED BY <1>2, <2>1 DEF Cancel, OneRunner, HasWork, LoopMatchesFile, Busy
<1>3. ASSUME NEW r \in Runners, NEW m \in Modes, Launch(r, m) PROVE Kept
  <2>1. /\ \A q \in Runners : pc[q] = "down"
        /\ \A q \in Runners : pc'[q] = IF q = r THEN "recover" ELSE "down"
    BY <1>3, ChallengesAssumption DEF Launch, TypeOK, OneRunner
  <2> QED BY <1>3, <2>1 DEF Launch, OneRunner, HasWork, LoopMatchesFile, Busy
<1>4. ASSUME NEW r \in Runners, NEW c \in Ids, Recover(r, c) PROVE Kept
  <2>1. \A q \in Runners : pc[q] \in {"down", "recover"}
    BY <1>4 DEF Recover, OneRunner
  <2> QED BY <1>4, <2>1 DEF Recover, OneRunner, HasWork, LoopMatchesFile, Busy
<1>5. ASSUME NEW r \in Runners, NEW c \in Ids, Pick(r, c) \/ CreateOwn(r, c) PROVE Kept
  <2>1. /\ lease = r /\ lease' = lease
        /\ \A q \in Runners : q # r => pc[q] = "down" /\ pc'[q] = "down"
        /\ pc'[r] = "picked" /\ mine'[r] = c
    BY <1>5 DEF Pick, CreateOwn, TypeOK, OneRunner
  <2> QED BY <2>1 DEF OneRunner, HasWork, LoopMatchesFile, Busy
<1>6. ASSUME NEW r \in Runners, RecoveryDone(r) PROVE Kept
  <2>1. /\ lease = r /\ lease' = lease /\ pc'[r] = "loop"
        /\ \A q \in Runners : q # r => pc[q] = "down" /\ pc'[q] = "down"
    BY <1>6 DEF RecoveryDone, TypeOK, OneRunner
  <2> QED BY <2>1 DEF OneRunner, HasWork, LoopMatchesFile, Busy
<1>7. ASSUME NEW r \in Runners, Crash(r) \/ Stop(r) \/ ClaimFails(r) \/ CloseAndExit(r)
      PROVE  Kept
  <2>1. pc[r] # "down" /\ Gone(r)
    BY <1>7 DEF Crash, Stop, ClaimFails, CloseAndExit, Settle
  <2>2. \A q \in Runners : pc'[q] = "down"
    BY <2>1 DEF Gone, TypeOK, OneRunner
  <2> QED BY <2>2 DEF OneRunner, HasWork, LoopMatchesFile, Busy
<1>8. ASSUME NEW r \in Runners, Signal(r) \/ Monitor(r) PROVE Kept
  BY <1>8 DEF Signal, Monitor, OneRunner, HasWork, LoopMatchesFile
<1>9. ASSUME NEW r \in Runners, Claim(r) PROVE Kept
  <2> DEFINE d == mine[r]
  <2>1. /\ d \in Ids /\ lease = r /\ lease' = lease /\ mine' = mine
        /\ \A q \in Runners : q # r => pc[q] = "down" /\ pc'[q] = "down"
        /\ pc'[r] = "trial" /\ at'[r] = 1
    BY <1>9 DEF Claim, TypeOK, OneRunner, HasWork, Busy
  <2>2. challenge'[d].status = "running" /\ challenge'[d].trials = All("queued")
    <3>1. challenge[d].status = "queued" /\ challenge[d].trials = All("queued")
      BY <1>9, <2>1 DEF Claim, StillQueued, ReportCoherent, Coherent
    <3> QED BY <1>9, <2>1, <3>1 DEF Claim, TypeOK
  <2>3. \A i \in Trials : ~(i < 1)
    BY ChallengesAssumption DEF Trials
  <2>4. OneRunner' /\ HasWork'
    BY <2>1 DEF OneRunner, HasWork, Busy
  <2>5. LoopMatchesFile'
    BY <2>1, <2>2, <2>3 DEF LoopMatchesFile, All
  <2> QED BY <2>4, <2>5
<1>10. ASSUME NEW r \in Runners, BeginTrial(r) PROVE Kept
  <2> DEFINE d == mine[r]
             k == at[r]
  <2>1. /\ d \in Ids /\ k \in Trials /\ lease = r /\ lease' = lease /\ mine' = mine /\ at' = at
        /\ \A q \in Runners : q # r => pc[q] = "down" /\ pc'[q] = "down"
        /\ pc[r] = "trial" /\ pc'[r] = "running"
    BY <1>10, ChallengesAssumption DEF BeginTrial, TypeOK, OneRunner, HasWork, Busy, Trials
  <2>2. /\ challenge'[d].status = challenge[d].status
        /\ challenge'[d].trials = [challenge[d].trials EXCEPT ![k] = "running"]
    BY <1>10, <2>1 DEF BeginTrial, TypeOK
  <2>3. \A i \in Trials : challenge'[d].trials[i] = IF i = k THEN "running"
                                                             ELSE challenge[d].trials[i]
    BY <2>1, <2>2 DEF TypeOK
  <2>4. OneRunner' /\ HasWork'
    BY <2>1 DEF OneRunner, HasWork, Busy
  <2>5. LoopMatchesFile'
    <3>1. /\ challenge[d].status = "running"
          /\ \A i \in Trials : /\ i < k => challenge[d].trials[i] \in Evaluated
                               /\ i > k => challenge[d].trials[i] = "queued"
      BY <2>1 DEF LoopMatchesFile
    <3>2. ~(k < k) /\ ~(k > k)
      BY <2>1 DEF Trials
    <3>3. ASSUME NEW q \in Runners, pc'[q] \in Active
          PROVE  q = r
      BY <2>1, <3>3
    <3>4. ASSUME NEW i \in Trials
          PROVE  /\ i < at'[r] => challenge'[mine'[r]].trials[i] \in Evaluated
                 /\ i > at'[r] => challenge'[mine'[r]].trials[i] = "queued"
                 /\ i = at'[r] => challenge'[mine'[r]].trials[i] =
                      IF pc'[r] \in {"running", "ran"} THEN "running" ELSE "queued"
      <4>1. i < k \/ i = k \/ i > k
        BY <2>1 DEF Trials
      <4>2. challenge'[mine'[r]].trials[i] = challenge'[d].trials[i] /\ at'[r] = k
        BY <2>1
      <4> QED BY <2>1, <2>3, <3>1, <3>2, <4>1, <4>2
    <3>5. lease' = r /\ challenge'[mine'[r]].status = "running"
      BY <2>1, <2>2, <3>1
    <3> QED BY <3>3, <3>4, <3>5 DEF LoopMatchesFile
  <2> QED BY <2>4, <2>5
<1>11. ASSUME NEW r \in Runners, LeaveLoop(r) PROVE Kept
  BY <1>11 DEF LeaveLoop, TypeOK, OneRunner, HasWork, LoopMatchesFile, Busy
<1>12. ASSUME NEW r \in Runners, NEW o \in Evaluated, Finish(r, o) PROVE Kept
  BY <1>12 DEF Finish, TypeOK, OneRunner, HasWork, LoopMatchesFile, Busy
<1>13. ASSUME NEW r \in Runners, SaveTrial(r) PROVE Kept
  <2> DEFINE d == mine[r]
             k == at[r]
  <2>1. /\ d \in Ids /\ k \in Trials /\ outcome[r] \in Evaluated
        /\ lease = r /\ lease' = lease /\ mine' = mine /\ at'[r] = k + 1
        /\ \A q \in Runners : q # r => pc[q] = "down" /\ pc'[q] = "down"
        /\ pc[r] = "ran" /\ pc'[r] = "trial"
    BY <1>13 DEF SaveTrial, TypeOK, OneRunner, HasWork, Busy
  <2>2. /\ challenge'[d].status = challenge[d].status
        /\ challenge'[d].trials = [challenge[d].trials EXCEPT ![k] = outcome[r]]
    BY <1>13, <2>1 DEF SaveTrial, Saved, TypeOK
  <2>3. \A i \in Trials : challenge'[d].trials[i] = IF i = k THEN outcome[r]
                                                             ELSE challenge[d].trials[i]
    BY <2>1, <2>2 DEF TypeOK
  <2>4. OneRunner' /\ HasWork'
    BY <2>1 DEF OneRunner, HasWork, Busy
  <2>5. LoopMatchesFile'
    <3>1. /\ challenge[d].status = "running"
          /\ \A i \in Trials : /\ i < k => challenge[d].trials[i] \in Evaluated
                               /\ i > k => challenge[d].trials[i] = "queued"
      BY <2>1 DEF LoopMatchesFile
    <3>2. \A i \in Trials : /\ i < k + 1 => i < k \/ i = k
                            /\ i > k + 1 => i > k /\ i # k
                            /\ i = k + 1 => i > k /\ i # k
      BY <2>1, ChallengesAssumption DEF Trials
    <3>3. ASSUME NEW q \in Runners, pc'[q] \in Active
          PROVE  q = r
      BY <2>1, <3>3
    <3>4. ASSUME NEW i \in Trials
          PROVE  /\ i < at'[r] => challenge'[mine'[r]].trials[i] \in Evaluated
                 /\ i > at'[r] => challenge'[mine'[r]].trials[i] = "queued"
                 /\ i = at'[r] => challenge'[mine'[r]].trials[i] =
                      IF pc'[r] \in {"running", "ran"} THEN "running" ELSE "queued"
      <4>1. i < k \/ i = k \/ i > k
        BY <2>1 DEF Trials
      <4>2. challenge'[mine'[r]].trials[i] = challenge'[d].trials[i] /\ at'[r] = k + 1
        BY <2>1
      <4> QED BY <2>1, <2>3, <3>1, <3>2, <4>1, <4>2
    <3>5. lease' = r /\ challenge'[mine'[r]].status = "running"
      BY <2>1, <2>2, <3>1
    <3> QED BY <3>3, <3>4, <3>5 DEF LoopMatchesFile
  <2> QED BY <2>4, <2>5
<1>14. ASSUME NEW r \in Runners, Close(r) PROVE Kept
  <2>1. /\ lease = r /\ lease' = lease /\ pc'[r] = "loop"
        /\ \A q \in Runners : q # r => pc[q] = "down" /\ pc'[q] = "down"
    BY <1>14 DEF Close, Settle, TypeOK, OneRunner
  <2> QED BY <2>1 DEF OneRunner, HasWork, LoopMatchesFile, Busy
<1>15. CASE UNCHANGED vars
  BY <1>15 DEF vars, OneRunner, HasWork, LoopMatchesFile
<1> QED
  BY <1>1, <1>2, <1>3, <1>4, <1>5, <1>6, <1>7, <1>8, <1>9, <1>10, <1>11, <1>12, <1>13, <1>14,
     <1>15
  DEF Next, Client, Runner, RunnerStep

\* The inductive invariant holds in every reachable state.
THEOREM IInvariant == Spec => []IInv
<1>1. IInv /\ [Next]_vars => IInv'
  <2> SUFFICES ASSUME IInv, [Next]_vars PROVE IInv'
    OBVIOUS
  <2>1. \A c \in Ids : /\ RecordStep(c) /\ challenge[c] \in Record
                       /\ Coherent(challenge[c]) /\ begun[c] \in [Trials -> Nat]
    BY RecordSteps DEF IInv, TypeOK, Record, ReportCoherent
  <2>2. ReportCoherent'
    BY <2>1, CoherentKept DEF ReportCoherent
  <2>3. Unbegun'
    BY <2>1, UnbegunKept DEF IInv, Unbegun
  <2> QED BY <2>2, <2>3, NextTypeOK, NextRunners DEF IInv
<1> QED BY InitIInv, <1>1, PTL DEF Spec

-----------------------------------------------------------------------------
\* Every variable keeps its shape (claim, execute, recover_interrupted).
THEOREM TypeCorrect == Spec => []TypeOK
<1>1. IInv => TypeOK
  BY DEF IInv
<1> QED BY IInvariant, <1>1, PTL

\* No trial is evaluated twice (execute's refusal to replay, recover_interrupted).
THEOREM NeverRepeated == Spec => []TrialsOnce
<1>1. IInv => TrialsOnce
  BY DEF IInv, Unbegun, UnbegunTrial, TrialsOnce
<1> QED BY IInvariant, <1>1, PTL

\* From claim to close the stored record is where the runner's loop is (execute).
THEOREM LoopInStep == Spec => []LoopMatchesFile
<1>1. IInv => LoopMatchesFile
  BY DEF IInv
<1> QED BY IInvariant, <1>1, PTL

\* A comparison's status and its trials' tell one story (all writers of challenge.json).
THEOREM ReportsAgree == Spec => []ReportCoherent
<1>1. IInv => ReportCoherent
  BY DEF IInv
<1> QED BY IInvariant, <1>1, PTL

\* No step rewrites a trial's verdict (cancel, execute's save and close, recovery).
THEOREM VerdictsStay == Spec => VerdictsFinal
<1>1. ASSUME IInv, [Next]_vars, NEW c \in Ids, NEW i \in Trials,
             challenge[c].trials[i] \in Evaluated \cup {"interrupted"}
      PROVE  challenge'[c].trials[i] = challenge[c].trials[i]
  <2>0. RecordStep(c)
    BY <1>1, RecordSteps
  <2>1. /\ challenge[c] \in Record /\ Coherent(challenge[c])
        /\ challenge[c].trials[i] \notin {"queued", "running"}
    BY <1>1 DEF IInv, TypeOK, Record, ReportCoherent, Evaluated
  <2>2. CASE Keep(c) \/ Submitted(c) \/ Claimed(c)
    BY <2>1, <2>2 DEF Keep, Submitted, Claimed, Record
  <2>3. CASE Cancelled(c)
    BY <2>1, <2>3 DEF Cancelled, AfterCancel, Coherent, All, Record
  <2>4. CASE Recovered(c)
    BY <2>1, <2>4 DEF Recovered, Interrupted, Record
  <2>5. ASSUME NEW k \in Trials, TrialBegun(c, k) \/ \E o \in Evaluated : TrialSaved(c, k, o)
        PROVE  challenge'[c].trials[i] = challenge[c].trials[i]
    <3>1. k # i
      BY <2>1, <2>5 DEF TrialBegun, TrialSaved
    <3>2. CASE TrialBegun(c, k)
      BY <2>1, <3>1, <3>2 DEF TrialBegun, Record
    <3>3. ASSUME NEW o \in Evaluated, TrialSaved(c, k, o)
          PROVE  challenge'[c].trials[i] = challenge[c].trials[i]
      BY <2>1, <3>1, <3>3 DEF TrialSaved, Saved, Record
    <3> QED BY <2>5, <3>2, <3>3
  <2>6. ASSUME NEW r \in Runners, Ended(c, r)
        PROVE  challenge'[c].trials[i] = challenge[c].trials[i]
    BY <2>1, <2>6 DEF Ended, Closed, Record
  <2> QED BY <2>0, <2>2, <2>3, <2>4, <2>5, <2>6 DEF RecordStep
<1>2. IInv /\ [Next]_vars =>
        [\A c \in Ids : \A i \in Trials :
            challenge[c].trials[i] \in Evaluated \cup {"interrupted"} =>
               challenge'[c].trials[i] = challenge[c].trials[i]]_challenge
  BY <1>1
<1> QED BY IInvariant, <1>2, PTL DEF Spec, VerdictsFinal

\* An acknowledged cancellation is kept and stops the comparison (cancel, execute).
THEOREM CancelStops == Spec => CancelStopsTrials
<1>1. ASSUME IInv, [Next]_vars, NEW c \in Ids, challenge[c].cancel_requested
      PROVE  /\ challenge'[c].cancel_requested
             /\ begun'[c] = begun[c]
             /\ challenge'[c].status # "completed"
  <2>0. RecordStep(c)
    BY <1>1, RecordSteps
  <2>1. /\ challenge[c] \in Record /\ Coherent(challenge[c])
        /\ challenge[c].status \notin {"absent", "queued", "completed"}
    BY <1>1 DEF IInv, TypeOK, Record, ReportCoherent, Coherent
  <2>2. CASE Keep(c) \/ Submitted(c) \/ Claimed(c)
    BY <1>1, <2>1, <2>2 DEF Keep, Submitted, Claimed, Record
  <2>3. CASE Cancelled(c)
    BY <1>1, <2>1, <2>3 DEF Cancelled, AfterCancel, Record
  <2>4. CASE Recovered(c)
    BY <1>1, <2>1, <2>4 DEF Recovered, Interrupted, Record
  <2>5. ASSUME NEW k \in Trials, TrialBegun(c, k) \/ \E o \in Evaluated : TrialSaved(c, k, o)
        PROVE  /\ challenge'[c].cancel_requested
               /\ begun'[c] = begun[c]
               /\ challenge'[c].status # "completed"
    BY <1>1, <2>1, <2>5 DEF TrialBegun, TrialSaved, Saved, Record
  <2>6. ASSUME NEW r \in Runners, Ended(c, r)
        PROVE  /\ challenge'[c].cancel_requested
               /\ begun'[c] = begun[c]
               /\ challenge'[c].status # "completed"
    BY <1>1, <2>1, <2>6 DEF Ended, Closed, Record
  <2> QED BY <2>0, <2>2, <2>3, <2>4, <2>5, <2>6 DEF RecordStep
<1>2. IInv /\ [Next]_vars =>
        [\A c \in Ids : challenge[c].cancel_requested =>
            /\ challenge'[c].cancel_requested
            /\ begun'[c] = begun[c]
            /\ challenge'[c].status # "completed"]_<<challenge, begun>>
  BY <1>1
<1> QED BY IInvariant, <1>2, PTL DEF Spec, CancelStopsTrials
-----------------------------------------------------------------------------
(* What a comparison promises of each of its trials.                       *)

\* Whoever leaves a trial's slot and its count alone leaves its promise alone.
LEMMA PromiseStutters ==
  ASSUME NEW c \in Ids, NEW i \in Trials,
         SlotOf(challenge'[c], i) = SlotOf(challenge[c], i), begun'[c][i] = begun[c][i]
  PROVE  UNCHANGED Promise(c, i)!vars
BY DEF Promise!vars

\* Whoever moves only the slot makes a step of the promise, if it moves it in a way allowed.
LEMMA SlotMoves ==
  ASSUME NEW c \in Ids, NEW i \in Trials, NEW from, NEW to,
         SlotOf(challenge[c], i) = from, SlotOf(challenge'[c], i) = to,
         begun'[c][i] = begun[c][i],
         \/ <<from, to>> = <<"none", "open">> \/ <<from, to>> = <<"open", "taken">>
         \/ <<from, to>> = <<"open", "closed">> \/ <<from, to>> = <<"taken", "closed">>
  PROVE  Promise(c, i)!Next
<1>1. CASE <<from, to>> = <<"none", "open">>
  <2>1. Promise(c, i)!Submit(i)
    BY <1>1 DEF Promise!Submit
  <2> QED BY <2>1 DEF Promise!Next
<1>2. CASE <<from, to>> = <<"open", "taken">>
  <2>1. Promise(c, i)!Take(i)
    BY <1>2 DEF Promise!Take
  <2> QED BY <2>1 DEF Promise!Next
<1>3. CASE from \in {"open", "taken"} /\ to = "closed"
  <2>1. Promise(c, i)!Close(i)
    BY <1>3 DEF Promise!Close
  <2> QED BY <2>1 DEF Promise!Next
<1> QED BY <1>1, <1>2, <1>3

\* What a step does to a comparison's record is for each of its trials a step of its promise.
LEMMA PromiseStep ==
  ASSUME NEW c \in Ids, NEW i \in Trials, RecordStep(c),
         challenge[c] \in Record, Coherent(challenge[c]),
         begun[c] \in [Trials -> Nat], UnbegunTrial(c, i)
  PROVE  [Promise(c, i)!Next]_(Promise(c, i)!vars)
<1> DEFINE f == challenge[c]
           g == challenge'[c]
           Same == SlotOf(g, i) = SlotOf(f, i) /\ begun'[c][i] = begun[c][i]
<1>1. CASE Same
  BY <1>1, PromiseStutters
<1>2. CASE Keep(c)
  BY <1>1, <1>2 DEF Keep
<1>3. CASE Submitted(c)
  <2>1. SlotOf(f, i) = "none" /\ SlotOf(g, i) = "open" /\ begun'[c][i] = begun[c][i]
    BY <1>3 DEF Submitted, SlotOf, Record
  <2> QED BY <2>1, SlotMoves
<1>4. CASE Cancelled(c)
  <2>1. CASE f.status = "queued"
    <3>1. SlotOf(f, i) = "open" /\ SlotOf(g, i) = "closed" /\ begun'[c][i] = begun[c][i]
      BY <1>4, <2>1 DEF Cancelled, AfterCancel, SlotOf, Record
    <3> QED BY <3>1, SlotMoves
  <2>2. CASE f.status # "queued"
    BY <1>1, <1>4, <2>2 DEF Cancelled, AfterCancel, SlotOf, Record
  <2> QED BY <2>1, <2>2
<1>5. CASE Recovered(c)
  <2>1. SlotOf(f, i) \in {"taken", "closed"} /\ SlotOf(g, i) = "closed" /\ begun'[c][i] = begun[c][i]
    BY <1>5 DEF Recovered, Interrupted, SlotOf, Record
  <2> QED BY <1>1, <2>1, SlotMoves
<1>6. CASE Claimed(c)
  <2>1. f.status = "queued" /\ f.trials[i] = "queued"
    BY <1>6 DEF Claimed, Coherent, All
  <2>2. SlotOf(f, i) = "open" /\ SlotOf(g, i) = "taken" /\ begun'[c][i] = begun[c][i]
    BY <1>6, <2>1 DEF Claimed, SlotOf, Record
  <2> QED BY <2>2, SlotMoves
<1>7. ASSUME NEW k \in Trials, TrialBegun(c, k) PROVE [Promise(c, i)!Next]_(Promise(c, i)!vars)
  <2>1. CASE k # i
    BY <1>1, <1>7, <2>1 DEF TrialBegun, SlotOf, Record
  <2>2. CASE k = i
    <3>1. SlotOf(f, i) = "taken" /\ SlotOf(g, i) = "taken"
      BY <1>7, <2>2 DEF TrialBegun, SlotOf, Record
    <3>2. begun[c][i] = 0 /\ begun'[c][i] = 1
      BY <1>7, <2>2 DEF TrialBegun, UnbegunTrial
    <3>3. Promise(c, i)!Begin(i)
      BY <3>1, <3>2 DEF Promise!Begin
    <3> QED BY <3>3 DEF Promise!Next
  <2> QED BY <2>1, <2>2
<1>8. ASSUME NEW k \in Trials, NEW o \in Evaluated, TrialSaved(c, k, o)
      PROVE  [Promise(c, i)!Next]_(Promise(c, i)!vars)
  <2>1. CASE k # i
    BY <1>1, <1>8, <2>1 DEF TrialSaved, Saved, SlotOf, Record
  <2>2. CASE k = i
    <3>1. SlotOf(f, i) = "taken" /\ SlotOf(g, i) = "closed" /\ begun'[c][i] = begun[c][i]
      BY <1>8, <2>2 DEF TrialSaved, Saved, SlotOf, Record, Evaluated
    <3> QED BY <3>1, SlotMoves
  <2> QED BY <2>1, <2>2
<1>9. ASSUME NEW r \in Runners, Ended(c, r) PROVE [Promise(c, i)!Next]_(Promise(c, i)!vars)
  <2>1. SlotOf(f, i) \in {"taken", "closed"} /\ SlotOf(g, i) = "closed" /\ begun'[c][i] = begun[c][i]
    BY <1>9 DEF Ended, Closed, SlotOf, Record
  <2> QED BY <1>1, <2>1, SlotMoves
<1> QED BY <1>2, <1>3, <1>4, <1>5, <1>6, <1>7, <1>8, <1>9 DEF RecordStep

\* Whatever step is taken, the promise of every trial takes one of its own or none.
LEMMA PromisesStep ==
  IInv /\ [Next]_vars =>
    \A c \in Ids : \A i \in Trials : [Promise(c, i)!Next]_(Promise(c, i)!vars)
<1> SUFFICES ASSUME IInv, [Next]_vars, NEW c \in Ids, NEW i \in Trials
             PROVE  [Promise(c, i)!Next]_(Promise(c, i)!vars)
  OBVIOUS
<1>1. RecordStep(c)
  BY RecordSteps
<1>2. /\ challenge[c] \in Record /\ Coherent(challenge[c])
      /\ begun[c] \in [Trials -> Nat] /\ UnbegunTrial(c, i)
  BY DEF IInv, TypeOK, Record, ReportCoherent, Unbegun
<1> QED BY <1>1, <1>2, PromiseStep

\* Before anything is created every trial's promise is at its beginning.
LEMMA PromisesInit == Init => \A c \in Ids : \A i \in Trials : Promise(c, i)!Init
<1> SUFFICES ASSUME Init, NEW c \in Ids, NEW i \in Trials PROVE Promise(c, i)!Init
  OBVIOUS
<1> QED BY DEF Init, NoChallenge, SlotOf, Promise!Init

\* Comparisons implement AtMostOnce trial by trial: a trial begins at most once, after a claim
\* that is durable before anything moves, and never after its comparison or its verdict closed
\* it (create, cancel, claim, execute, recover_interrupted).
THEOREM TrialsArePromised == Spec => TrialsKeepPromise
<1>1. IInv /\ [Next]_vars =>
        [\A c \in Ids : \A i \in Trials : [Promise(c, i)!Next]_(Promise(c, i)!vars)]_vars
  BY PromisesStep
<1> QED BY <1>1, PromisesInit, IInvariant, PTL DEF Spec, TrialsKeepPromise

\* The same, said of one trial: its comparison is an implementation of AtMostOnce.
THEOREM TrialIsAtMostOnce ==
  ASSUME NEW c \in Ids, NEW i \in Trials
  PROVE  Spec => Promise(c, i)!Spec
<1>1. Init => Promise(c, i)!Init
  BY PromisesInit
<1>2. IInv /\ [Next]_vars => [Promise(c, i)!Next]_(Promise(c, i)!vars)
  BY PromisesStep
<1> QED BY <1>1, <1>2, IInvariant, PTL DEF Spec, Promise!Spec
=============================================================================
