------------------------- MODULE RunJournal_proofs -------------------------
(***************************************************************************)
(* The safety properties of the run journal, for any processes, sessions,  *)
(* memory directories and run ids, and for any places to die.              *)
(***************************************************************************)
EXTENDS RunJournal, FiniteSetTheorems, TLAPS

Executing == {"executing", "observing", "ended", "saved"}
Owning == {"recorded"} \cup Executing

\* A process past its leases holds them, on the session and memory it works with.
Locked(p) ==
  /\ pc[p] # "idle" => /\ local[p].session \in Sessions /\ local[p].memory \in Memories
                       /\ slock[local[p].session] = p
  /\ pc[p] \notin {"idle", "session"} => mlock[local[p].memory] = p

\* What it loaded is what the files still say.
Loaded(p) ==
  /\ pc[p] \in Executing => /\ local[p].copy = session[local[p].session]
                            /\ local[p].events = short[local[p].memory]
  /\ pc[p] \in Executing \cup {"noting"} => local[p].logs = long[local[p].memory]
  /\ pc[p] = "noted" => local[p].copy = [session[local[p].session] EXCEPT !.exists = TRUE]
  /\ pc[p] = "ended" => local[p].status \in Results \cup {"failed"}

\* The run it executes has a record, which names its session and memory.
Owned(p) ==
  pc[p] \in Owning =>
    /\ local[p].run \in RunIds /\ run[local[p].run].status # "absent"
    /\ run[local[p].run].session = local[p].session
    /\ run[local[p].run].memory = local[p].memory
    /\ pc[p] # "saved" => run[local[p].run].status = "running"

\* Only a recorded run is in a snapshot, a trace or a memory file.
Known ==
  \A i \in RunIds :
    IF run[i].status = "absent"
    THEN /\ run[i] = NoRecord /\ trace[i] = 0 /\ i \notin rec
         /\ \A m \in Memories : Of(i, short[m]) = 0
    ELSE run[i].session \in Sessions /\ run[i].memory \in Memories

\* The trace of a run in execution lags by the event its observer is about to hear of.
InStep(p) ==
  LET remembered == Of(local[p].run, short[local[p].memory])
  IN  /\ pc[p] \in {"recorded", "executing"} => trace[local[p].run] = remembered
      /\ pc[p] = "observing" => remembered = trace[local[p].run] + 1

Recorded(s) == {i \in RunIds : run[i].session = s}
Terminal(s) == {i \in Recorded(s) : run[i].status \notin {"running", "interrupted"}}

\* A run is counted after it is recorded and before it can be terminal.
Counted(s) ==
  /\ IsFiniteSet(Recorded(s))
  /\ Cardinality(Terminal(s)) <= session[s].run_count
  /\ session[s].run_count <= Cardinality(Recorded(s))

\* Before its process counts a run, and while the run is not terminal, a bound is strict.
Margin(p) ==
  LET s == local[p].session
  IN  /\ pc[p] = "recorded" => session[s].run_count < Cardinality(Recorded(s))
      /\ pc[p] \in Executing \ {"saved"} => Cardinality(Terminal(s)) < session[s].run_count

IInv ==
  /\ TypeOK /\ Known /\ TraceFollowsMemory
  /\ \A p \in Procs : Locked(p) /\ Loaded(p) /\ Owned(p) /\ InStep(p) /\ Margin(p)
  /\ \A s \in Sessions : Counted(s)

-----------------------------------------------------------------------------
(* Counting the events of a run in a memory file.                          *)

\* A file holds a number of events of each run, and a new event adds one to its run's.
LEMMA OfProperties ==
  ASSUME NEW S, NEW e \in Seq(S), NEW i, NEW j \in S
  PROVE  /\ Of(i, e) \in Nat
         /\ Of(i, Append(e, j)) = Of(i, e) + (IF i = j THEN 1 ELSE 0)
         /\ Of(i, <<>>) = 0
<1> DEFINE At(f) == {k \in DOMAIN f : f[k] = i}
<1>1. IsFiniteSet(At(e))
  <2>1. At(e) \in SUBSET (1 .. Len(e)) /\ IsFiniteSet(1 .. Len(e))
    BY FS_Interval
  <2> QED BY <2>1, FS_Subset
<1>2. At(Append(e, j)) = IF i = j THEN At(e) \cup {Len(e) + 1} ELSE At(e)
  OBVIOUS
<1>3. Len(e) + 1 \notin At(e)
  OBVIOUS
<1>4. At(<<>>) = {}
  OBVIOUS
<1>5. Cardinality(At(e) \cup {Len(e) + 1}) = Cardinality(At(e)) + 1
  BY <1>1, <1>3, FS_AddElement
<1>6. Cardinality(At(e)) \in Nat
  BY <1>1, FS_CardinalityType
<1>7. \A f : Of(i, f) = Cardinality(At(f))
  BY DEF Of
<1>8. Of(i, e) \in Nat
  BY <1>6, <1>7
<1>9. Of(i, Append(e, j)) = Of(i, e) + (IF i = j THEN 1 ELSE 0)
  <2> HIDE DEF At
  <2>1. CASE i = j BY <2>1, <1>2, <1>5, <1>7
  <2>2. CASE i # j BY <2>2, <1>2, <1>7, <1>8
  <2> QED BY <2>1, <2>2
<1>10. Of(i, <<>>) = 0
  BY <1>4, <1>7, FS_EmptySet
<1> QED BY <1>8, <1>9, <1>10

-----------------------------------------------------------------------------
(* Types and leases.                                                       *)

\* What a process keeps in memory, and the two stored records, keep their shape.
LEMMA RecordUpdates ==
  /\ \A l \in Local :
       /\ \A s \in Sessions, m \in Memories : [l EXCEPT !.session = s, !.memory = m] \in Local
       /\ \A s \in Sessions, m \in Memories, g \in Seq(RunIds \cup {UserNote}) :
            [l EXCEPT !.session = s, !.memory = m, !.logs = g] \in Local
       /\ \A i \in RunIds : [l EXCEPT !.run = i] \in Local
       /\ \A c \in SessionRecord : [l EXCEPT !.copy = c] \in Local
       /\ \A c \in SessionRecord, e \in Seq(RunIds), g \in Seq(RunIds \cup {UserNote}) :
            [l EXCEPT !.copy = c, !.events = e, !.logs = g] \in Local
       /\ \A e \in Seq(RunIds) : [l EXCEPT !.events = e] \in Local
       /\ \A g \in Seq(RunIds \cup {UserNote}) : [l EXCEPT !.logs = g] \in Local
       /\ \A status \in Results \cup {"failed"} : [l EXCEPT !.status = status] \in Local
  /\ \A r \in RunRecord, status \in Statuses : [r EXCEPT !.status = status] \in RunRecord
  /\ \A r \in SessionRecord : [r EXCEPT !.exists = TRUE] \in SessionRecord
<1>1. ASSUME NEW l \in Local
      PROVE  /\ \A s \in Sessions, m \in Memories :
                  [l EXCEPT !.session = s, !.memory = m] \in Local
             /\ \A s \in Sessions, m \in Memories, g \in Seq(RunIds \cup {UserNote}) :
                  [l EXCEPT !.session = s, !.memory = m, !.logs = g] \in Local
             /\ \A i \in RunIds : [l EXCEPT !.run = i] \in Local
             /\ \A c \in SessionRecord : [l EXCEPT !.copy = c] \in Local
             /\ \A c \in SessionRecord, e \in Seq(RunIds), g \in Seq(RunIds \cup {UserNote}) :
                  [l EXCEPT !.copy = c, !.events = e, !.logs = g] \in Local
             /\ \A e \in Seq(RunIds) : [l EXCEPT !.events = e] \in Local
             /\ \A g \in Seq(RunIds \cup {UserNote}) : [l EXCEPT !.logs = g] \in Local
             /\ \A status \in Results \cup {"failed"} : [l EXCEPT !.status = status] \in Local
  BY DEF Local
<1>2. \A r \in RunRecord, status \in Statuses : [r EXCEPT !.status = status] \in RunRecord
  BY DEF RunRecord
<1>3. \A r \in SessionRecord : [r EXCEPT !.exists = TRUE] \in SessionRecord
  BY DEF SessionRecord
<1> QED BY <1>1, <1>2, <1>3

\* Nothing is locked, recorded or remembered at the start.
LEMMA InitIInv == Init => IInv
<1> SUFFICES ASSUME Init PROVE IInv OBVIOUS
<1> USE JournalAssumption, SentinelAssumption DEF Init
<1>1. TypeOK
  <2>1. run \in [RunIds -> RunRecord] BY DEF NoRecord, RunRecord, Statuses
  <2>2. session \in [Sessions -> SessionRecord] BY DEF Unread, SessionRecord
  <2>3. local \in [Procs -> Local]
    <3>1. Fresh \in Local BY DEF Fresh, Local
    <3> QED BY <3>1
  <2>4. pc \in [Procs -> Places] BY DEF Places
  <2> QED BY <2>1, <2>2, <2>3, <2>4 DEF TypeOK
<1>2. \A p \in Procs : Locked(p) /\ Loaded(p) /\ Owned(p) /\ InStep(p) /\ Margin(p)
  BY DEF Locked, Loaded, Owned, InStep, Margin, Executing, Owning
<1>3. \A i : Of(i, <<>>) = 0
  BY FS_EmptySet DEF Of
<1>4. Known /\ TraceFollowsMemory
  BY <1>3 DEF Known, TraceFollowsMemory, NoRecord
<1>5. \A s \in Sessions : Counted(s)
  <2>1. \A s \in Sessions : Recorded(s) = {} /\ Terminal(s) = {}
    BY DEF Recorded, Terminal, NoRecord
  <2>2. \A s \in Sessions : session[s].run_count = 0
    BY DEF Unread
  <2>3. \A s \in Sessions : /\ IsFiniteSet(Recorded(s))
                             /\ Cardinality(Recorded(s)) = 0 /\ Cardinality(Terminal(s)) = 0
    BY <2>1, FS_EmptySet
  <2> QED BY <2>2, <2>3 DEF Counted
<1> QED BY <1>1, <1>2, <1>4, <1>5 DEF IInv

\* Every variable keeps its shape.
LEMMA TypeStep == ASSUME IInv, [Next]_vars PROVE TypeOK'
<1> USE JournalAssumption, SentinelAssumption DEF IInv, TypeOK, files, locks, memory, Goto
<1>fresh. ASSUME NEW p \in Procs, Dropped(p)
          PROVE  /\ slock' \in [Sessions -> Procs \cup {Nobody}]
                 /\ mlock' \in [Memories -> Procs \cup {Nobody}]
                 /\ pc' \in [Procs -> Places] /\ local' \in [Procs -> Local]
  <2>1. Fresh \in Local BY DEF Fresh, Local
  <2>2. local' \in [Procs -> Local] BY <1>fresh, <2>1 DEF Dropped
  <2>3. pc' \in [Procs -> Places] BY <1>fresh DEF Dropped, Places
  <2> QED BY <1>fresh, <2>2, <2>3 DEF Dropped
<1>1. ASSUME NEW p \in Procs, Execution(p) PROVE TypeOK'
  <2>1. ASSUME NEW s \in Sessions, NEW m \in Memories, TakeSession(p, s, m) PROVE TypeOK'
    <3>1. [local[p] EXCEPT !.session = s, !.memory = m] \in Local BY RecordUpdates
    <3>2. local' \in [Procs -> Local] BY <2>1, <3>1 DEF TakeSession
    <3>3. pc' \in [Procs -> Places] BY <2>1 DEF TakeSession, Places
    <3> QED BY <2>1, <3>2, <3>3 DEF TakeSession
  <2>2. CASE TakeMemory(p) BY <2>2 DEF TakeMemory, Places
  <2>3. CASE MemoryBusy(p) BY <2>3, <1>fresh DEF MemoryBusy
  <2>4. ASSUME NEW i \in RunIds, Record(p, i) PROVE TypeOK'
    <3>1. [local[p] EXCEPT !.run = i] \in Local BY RecordUpdates
    <3>2. local' \in [Procs -> Local] BY <2>4, <3>1 DEF Record
    <3>3. pc' \in [Procs -> Places] BY <2>4 DEF Record, Places
    <3>4. local[p].session \in Sessions /\ local[p].memory \in Memories
      BY <2>4 DEF Record, Locked
    <3>5. run' \in [RunIds -> RunRecord] BY <2>4, <3>4 DEF Record, RunRecord, Statuses
    <3> QED BY <2>4, <3>2, <3>3, <3>5 DEF Record
  <2>5. CASE Count(p)
    <3> DEFINE s == local[p].session
               next == [exists |-> TRUE, run_count |-> session[s].run_count + 1,
                        last_run_id |-> local[p].run, memory_dir |-> local[p].memory]
    <3>1. s \in Sessions /\ local[p].memory \in Memories /\ local[p].run \in RunIds
      BY <2>5 DEF Count, Locked, Owned, Owning
    <3>2. session[s] \in SessionRecord BY <3>1
    <3>3. next \in SessionRecord BY <3>1, <3>2 DEF SessionRecord
    <3>4. session' \in [Sessions -> SessionRecord] BY <2>5, <3>3 DEF Count
    <3>5. short[local[p].memory] \in Seq(RunIds)
          /\ long[local[p].memory] \in Seq(RunIds \cup {UserNote})
      BY <3>1
    <3> HIDE DEF next
    <3>6. [local[p] EXCEPT !.copy = next, !.events = short[local[p].memory],
                           !.logs = long[local[p].memory]] \in Local
      BY <3>3, <3>5, RecordUpdates
    <3>7. local' \in [Procs -> Local] BY <2>5, <3>6 DEF Count, next
    <3>8. pc' \in [Procs -> Places] BY <2>5 DEF Count, Places
    <3> QED BY <2>5, <3>4, <3>7, <3>8 DEF Count
  <2>6. CASE Remember(p)
    <3>1. local[p].run \in RunIds /\ local[p].memory \in Memories
      BY <2>6 DEF Remember, Locked, Owned, Owning, Executing
    <3>2. Append(local[p].events, local[p].run) \in Seq(RunIds) BY <3>1 DEF Local
    <3>3. [local[p] EXCEPT !.events = Append(@, local[p].run)] \in Local
      BY <3>2, RecordUpdates
    <3>4. local' \in [Procs -> Local] BY <2>6, <3>3 DEF Remember
    <3>5. local'[p].events \in Seq(RunIds) BY <3>4 DEF Local
    <3>6. short' \in [Memories -> Seq(RunIds)] BY <2>6, <3>5 DEF Remember
    <3>7. pc' \in [Procs -> Places] BY <2>6 DEF Remember, Places
    <3> QED BY <2>6, <3>4, <3>6, <3>7 DEF Remember
  <2>7. CASE Observe(p)
    <3>1. trace' \in [RunIds -> Nat]
      <4>1. local[p].run \in RunIds BY <2>7 DEF Observe, Owned, Owning, Executing
      <4>2. trace[local[p].run] + 1 \in Nat BY <4>1
      <4> QED BY <2>7, <4>2 DEF Observe
    <3>2. pc' \in [Procs -> Places] BY <2>7 DEF Observe, Places
    <3> QED BY <2>7, <3>1, <3>2 DEF Observe
  <2>8. CASE LogExecution(p)
    <3>1. local[p].run \in RunIds /\ local[p].memory \in Memories
      BY <2>8 DEF LogExecution, Locked, Owned, Owning, Executing
    <3>2. Append(local[p].logs, local[p].run) \in Seq(RunIds \cup {UserNote})
      BY <3>1 DEF Local
    <3>3. [local[p] EXCEPT !.logs = Append(@, local[p].run)] \in Local
      BY <3>2, RecordUpdates
    <3>4. local' \in [Procs -> Local] BY <2>8, <3>3 DEF LogExecution
    <3>5. local'[p].logs \in Seq(RunIds \cup {UserNote}) BY <3>4 DEF Local
    <3>6. long' \in [Memories -> Seq(RunIds \cup {UserNote})] BY <2>8, <3>5 DEF LogExecution
    <3> QED BY <2>8, <3>4, <3>6 DEF LogExecution
  <2>9. ASSUME NEW status \in Results \cup {"failed"}, End(p, status) PROVE TypeOK'
    <3>1. [local[p] EXCEPT !.status = status] \in Local BY RecordUpdates
    <3>2. local' \in [Procs -> Local] BY <2>9, <3>1 DEF End
    <3>3. pc' \in [Procs -> Places] BY <2>9 DEF End, Places
    <3> QED BY <2>9, <3>2, <3>3 DEF End
  <2>10. CASE Save(p)
    <3>1. local[p].status \in Statuses /\ local[p].run \in RunIds
      BY <2>10 DEF Save, Loaded, Owned, Owning, Executing, Statuses
    <3>2. run' \in [RunIds -> RunRecord] BY <2>10, <3>1, RecordUpdates DEF Save
    <3>3. pc' \in [Procs -> Places] BY <2>10 DEF Save, Places
    <3> QED BY <2>10, <3>2, <3>3 DEF Save
  <2>11. CASE Close(p)
    <3>1. session' \in [Sessions -> SessionRecord]
      <4>1. local[p].copy = session[local[p].session] /\ local[p].session \in Sessions
        BY <2>11 DEF Close, Loaded, Locked, Executing
      <4>2. local[p].copy \in SessionRecord BY <4>1
      <4> QED BY <2>11, <4>2 DEF Close
    <3> QED BY <2>11, <3>1, <1>fresh DEF Close
  <2> QED BY <1>1, <2>1, <2>2, <2>3, <2>4, <2>5, <2>6, <2>7, <2>8, <2>9, <2>10, <2>11
          DEF Execution
<1>2. ASSUME NEW p \in Procs, Note(p) PROVE TypeOK'
  <2>1. ASSUME NEW s \in Sessions, NoteBegin(p, s) PROVE TypeOK'
    <3> DEFINE m == session[s].memory_dir
    <3>1. CASE m \in Memories
      <4>1. [local[p] EXCEPT !.session = s, !.memory = m, !.logs = long[m]] \in Local
        BY <3>1, RecordUpdates
      <4>2. local' \in [Procs -> Local] BY <2>1, <4>1 DEF NoteBegin
      <4>3. pc' \in [Procs -> Places] BY <2>1 DEF NoteBegin, Places
      <4> QED BY <2>1, <4>2, <4>3 DEF NoteBegin, NoteTakesSession
    <3> QED BY <3>1 DEF SessionRecord
  <2>2. CASE NoteLog(p)
    <3>1. local[p].session \in Sessions /\ local[p].memory \in Memories
      BY <2>2 DEF NoteLog, Locked
    <3>2. [session[local[p].session] EXCEPT !.exists = TRUE] \in SessionRecord
      BY <3>1, RecordUpdates
    <3>3. [local[p] EXCEPT !.copy = [session[local[p].session] EXCEPT !.exists = TRUE]] \in Local
      <4>1. \A c \in SessionRecord : [local[p] EXCEPT !.copy = c] \in Local
        BY RecordUpdates
      <4> QED BY <4>1, <3>2
    <3>4. local' \in [Procs -> Local] BY <2>2, <3>3 DEF NoteLog
    <3>5. Append(local[p].logs, UserNote) \in Seq(RunIds \cup {UserNote}) BY DEF Local
    <3>6. long' \in [Memories -> Seq(RunIds \cup {UserNote})] BY <2>2, <3>5 DEF NoteLog
    <3>7. pc' \in [Procs -> Places] BY <2>2 DEF NoteLog, Places
    <3> QED BY <2>2, <3>4, <3>6, <3>7 DEF NoteLog
  <2>3. CASE NoteEnd(p)
    <3>1. local[p].session \in Sessions BY <2>3 DEF NoteEnd, Locked
    <3>2. [session[local[p].session] EXCEPT !.exists = TRUE] \in SessionRecord
      BY <3>1, RecordUpdates
    <3>3. session' \in [Sessions -> SessionRecord]
      BY <2>3, <3>2 DEF NoteEnd, Loaded
    <3> QED BY <2>3, <3>3, <1>fresh DEF NoteEnd
  <2> QED BY <1>2, <2>1, <2>2, <2>3 DEF Note
<1>3. ASSUME NEW p \in Procs, Abandon(p) PROVE TypeOK'
  BY <1>3, <1>fresh DEF Abandon
<1>4. CASE Recovery
  <2>1. CASE Snapshot BY <2>1 DEF Snapshot
  <2>2. ASSUME NEW i \in RunIds, Mark(i) PROVE TypeOK'
    <3>1. run' \in [RunIds -> RunRecord] BY <2>2, RecordUpdates DEF Mark, Statuses
    <3> QED BY <2>2, <3>1 DEF Mark
  <2>3. ASSUME NEW i \in RunIds, Skip(i) PROVE TypeOK' BY <2>3 DEF Skip
  <2> QED BY <1>4, <2>1, <2>2, <2>3 DEF Recovery
<1>5. CASE UNCHANGED vars BY <1>5 DEF vars
<1> QED BY <1>1, <1>2, <1>3, <1>4, <1>5 DEF Next

-----------------------------------------------------------------------------
(* What a step leaves alone.                                               *)

\* Nothing q holds changes: its memory, its leases, the files under them, or the record and
\* trace of a run whose session it holds.
Untouched(q) ==
  /\ pc'[q] = pc[q] /\ local'[q] = local[q]
  /\ \A s \in Sessions : slock[s] = q => slock'[s] = q /\ session'[s] = session[s]
  /\ \A m \in Memories :
       mlock[m] = q => mlock'[m] = q /\ short'[m] = short[m] /\ long'[m] = long[m]
  /\ \A i \in RunIds : run[i].session \in Sessions /\ slock[run[i].session] = q =>
       run'[i] = run[i] /\ trace'[i] = trace[i]

\* A process changes nothing another one holds.
LEMMA Frame ==
  ASSUME IInv, NEW p \in Procs, Execution(p) \/ Note(p) \/ Abandon(p), NEW q \in Procs, q # p
  PROVE  Untouched(q)
<1> USE SentinelAssumption DEF IInv, TypeOK, files, locks, memory, Goto, Untouched
<1>1. ASSUME Dropped(p)
      PROVE  /\ pc'[q] = pc[q] /\ local'[q] = local[q]
             /\ \A s \in Sessions : slock[s] = q => slock'[s] = q
             /\ \A m \in Memories : mlock[m] = q => mlock'[m] = q
  BY <1>1 DEF Dropped
<1>2. Locked(p) /\ Owned(p)
  OBVIOUS
<1>3. CASE Execution(p)
  <2>1. ASSUME NEW s \in Sessions, NEW m \in Memories, TakeSession(p, s, m) PROVE Untouched(q)
    BY <2>1 DEF TakeSession, SessionFree
  <2>2. CASE TakeMemory(p) BY <2>2 DEF TakeMemory, MemoryFree
  <2>3. CASE MemoryBusy(p) BY <2>3, <1>1 DEF MemoryBusy
  <2>4. ASSUME NEW i \in RunIds, Record(p, i) PROVE Untouched(q)
    <3>1. run[i] = NoRecord BY <2>4 DEF Record, Known
    <3> QED BY <2>4, <3>1 DEF Record, NoRecord
  <2>5. CASE Count(p) BY <2>5, <1>2 DEF Count, Locked
  <2>6. CASE Remember(p) BY <2>6, <1>2 DEF Remember, Locked
  <2>7. CASE Observe(p) BY <2>7, <1>2 DEF Observe, Locked, Owned, Owning, Executing
  <2>8. CASE LogExecution(p) BY <2>8, <1>2 DEF LogExecution, Locked
  <2>9. ASSUME NEW status \in Results \cup {"failed"}, End(p, status) PROVE Untouched(q)
    BY <2>9 DEF End
  <2>10. CASE Save(p) BY <2>10, <1>2 DEF Save, Locked, Owned, Owning, Executing
  <2>11. CASE Close(p) BY <2>11, <1>1, <1>2 DEF Close, Locked
  <2> QED BY <1>3, <2>1, <2>2, <2>3, <2>4, <2>5, <2>6, <2>7, <2>8, <2>9, <2>10, <2>11
          DEF Execution
<1>4. CASE Note(p)
  <2>1. ASSUME NEW s \in Sessions, NoteBegin(p, s) PROVE Untouched(q)
    BY <2>1 DEF NoteBegin, NoteTakesSession, SessionFree, MemoryFree
  <2>2. CASE NoteLog(p) BY <2>2, <1>2 DEF NoteLog, Locked
  <2>3. CASE NoteEnd(p) BY <2>3, <1>1, <1>2 DEF NoteEnd, Locked
  <2> QED BY <1>4, <2>1, <2>2, <2>3 DEF Note
<1>5. CASE Abandon(p) BY <1>1, <1>5 DEF Abandon
<1> QED BY <1>3, <1>4, <1>5

\* What a process holds stays as it is under the steps of others.
LEMMA HeldStays ==
  ASSUME IInv, NEW q \in Procs, Untouched(q)
  PROVE  Locked(q)' /\ Loaded(q)' /\ Owned(q)'
<1> USE DEF IInv, TypeOK, Untouched
<1>1. Locked(q) /\ Loaded(q) /\ Owned(q)
  OBVIOUS
<1>2. Locked(q)' BY <1>1 DEF Locked
<1>3. Loaded(q)' BY <1>1 DEF Locked, Loaded, Executing
<1>4. Owned(q)' BY <1>1 DEF Locked, Owned, Owning, Executing
<1> QED BY <1>2, <1>3, <1>4

\* A process's own steps keep what it holds locked, loaded and owned.
LEMMA HeldStep ==
  ASSUME IInv, NEW p \in Procs, Execution(p) \/ Note(p) \/ Abandon(p)
  PROVE  Locked(p)' /\ Loaded(p)' /\ Owned(p)'
<1> USE JournalAssumption, SentinelAssumption
    DEF IInv, TypeOK, files, locks, memory, Goto, Executing, Owning
<1>1. Locked(p) /\ Loaded(p) /\ Owned(p)
  OBVIOUS
<1>2. ASSUME Dropped(p) PROVE Locked(p)' /\ Loaded(p)' /\ Owned(p)'
  <2>1. pc'[p] = "idle" BY <1>2 DEF Dropped
  <2> QED BY <2>1 DEF Locked, Loaded, Owned
<1>3. CASE Execution(p)
  <2> USE DEF Locked, Loaded, Owned
  <2>1. ASSUME NEW s \in Sessions, NEW m \in Memories, TakeSession(p, s, m)
        PROVE  Locked(p)' /\ Loaded(p)' /\ Owned(p)'
    BY <2>1 DEF TakeSession
  <2>2. CASE TakeMemory(p) BY <2>2, <1>1 DEF TakeMemory
  <2>3. CASE MemoryBusy(p) BY <2>3, <1>2 DEF MemoryBusy
  <2>4. ASSUME NEW i \in RunIds, Record(p, i) PROVE Locked(p)' /\ Loaded(p)' /\ Owned(p)'
    BY <2>4, <1>1 DEF Record
  <2>5. CASE Count(p)
    <3>1. pc'[p] = "executing" /\ pc[p] = "recorded" /\ UNCHANGED <<run, short, long, slock, mlock>>
      BY <2>5 DEF Count
    <3>2. local[p] \in Local
      OBVIOUS
    <3>3. /\ local'[p].run = local[p].run /\ local'[p].session = local[p].session
          /\ local'[p].memory = local[p].memory
          /\ local'[p].events = short[local[p].memory] /\ local'[p].logs = long[local[p].memory]
          /\ local'[p].copy = session'[local[p].session]
      BY <2>5, <1>1, <3>1, <3>2 DEF Count, Local
    <3> QED BY <1>1, <3>1, <3>3
  <2>6. CASE Remember(p) BY <2>6, <1>1 DEF Remember
  <2>7. CASE Observe(p) BY <2>7, <1>1 DEF Observe
  <2>8. CASE LogExecution(p) BY <2>8, <1>1 DEF LogExecution
  <2>9. ASSUME NEW status \in Results \cup {"failed"}, End(p, status)
        PROVE  Locked(p)' /\ Loaded(p)' /\ Owned(p)'
    BY <2>9, <1>1 DEF End
  <2>10. CASE Save(p)
    <3>1. local[p].run \in RunIds /\ local[p].status # "absent"
      BY <2>10, <1>1 DEF Save
    <3>2. /\ run'[local[p].run].status # "absent"
          /\ run'[local[p].run].session = run[local[p].run].session
          /\ run'[local[p].run].memory = run[local[p].run].memory
      BY <2>10, <3>1 DEF Save, RunRecord
    <3> QED BY <2>10, <1>1, <3>1, <3>2 DEF Save
  <2>11. CASE Close(p) BY <2>11, <1>2 DEF Close
  <2> QED BY <1>3, <2>1, <2>2, <2>3, <2>4, <2>5, <2>6, <2>7, <2>8, <2>9, <2>10, <2>11
          DEF Execution
<1>4. CASE Note(p)
  <2>1. ASSUME NEW s \in Sessions, NoteBegin(p, s)
        PROVE  Locked(p)' /\ Loaded(p)' /\ Owned(p)'
    <3>1. session[s].memory_dir \in Memories
      BY <2>1 DEF SessionRecord
    <3> QED BY <2>1, <3>1 DEF NoteBegin, NoteTakesSession, Locked, Loaded, Owned
  <2>2. CASE NoteLog(p) BY <2>2, <1>1 DEF NoteLog, Locked, Loaded, Owned
  <2>3. CASE NoteEnd(p) BY <2>3, <1>2 DEF NoteEnd
  <2> QED BY <1>4, <2>1, <2>2, <2>3 DEF Note
<1>5. CASE Abandon(p) BY <1>2, <1>5 DEF Abandon
<1> QED BY <1>3, <1>4, <1>5

-----------------------------------------------------------------------------
(* Records, traces and memory files.                                       *)

\* A process changes no recorded run but the one it executes.
LEMMA RunFrame ==
  ASSUME IInv, NEW p \in Procs, Execution(p) \/ Note(p) \/ Abandon(p),
         NEW i \in RunIds, run[i].status # "absent", pc[p] \in Owning => local[p].run # i
  PROVE  /\ run'[i] = run[i] /\ trace'[i] = trace[i]
         /\ \A m \in Memories : Of(i, short'[m]) = Of(i, short[m])
<1> USE DEF IInv, TypeOK, files, locks, memory, Owning, Executing
<1>1. CASE Execution(p)
  <2>1. CASE Remember(p)
    <3>1. /\ local[p].run \in RunIds /\ local[p].run # i /\ local[p].memory \in Memories
          /\ local[p].events = short[local[p].memory]
      BY <2>1 DEF Remember, Owned, Locked, Loaded
    <3>2. short[local[p].memory] \in Seq(RunIds)
      BY <3>1
    <3>3. Of(i, Append(short[local[p].memory], local[p].run)) = Of(i, short[local[p].memory])
      BY <3>1, <3>2, OfProperties
    <3>4. short' = [short EXCEPT ![local[p].memory] =
                                   Append(short[local[p].memory], local[p].run)]
      BY <2>1, <3>1 DEF Remember
    <3>5. \A m \in Memories : Of(i, short'[m]) = Of(i, short[m])
      BY <3>1, <3>3, <3>4
    <3> QED BY <2>1, <3>5 DEF Remember
  <2>2. CASE ~Remember(p)
    <3>1. short' = short
      BY <1>1, <2>2 DEF Execution, TakeSession, TakeMemory, MemoryBusy, Record, Count, Observe,
                        LogExecution, End, Save, Close
    <3>2. run'[i] = run[i] /\ trace'[i] = trace[i]
      BY <1>1, <2>2 DEF Execution, TakeSession, TakeMemory, MemoryBusy, Record, Count, Observe,
                        LogExecution, End, Save, Close
    <3> QED BY <3>1, <3>2
  <2> QED BY <2>1, <2>2
<1>2. CASE Note(p) BY <1>2 DEF Note, NoteBegin, NoteLog, NoteEnd
<1>3. CASE Abandon(p) BY <1>3 DEF Abandon
<1> QED BY <1>1, <1>2, <1>3

\* Runs without a record stay without a trace and without events.
LEMMA KnownStep == ASSUME IInv, [Next]_vars PROVE Known'
<1> USE SentinelAssumption DEF IInv, TypeOK, files, locks, memory
<1>1. ASSUME NEW p \in Procs, Execution(p) PROVE Known'
  <2>0. Locked(p) /\ Owned(p) /\ Loaded(p)
    OBVIOUS
  <2>1. ASSUME NEW i \in RunIds, Record(p, i) PROVE Known'
    <3>1. local[p].session \in Sessions /\ local[p].memory \in Memories
      BY <2>0, <2>1 DEF Record, Locked
    <3> QED BY <2>1, <3>1 DEF Record, Known
  <2>2. CASE Remember(p)
    <3>1. /\ local[p].run \in RunIds /\ run[local[p].run].status # "absent"
          /\ local[p].memory \in Memories /\ local[p].events = short[local[p].memory]
      BY <2>0, <2>2 DEF Remember, Owned, Locked, Loaded, Owning, Executing
    <3>2. short[local[p].memory] \in Seq(RunIds)
      BY <3>1
    <3>3. ASSUME NEW i \in RunIds, run[i].status = "absent", NEW m \in Memories
          PROVE  Of(i, short'[m]) = Of(i, short[m])
      <4>1. Of(i, Append(short[local[p].memory], local[p].run)) = Of(i, short[local[p].memory])
        <5>1. i # local[p].run BY <3>1, <3>3
        <5> QED BY <5>1, <3>1, <3>2, OfProperties
      <4>2. short' = [short EXCEPT ![local[p].memory] =
                                     Append(short[local[p].memory], local[p].run)]
        BY <2>2, <3>1 DEF Remember
      <4> QED BY <3>1, <4>1, <4>2
    <3> QED BY <2>2, <3>3 DEF Remember, Known
  <2>3. CASE Observe(p)
    <3>1. run[local[p].run].status # "absent"
      BY <2>0, <2>3 DEF Observe, Owned, Owning, Executing
    <3> QED BY <2>3, <3>1 DEF Observe, Known
  <2>4. CASE Save(p)
    <3>1. local[p].run \in RunIds /\ run[local[p].run].status # "absent"
      BY <2>0, <2>4 DEF Save, Owned, Owning, Executing
    <3>2. /\ run'[local[p].run].session = run[local[p].run].session
          /\ run'[local[p].run].memory = run[local[p].run].memory
          /\ \A i \in RunIds \ {local[p].run} : run'[i] = run[i]
      BY <2>4, <3>1 DEF Save, RunRecord
    <3>3. run'[local[p].run].status # "absent"
      <4>1. local[p].status # "absent"
        BY <2>0, <2>4, JournalAssumption DEF Save, Loaded
      <4> QED BY <2>4, <3>1, <4>1 DEF Save, RunRecord
    <3> QED BY <2>4, <3>1, <3>2, <3>3 DEF Save, Known
  <2>5. CASE ~(Remember(p) \/ Observe(p) \/ Save(p) \/ \E i \in RunIds : Record(p, i))
    <3>1. UNCHANGED <<run, trace, short, rec>>
      BY <1>1, <2>5 DEF Execution, TakeSession, TakeMemory, MemoryBusy, Count, LogExecution,
                        End, Close
    <3> QED BY <3>1 DEF Known
  <2> QED BY <2>1, <2>2, <2>3, <2>4, <2>5
<1>2. ASSUME NEW p \in Procs, Note(p) \/ Abandon(p) PROVE Known'
  <2>1. UNCHANGED <<run, trace, short, rec>>
    BY <1>2 DEF Note, NoteBegin, NoteLog, NoteEnd, Abandon
  <2> QED BY <2>1 DEF Known
<1>3. CASE Recovery
  <2>1. CASE Snapshot BY <2>1 DEF Snapshot, Known
  <2>2. ASSUME NEW i \in RunIds, Mark(i) PROVE Known'
    <3>1. run[i].status # "absent" BY <2>2 DEF Mark, Known
    <3>2. /\ run'[i].session = run[i].session /\ run'[i].memory = run[i].memory
          /\ run'[i].status = "interrupted" /\ \A j \in RunIds \ {i} : run'[j] = run[j]
      BY <2>2 DEF Mark, RunRecord
    <3> QED BY <2>2, <3>1, <3>2 DEF Mark, Known
  <2>3. ASSUME NEW i \in RunIds, Skip(i) PROVE Known' BY <2>3 DEF Skip, Known
  <2> QED BY <1>3, <2>1, <2>2, <2>3 DEF Recovery
<1>4. CASE UNCHANGED vars BY <1>4 DEF vars, Known
<1> QED BY <1>1, <1>2, <1>3, <1>4 DEF Next

\* Traces keep step with the memory files.
LEMMA InStepStep ==
  ASSUME IInv, [Next]_vars
  PROVE  TraceFollowsMemory' /\ \A q \in Procs : InStep(q)'
<1> USE SentinelAssumption DEF IInv, TypeOK, files, locks, memory, Owning, Executing
<1> DEFINE Follows(i) == trace[i] \in {Of(i, short[run[i].memory]) - 1,
                                       Of(i, short[run[i].memory])}
<1>0. /\ \A q \in Procs : Locked(q) /\ Loaded(q) /\ Owned(q) /\ InStep(q)
      /\ \A i \in RunIds : run[i].status # "absent" => Follows(i)
  BY DEF TraceFollowsMemory
<1>1. \A i \in RunIds, m \in Memories : Of(i, short[m]) \in Nat
  BY OfProperties
<1>2. ASSUME NEW p \in Procs, Execution(p) \/ Note(p) \/ Abandon(p)
      PROVE  TraceFollowsMemory' /\ \A q \in Procs : InStep(q)'
  <2>1. ASSUME NEW q \in Procs, q # p PROVE InStep(q)'
    <3>1. Untouched(q) BY <1>2, <2>1, Frame
    <3>2. pc'[q] = pc[q] /\ local'[q] = local[q]
      BY <3>1 DEF Untouched
    <3>3. CASE pc[q] \in Owning
      <4>1. /\ local[q].run \in RunIds /\ local[q].memory \in Memories
            /\ run[local[q].run].session \in Sessions /\ slock[run[local[q].run].session] = q
            /\ mlock[local[q].memory] = q
        BY <1>0, <3>3 DEF Locked, Owned
      <4>2. /\ trace'[local[q].run] = trace[local[q].run]
            /\ short'[local[q].memory] = short[local[q].memory]
        BY <3>1, <4>1 DEF Untouched
      <4> QED BY <1>0, <3>2, <4>2 DEF InStep
    <3> QED BY <3>2, <3>3 DEF InStep
  <2>2. ASSUME NEW i \in RunIds, run[i].status # "absent", pc[p] \in Owning => local[p].run # i
        PROVE  Follows(i)'
    <3>1. run[i].memory \in Memories
      BY <2>2 DEF Known
    <3>2. /\ run'[i] = run[i] /\ trace'[i] = trace[i]
          /\ Of(i, short'[run[i].memory]) = Of(i, short[run[i].memory])
      BY <1>2, <2>2, <3>1, RunFrame
    <3>3. Follows(i)
      BY <1>0, <2>2
    <3> QED BY <3>2, <3>3
  <2>3. ASSUME NEW i \in RunIds, Record(p, i) PROVE Follows(i)' /\ InStep(p)'
    <3>1. local[p].memory \in Memories
      BY <1>0, <2>3 DEF Record, Locked
    <3>2. /\ pc'[p] = "recorded" /\ local'[p].run = i /\ local'[p].memory = local[p].memory
          /\ run'[i].memory = local[p].memory /\ short' = short /\ trace' = trace
      BY <2>3 DEF Record, Goto, Local
    <3>3. trace[i] = 0 /\ Of(i, short[local[p].memory]) = 0
      BY <2>3, <3>1 DEF Record, Known
    <3> QED BY <3>2, <3>3 DEF InStep
  <2>4. CASE pc[p] \in Owning
    <3>0. PICK i \in RunIds, m \in Memories : i = local[p].run /\ m = local[p].memory
      BY <1>0, <2>4 DEF Owned, Locked
    <3>1. run[i].status # "absent" /\ run[i].memory = m
      BY <1>0, <2>4, <3>0 DEF Owned
    <3>2. InStep(p) /\ Follows(i)
      BY <1>0, <3>0, <3>1
    <3>3. Of(i, short[m]) \in Nat /\ trace[i] \in Nat
      BY <1>1, <3>0, <3>1
    <3>4. ASSUME Remember(p) PROVE Follows(i)' /\ InStep(p)'
      <4>1. short[m] \in Seq(RunIds) /\ local[p].events = short[m]
        BY <1>0, <3>0, <3>1, <3>4 DEF Remember, Loaded
      <4>2. short'[m] = Append(short[m], i)
        BY <3>0, <3>1, <3>4, <4>1 DEF Remember
      <4>3. Of(i, short'[m]) = Of(i, short[m]) + 1
        BY <3>0, <3>1, <4>1, <4>2, OfProperties
      <4>4. /\ pc[p] = "executing" /\ pc'[p] = "observing" /\ local'[p].run = i
            /\ local'[p].memory = m /\ run' = run /\ trace' = trace
        BY <3>0, <3>4 DEF Remember, Goto, Local
      <4>5. trace[i] = Of(i, short[m])
        BY <3>0, <3>2, <4>4 DEF InStep
      <4>6. run'[i].memory = m /\ trace'[i] = Of(i, short'[m]) - 1
        BY <3>0, <3>1, <3>3, <4>3, <4>4, <4>5
      <4>7. Follows(i)'
        BY <4>6
      <4>8. InStep(p)'
        BY <3>0, <3>3, <4>3, <4>4, <4>5 DEF InStep
      <4> QED BY <4>7, <4>8
    <3>5. ASSUME Observe(p) PROVE Follows(i)' /\ InStep(p)'
      <4>1. /\ pc[p] = "observing" /\ pc'[p] = "executing" /\ local' = local
            /\ run' = run /\ short' = short /\ trace'[i] = trace[i] + 1
        BY <3>0, <3>1, <3>5 DEF Observe, Goto
      <4>2. Of(i, short[m]) = trace[i] + 1
        BY <3>0, <3>2, <4>1 DEF InStep
      <4>3. run'[i].memory = m /\ trace'[i] = Of(i, short'[m])
        BY <3>0, <3>1, <4>1, <4>2
      <4>4. Follows(i)'
        BY <4>3
      <4>5. InStep(p)'
        BY <3>0, <4>1, <4>2 DEF InStep
      <4> QED BY <4>4, <4>5
    <3>6. ASSUME ~Remember(p) /\ ~Observe(p) PROVE Follows(i)' /\ InStep(p)'
      <4>1. short' = short /\ trace' = trace
        BY <1>2, <2>4, <3>6
           DEF Execution, TakeSession, TakeMemory, MemoryBusy, Record, Count, LogExecution, End,
               Save, Close, Note, NoteBegin, NoteLog, NoteEnd, Abandon
      <4>2. run'[i].memory = m
        <5>1. CASE Save(p) BY <5>1, <3>0, <3>1 DEF Save, RunRecord
        <5>2. CASE ~Save(p)
          <6>1. run' = run
            BY <1>2, <2>4, <3>6, <5>2
               DEF Execution, TakeSession, TakeMemory, MemoryBusy, Record, Count, LogExecution,
                   End, Close, Note, NoteBegin, NoteLog, NoteEnd, Abandon
          <6> QED BY <3>0, <3>1, <6>1
        <5> QED BY <5>1, <5>2
      <4>3. \/ pc'[p] \notin {"recorded", "executing", "observing"}
            \/ /\ pc[p] \in {"recorded", "executing"} /\ pc'[p] = "executing"
               /\ local'[p].run = i /\ local'[p].memory = m
        <5>1. CASE Count(p) BY <3>0, <5>1 DEF Count, Goto, Local
        <5>3. CASE LogExecution(p) BY <3>0, <5>3 DEF LogExecution, Local
        <5>2. CASE ~(Count(p) \/ LogExecution(p))
          BY <1>2, <2>4, <3>6, <5>2
             DEF Execution, TakeSession, TakeMemory, MemoryBusy, Record, End, Save, Close, Note,
                 NoteBegin, NoteLog, NoteEnd, Abandon, Goto, Dropped
        <5> QED BY <5>1, <5>2, <5>3
      <4>4. Follows(i)'
        BY <3>0, <3>1, <3>2, <4>1, <4>2
      <4>5. InStep(p)'
        BY <3>0, <3>2, <4>1, <4>3 DEF InStep
      <4> QED BY <4>4, <4>5
    <3>7. Follows(i)' /\ InStep(p)'
      BY <3>4, <3>5, <3>6
    <3>8. \A j \in RunIds : run'[j].status # "absent" => run[j].status # "absent"
      BY <1>2, <2>4, <3>0, <3>1
         DEF Execution, TakeSession, TakeMemory, MemoryBusy, Record, Count, Remember, Observe,
             LogExecution, End, Save, Close, Note, NoteBegin, NoteLog, NoteEnd, Abandon
    <3>9. \A q \in Procs : InStep(q)'
      BY <2>1, <3>7
    <3>10. \A j \in RunIds : run'[j].status # "absent" => Follows(j)'
      BY <2>2, <3>0, <3>7, <3>8
    <3> QED BY <3>9, <3>10 DEF TraceFollowsMemory
  <2>5. CASE pc[p] \notin Owning
    <3>1. CASE \E i \in RunIds : Record(p, i)
      <4> PICK i \in RunIds : Record(p, i)
        BY <3>1
      <4>1. \A j \in RunIds \ {i} : run'[j] = run[j]
        BY DEF Record
      <4> QED BY <2>1, <2>2, <2>3, <2>5, <4>1 DEF TraceFollowsMemory
    <3>2. CASE ~\E i \in RunIds : Record(p, i)
      <4>1. run' = run
        BY <1>2, <2>5, <3>2
           DEF Execution, TakeSession, TakeMemory, MemoryBusy, Count, Remember, Observe,
               LogExecution, End, Save, Close, Note, NoteBegin, NoteLog, NoteEnd, Abandon
      <4>2. pc'[p] \notin {"recorded", "executing", "observing"}
        BY <1>2, <2>5, <3>2
           DEF Execution, TakeSession, TakeMemory, MemoryBusy, Count, Remember, Observe,
               LogExecution, End, Save, Close, Note, NoteBegin, NoteLog, NoteEnd, Abandon, Goto,
               Dropped
      <4> QED BY <2>1, <2>2, <2>5, <4>1, <4>2 DEF TraceFollowsMemory, InStep
    <3> QED BY <3>1, <3>2
  <2> QED BY <2>4, <2>5
<1>3. CASE Recovery
  <2>1. UNCHANGED <<trace, short, pc, local>>
    BY <1>3 DEF Recovery, Snapshot, Mark, Skip
  <2>2. ASSUME NEW i \in RunIds, run'[i].status # "absent"
        PROVE  run'[i].memory = run[i].memory /\ run[i].status # "absent"
    <3>1. ASSUME NEW j \in RunIds, Mark(j)
          PROVE  run'[i].memory = run[i].memory /\ run[i].status # "absent"
      <4>1. run[j].status # "absent" BY <3>1 DEF Mark, Known
      <4> QED BY <2>2, <3>1, <4>1 DEF Mark, RunRecord
    <3>2. CASE run' = run BY <2>2, <3>2
    <3> QED BY <1>3, <3>1, <3>2 DEF Recovery, Snapshot, Skip
  <2> QED BY <1>0, <2>1, <2>2 DEF TraceFollowsMemory, InStep
<1>4. CASE UNCHANGED vars
  BY <1>0, <1>4 DEF vars, TraceFollowsMemory, InStep
<1> QED BY <1>2, <1>3, <1>4 DEF Next

-----------------------------------------------------------------------------
(* Session counts.                                                         *)

\* A session's bounds survive a step that neither counts nor records a run in it.
LEMMA BoundsKept ==
  ASSUME IInv, NEW s \in Sessions, Recorded(s)' = Recorded(s), Terminal(s)' \subseteq Terminal(s),
         session'[s].run_count = session[s].run_count
  PROVE  /\ Counted(s)'
         /\ Cardinality(Terminal(s)') <= Cardinality(Terminal(s))
<1>1. IsFiniteSet(Recorded(s)) /\ Counted(s)
  BY DEF IInv, Counted
<1>2. IsFiniteSet(Terminal(s))
  BY <1>1, FS_Subset DEF Terminal
<1>3. /\ Cardinality(Terminal(s)) \in Nat /\ Cardinality(Terminal(s)') \in Nat
      /\ Cardinality(Terminal(s)') <= Cardinality(Terminal(s))
  BY <1>2, FS_Subset, FS_CardinalityType
<1>4. session[s].run_count \in Nat
  BY DEF IInv, TypeOK, SessionRecord
<1> QED BY <1>1, <1>3, <1>4 DEF Counted

\* The sizes the counts lie between are numbers, and the smaller set is in the larger.
LEMMA Sizes ==
  ASSUME IInv, NEW s \in Sessions
  PROVE  /\ IsFiniteSet(Recorded(s)) /\ IsFiniteSet(Terminal(s))
         /\ Cardinality(Recorded(s)) \in Nat /\ Cardinality(Terminal(s)) \in Nat
         /\ session[s].run_count \in Nat
<1>1. IsFiniteSet(Recorded(s))
  BY DEF IInv, Counted
<1>2. IsFiniteSet(Terminal(s))
  BY <1>1, FS_Subset DEF Terminal
<1> QED BY <1>1, <1>2, FS_CardinalityType DEF IInv, TypeOK, SessionRecord

\* Recording, counting and ending a run keep the bounds of every session.
LEMMA CountedStep ==
  ASSUME IInv, [Next]_vars
  PROVE  (\A s \in Sessions : Counted(s)') /\ \A q \in Procs : Margin(q)'
<1> USE SentinelAssumption DEF IInv, TypeOK, files, locks, memory, Owning, Executing
<1>0. /\ \A q \in Procs : Locked(q) /\ Loaded(q) /\ Owned(q) /\ Margin(q)
      /\ \A s \in Sessions : Counted(s)
  OBVIOUS
<1>1. ASSUME NEW p \in Procs, Execution(p) \/ Note(p) \/ Abandon(p)
      PROVE  (\A s \in Sessions : Counted(s)') /\ \A q \in Procs : Margin(q)'
  <2>1. ASSUME NEW i \in RunIds, Record(p, i)
        PROVE  (\A s \in Sessions : Counted(s)') /\ \A q \in Procs : Margin(q)'
    <3>0. PICK s \in Sessions : s = local[p].session
      BY <1>0, <2>1 DEF Record, Locked
    <3>1. /\ run[i] = NoRecord /\ run'[i].session = s /\ run'[i].status = "running"
          /\ session' = session /\ \A j \in RunIds \ {i} : run'[j] = run[j]
      BY <2>1, <3>0 DEF Record, Known
    <3>2. Recorded(s)' = Recorded(s) \cup {i} /\ i \notin Recorded(s)
      BY <3>1 DEF Recorded, NoRecord
    <3>3. ASSUME NEW t \in Sessions PROVE Terminal(t)' = Terminal(t)
      <4>1. run[i].session # t
        BY <3>1 DEF NoRecord
      <4> QED BY <3>1, <4>1 DEF Recorded, Terminal
    <3>4. ASSUME NEW t \in Sessions \ {s} PROVE Recorded(t)' = Recorded(t)
      <4>1. run[i].session # t
        BY <3>1 DEF NoRecord
      <4> QED BY <3>1, <4>1 DEF Recorded
    <3>5. /\ Cardinality(Recorded(s)') = Cardinality(Recorded(s)) + 1
          /\ IsFiniteSet(Recorded(s)')
      BY <3>2, Sizes, FS_AddElement
    <3>6. Counted(s) BY <1>0
    <3>7. session[s].run_count < Cardinality(Recorded(s)')
      BY <3>5, <3>6, Sizes DEF Counted
    <3>8. Counted(s)'
      BY <3>1, <3>3, <3>5, <3>6, Sizes DEF Counted
    <3>9. \A t \in Sessions \ {s} : Counted(t)'
      BY <3>1, <3>3, <3>4, BoundsKept
    <3>10. Margin(p)'
      <4>1. pc'[p] = "recorded" /\ local'[p].session = s
        BY <2>1, <3>0 DEF Record, Goto, Local
      <4> QED BY <3>1, <3>7, <4>1 DEF Margin
    <3>11. ASSUME NEW q \in Procs, q # p, pc[q] \in Owning PROVE Margin(q)'
      <4>1. pc'[q] = pc[q] /\ local'[q] = local[q]
        BY <2>1, <3>11 DEF Record, Goto
      <4>2. local[q].session \in Sessions \ {s}
        BY <1>0, <2>1, <3>0, <3>11 DEF Locked, Record
      <4> QED BY <1>0, <3>1, <3>3, <3>4, <4>1, <4>2 DEF Margin
    <3>12. ASSUME NEW q \in Procs, q # p, pc[q] \notin Owning PROVE Margin(q)'
      BY <2>1, <3>12 DEF Record, Goto, Margin
    <3> QED BY <3>8, <3>9, <3>10, <3>11, <3>12
  <2>2. CASE Count(p)
    <3>0. PICK s \in Sessions : s = local[p].session
      BY <1>0, <2>2 DEF Count, Locked
    <3>1. /\ run' = run /\ session'[s].run_count = session[s].run_count + 1
          /\ \A t \in Sessions \ {s} : session'[t] = session[t]
      BY <2>2, <3>0 DEF Count
    <3>2. \A t : Recorded(t)' = Recorded(t) /\ Terminal(t)' = Terminal(t)
      BY <3>1 DEF Recorded, Terminal
    <3>3. session[s].run_count < Cardinality(Recorded(s)) /\ Counted(s)
      BY <1>0, <2>2, <3>0 DEF Margin, Count
    <3>4. Counted(s)' /\ Cardinality(Terminal(s)') < session'[s].run_count
      BY <3>1, <3>2, <3>3, Sizes DEF Counted
    <3>5. \A t \in Sessions \ {s} : Counted(t)'
      BY <3>1, <3>2, BoundsKept
    <3>6. Margin(p)'
      <4>1. pc'[p] = "executing" /\ local'[p].session = s
        BY <2>2, <3>0 DEF Count, Goto, Local
      <4> QED BY <3>4, <4>1 DEF Margin
    <3>7. ASSUME NEW q \in Procs, q # p, pc[q] \in Owning PROVE Margin(q)'
      <4>1. pc'[q] = pc[q] /\ local'[q] = local[q]
        BY <2>2, <3>7 DEF Count, Goto
      <4>2. local[q].session \in Sessions \ {s}
        BY <1>0, <2>2, <3>0, <3>7 DEF Locked, Count
      <4> QED BY <1>0, <3>1, <3>2, <4>1, <4>2 DEF Margin
    <3>8. ASSUME NEW q \in Procs, q # p, pc[q] \notin Owning PROVE Margin(q)'
      BY <2>2, <3>8 DEF Count, Goto, Margin
    <3> QED BY <3>4, <3>5, <3>6, <3>7, <3>8
  <2>3. CASE Save(p)
    <3>0. PICK s \in Sessions, i \in RunIds : s = local[p].session /\ i = local[p].run
      BY <1>0, <2>3 DEF Save, Locked, Owned
    <3>1. /\ run[i].session = s /\ run'[i].session = s /\ session' = session
          /\ \A j \in RunIds \ {i} : run'[j] = run[j]
      BY <1>0, <2>3, <3>0 DEF Save, Owned, RunRecord
    <3>2. \A t \in Sessions : Recorded(t)' = Recorded(t)
      BY <3>1 DEF Recorded
    <3>3. \A t \in Sessions \ {s} : Terminal(t)' = Terminal(t)
      BY <3>1 DEF Recorded, Terminal
    <3>4. Terminal(s)' \subseteq Terminal(s) \cup {i}
      BY <3>1 DEF Recorded, Terminal
    <3>5. Cardinality(Terminal(s)') <= Cardinality(Terminal(s)) + 1
          /\ Cardinality(Terminal(s)') \in Nat
      <4>1. /\ IsFiniteSet(Terminal(s) \cup {i})
            /\ Cardinality(Terminal(s) \cup {i}) <= Cardinality(Terminal(s)) + 1
            /\ Cardinality(Terminal(s) \cup {i}) \in Nat
        <5>1. /\ IsFiniteSet(Terminal(s) \cup {i})
              /\ Cardinality(Terminal(s) \cup {i}) =
                   IF i \in Terminal(s) THEN Cardinality(Terminal(s))
                                       ELSE Cardinality(Terminal(s)) + 1
          BY Sizes, FS_AddElement
        <5>2. Cardinality(Terminal(s)) \in Nat
          BY Sizes
        <5> QED BY <5>1, <5>2
      <4>2. /\ IsFiniteSet(Terminal(s)')
            /\ Cardinality(Terminal(s)') <= Cardinality(Terminal(s) \cup {i})
        BY <3>4, <4>1, FS_Subset
      <4>3. Cardinality(Terminal(s)') \in Nat
        BY <4>2, FS_CardinalityType
      <4> QED BY <4>1, <4>2, <4>3, Sizes
    <3>6. Cardinality(Terminal(s)) < session[s].run_count /\ Counted(s)
      BY <1>0, <2>3, <3>0 DEF Margin, Save
    <3>7. Counted(s)'
      BY <3>1, <3>2, <3>5, <3>6, Sizes DEF Counted
    <3>8. \A t \in Sessions \ {s} : Counted(t)'
      BY <3>1, <3>2, <3>3, BoundsKept
    <3>9. Margin(p)'
      BY <2>3 DEF Save, Goto, Margin
    <3>10. ASSUME NEW q \in Procs, q # p, pc[q] \in Owning PROVE Margin(q)'
      <4>1. pc'[q] = pc[q] /\ local'[q] = local[q]
        BY <2>3, <3>10 DEF Save, Goto
      <4>2. local[q].session \in Sessions \ {s}
        BY <1>0, <2>3, <3>0, <3>10 DEF Locked, Save
      <4> QED BY <1>0, <3>1, <3>2, <3>3, <4>1, <4>2 DEF Margin
    <3>11. ASSUME NEW q \in Procs, q # p, pc[q] \notin Owning PROVE Margin(q)'
      BY <2>3, <3>11 DEF Save, Goto, Margin
    <3> QED BY <3>7, <3>8, <3>9, <3>10, <3>11
  <2>4. CASE ~(Count(p) \/ Save(p) \/ \E i \in RunIds : Record(p, i))
    <3>1. run' = run
      BY <1>1, <2>4
         DEF Execution, TakeSession, TakeMemory, MemoryBusy, Remember, Observe, LogExecution, End,
             Close, Note, NoteBegin, NoteLog, NoteEnd, Abandon
    <3>2. \A t : Recorded(t)' = Recorded(t) /\ Terminal(t)' = Terminal(t)
      BY <3>1 DEF Recorded, Terminal
    <3>3. \A t \in Sessions : session'[t].run_count = session[t].run_count
      <4>1. CASE Close(p)
        <5>1. local[p].copy = session[local[p].session]
          BY <1>0, <4>1 DEF Close, Loaded
        <5> QED BY <4>1, <5>1 DEF Close
      <4>2. CASE NoteEnd(p)
        <5>1. /\ local[p].copy = [session[local[p].session] EXCEPT !.exists = TRUE]
              /\ local[p].session \in Sessions
          BY <1>0, <4>2 DEF NoteEnd, Loaded, Locked
        <5>2. local[p].copy.run_count = session[local[p].session].run_count
          BY <5>1 DEF SessionRecord
        <5> QED BY <4>2, <5>1, <5>2 DEF NoteEnd
      <4>3. CASE ~(Close(p) \/ NoteEnd(p))
        BY <1>1, <2>4, <4>3
           DEF Execution, TakeSession, TakeMemory, MemoryBusy, Remember, Observe, LogExecution,
               End, Note, NoteBegin, NoteLog, Abandon
      <4> QED BY <4>1, <4>2, <4>3
    <3>4. \A t \in Sessions : Counted(t)'
      BY <3>2, <3>3, BoundsKept
    <3>5. ASSUME NEW q \in Procs, q # p PROVE Margin(q)'
      <4>1. pc'[q] = pc[q] /\ local'[q] = local[q]
        BY <1>1, <3>5, Frame DEF Untouched
      <4>2. pc[q] \in Owning => local[q].session \in Sessions
        BY <1>0, <3>5 DEF Locked
      <4> QED BY <1>0, <3>2, <3>3, <4>1, <4>2 DEF Margin
    <3>6. Margin(p)'
      <4>1. \/ pc'[p] \notin {"recorded", "executing", "observing", "ended"}
            \/ /\ pc[p] \in {"executing", "observing"} /\ pc'[p] \in Executing
               /\ local'[p].session = local[p].session
        <5>1. CASE Remember(p) BY <5>1 DEF Remember, Goto, Local
        <5>2. CASE Observe(p) BY <5>2 DEF Observe, Goto
        <5>3. CASE LogExecution(p) BY <5>3 DEF LogExecution, Local
        <5>4. ASSUME NEW status \in Results \cup {"failed"}, End(p, status) PROVE <4>1
          BY <5>4 DEF End, Goto, Local
        <5>5. CASE ~(Remember(p) \/ Observe(p) \/ LogExecution(p)
                     \/ \E status \in Results \cup {"failed"} : End(p, status))
          BY <1>1, <2>4, <5>5
             DEF Execution, TakeSession, TakeMemory, MemoryBusy, Close, Note, NoteBegin, NoteLog,
                 NoteEnd, Abandon, Goto, Dropped
        <5> QED BY <5>1, <5>2, <5>3, <5>4, <5>5
      <4>2. pc[p] \in Owning => local[p].session \in Sessions
        BY <1>0 DEF Locked
      <4> QED BY <1>0, <3>2, <3>3, <4>1, <4>2 DEF Margin
    <3> QED BY <3>4, <3>5, <3>6
  <2> QED BY <2>1, <2>2, <2>3, <2>4
<1>2. CASE Recovery
  <2>1. UNCHANGED <<session, pc, local>>
    BY <1>2 DEF Recovery, Snapshot, Mark, Skip
  <2>2. ASSUME NEW s \in Sessions PROVE Recorded(s)' = Recorded(s) /\ Terminal(s)' \subseteq Terminal(s)
    <3>1. ASSUME NEW i \in RunIds, Mark(i)
          PROVE  Recorded(s)' = Recorded(s) /\ Terminal(s)' \subseteq Terminal(s)
      <4>1. /\ run'[i].session = run[i].session /\ run'[i].status = "interrupted"
            /\ \A j \in RunIds \ {i} : run'[j] = run[j]
        BY <3>1 DEF Mark, RunRecord
      <4> QED BY <4>1 DEF Recorded, Terminal
    <3>2. CASE run' = run BY <3>2 DEF Recorded, Terminal
    <3> QED BY <1>2, <3>1, <3>2 DEF Recovery, Snapshot, Skip
  <2>3. \A s \in Sessions : Counted(s)' /\ Cardinality(Terminal(s)') <= Cardinality(Terminal(s))
    BY <2>1, <2>2, BoundsKept
  <2>4. ASSUME NEW q \in Procs PROVE Margin(q)'
    <3>1. CASE pc[q] \in Owning
      <4>0. PICK s \in Sessions : s = local[q].session
        BY <1>0, <3>1 DEF Locked
      <4>1. IsFiniteSet(Terminal(s)') /\ Cardinality(Terminal(s)') \in Nat
        BY <2>2, Sizes, FS_Subset, FS_CardinalityType
      <4>2. Cardinality(Terminal(s)') <= Cardinality(Terminal(s))
        BY <2>3
      <4> QED BY <1>0, <2>1, <2>2, <4>0, <4>1, <4>2, Sizes DEF Margin
    <3> QED BY <2>1, <3>1 DEF Margin
  <2> QED BY <2>3, <2>4
<1>3. CASE UNCHANGED vars
  <2>1. \A s : Recorded(s)' = Recorded(s) /\ Terminal(s)' = Terminal(s)
    BY <1>3 DEF vars, Recorded, Terminal
  <2> QED BY <1>0, <1>3, <2>1 DEF vars, Counted, Margin
<1> QED BY <1>1, <1>2, <1>3 DEF Next

-----------------------------------------------------------------------------
(* The theorems.                                                           *)

\* The parts together are inductive.
LEMMA Inductive == ASSUME IInv, [Next]_vars PROVE IInv'
<1>1. ASSUME NEW q \in Procs PROVE Locked(q)' /\ Loaded(q)' /\ Owned(q)'
  <2>1. CASE \E p \in Procs : Execution(p) \/ Note(p) \/ Abandon(p)
    BY <2>1, <1>1, Frame, HeldStays, HeldStep
  <2>2. CASE Recovery
    <3>1. Untouched(q)
      <4>1. ASSUME NEW i \in RunIds, Mark(i) PROVE Untouched(q)
        <5>1. slock[run[i].session] # q
          BY <4>1, SentinelAssumption DEF Mark, Markable, SessionFree
        <5> QED BY <4>1, <5>1 DEF IInv, TypeOK, Mark, Untouched, locks, memory
      <4>2. CASE UNCHANGED <<files, locks, pc, local>>
        BY <4>2 DEF Untouched, files, locks, memory
      <4> QED BY <2>2, <4>1, <4>2 DEF Recovery, Snapshot, Skip
    <3> QED BY <1>1, <3>1, HeldStays
  <2>3. CASE UNCHANGED vars
    <3>1. Untouched(q)
      BY <2>3 DEF vars, Untouched, files, locks, memory
    <3> QED BY <1>1, <3>1, HeldStays
  <2> QED BY <2>1, <2>2, <2>3 DEF Next
<1> QED BY <1>1, TypeStep, KnownStep, InStepStep, CountedStep DEF IInv

\* The parts hold in every state a specification's behaviour reaches.
THEOREM IInvariant == Spec => []IInv
<1>1. IInv /\ [Next]_vars => IInv'
  BY Inductive
<1> QED BY <1>1, InitIInv, PTL DEF Spec

\* The files, the leases and the processes keep their shapes.
THEOREM TypeCorrect == Spec => []TypeOK
<1>1. IInv => TypeOK
  BY DEF IInv
<1> QED BY <1>1, IInvariant, PTL

\* Recovery leaves the record of a run in execution running: the session's lease it would
\* need is held, whatever its snapshot says.
THEOREM CurrentRunsSafe == Spec => []CurrentLeftAlone
<1>1. IInv => CurrentLeftAlone
  BY DEF IInv, Owned, CurrentLeftAlone, Current, Owning, Executing
<1> QED BY <1>1, IInvariant, PTL

\* The trace of a run, the events its memory file holds of it, and the count of its session
\* agree in every state, wherever processes died.
THEOREM FilesCoherent == Spec => []FilesAgree
<1>1. IInv => FilesAgree
  <2> SUFFICES ASSUME IInv PROVE CountsAreRecords
    BY DEF IInv, FilesAgree
  <2>1. ASSUME NEW s \in Sessions
        PROVE  session[s].run_count \in Cardinality(Terminal(s)) .. Cardinality(Recorded(s))
    BY <2>1, Sizes DEF IInv, Counted
  <2>2. \A s : Terminal(s) = Recorded(s) \
                 {i \in Recorded(s) : run[i].status \in {"running", "interrupted"}}
    BY DEF Terminal
  <2> QED BY <2>1, <2>2 DEF CountsAreRecords, Recorded
<1> QED BY <1>1, IInvariant, PTL

-----------------------------------------------------------------------------
(* Nothing is forgotten.                                                   *)

\* A sequence is a prefix of itself and of what extends it by an entry.
LEMMA PrefixOfAppend ==
  ASSUME NEW S, NEW e \in Seq(S), NEW x \in S
  PROVE  IsPrefix(e, e) /\ IsPrefix(e, Append(e, x))
<1>1. IsPrefix(e, e)
  BY DEF IsPrefix
<1>2. Append(e, x) \in Seq(S) /\ Len(Append(e, x)) = Len(e) + 1
  OBVIOUS
<1>3. SubSeq(e, 1, Len(e)) = SubSeq(Append(e, x), 1, Len(e))
  OBVIOUS
<1> QED BY <1>1, <1>2, <1>3 DEF IsPrefix

\* A step leaves a memory file as it is or adds one entry to it: whoever replaces the file
\* has read what it holds, and holds its lease since.
LEMMA MemoryStep ==
  ASSUME IInv, [Next]_vars, NEW m \in Memories
  PROVE  IsPrefix(short[m], short'[m]) /\ IsPrefix(long[m], long'[m])
<1> USE DEF IInv, TypeOK, files, locks, memory, Owning, Executing
<1>0. \A p \in Procs : Locked(p) /\ Loaded(p) /\ Owned(p)
  OBVIOUS
<1>1. short[m] \in Seq(RunIds) /\ long[m] \in Seq(RunIds \cup {UserNote})
  OBVIOUS
<1>2. IsPrefix(short[m], short[m]) /\ IsPrefix(long[m], long[m])
  BY <1>1 DEF IsPrefix
<1>3. ASSUME NEW p \in Procs, Remember(p) PROVE IsPrefix(short[m], short'[m]) /\ long' = long
  <2>1. /\ local[p].events = short[local[p].memory] /\ local[p].run \in RunIds
        /\ local[p].memory \in Memories
    BY <1>0, <1>3 DEF Remember, Locked, Loaded, Owned
  <2>2. short' = [short EXCEPT ![local[p].memory] = Append(short[local[p].memory], local[p].run)]
    BY <1>3, <2>1 DEF Remember
  <2>3. IsPrefix(short[m], Append(short[m], local[p].run))
    BY <1>1, <2>1, PrefixOfAppend
  <2>4. short'[m] = short[m] \/ short'[m] = Append(short[m], local[p].run)
    BY <2>1, <2>2
  <2> QED BY <1>2, <1>3, <2>3, <2>4 DEF Remember
<1>4. ASSUME NEW p \in Procs, LogExecution(p) \/ NoteLog(p)
      PROVE  short' = short /\ IsPrefix(long[m], long'[m])
  <2>1. local[p].logs = long[local[p].memory] /\ local[p].memory \in Memories
    BY <1>0, <1>4 DEF LogExecution, NoteLog, Locked, Loaded
  <2>2. PICK e \in RunIds \cup {UserNote} :
          long' = [long EXCEPT ![local[p].memory] = Append(long[local[p].memory], e)]
    <3>1. CASE LogExecution(p)
      <4>1. local[p].run \in RunIds
        BY <1>0, <3>1 DEF LogExecution, Owned
      <4>2. local'[p].logs = Append(local[p].logs, local[p].run)
        BY <3>1 DEF LogExecution, Local
      <4> QED BY <2>1, <3>1, <4>1, <4>2 DEF LogExecution
    <3>2. CASE NoteLog(p)
      BY <2>1, <3>2 DEF NoteLog
    <3> QED BY <1>4, <3>1, <3>2
  <2>3. IsPrefix(long[m], Append(long[m], e))
    BY <1>1, PrefixOfAppend
  <2>4. long'[m] = long[m] \/ long'[m] = Append(long[m], e)
    BY <2>1, <2>2
  <2> QED BY <1>2, <1>4, <2>3, <2>4 DEF LogExecution, NoteLog
<1>5. CASE ~\E p \in Procs : Remember(p) \/ LogExecution(p) \/ NoteLog(p)
  <2>1. short' = short /\ long' = long
    BY <1>5 DEF Next, vars, Execution, TakeSession, TakeMemory, MemoryBusy, Record, Count,
                Observe, End, Save, Close, Note, NoteBegin, NoteEnd, Abandon, Recovery, Snapshot,
                Mark, Skip
  <2> QED BY <1>2, <2>1
<1> QED BY <1>2, <1>3, <1>4, <1>5

\* A memory file only grows, whichever sessions share it and whoever dies between reading
\* and replacing it.
THEOREM NothingIsForgotten == Spec => NothingForgotten
<1>1. IInv /\ [Next]_vars =>
        [\A m \in Memories : IsPrefix(short[m], short'[m]) /\ IsPrefix(long[m], long'[m])]_memory
  BY MemoryStep
<1> QED BY <1>1, IInvariant, PTL DEF Spec, NothingForgotten

=============================================================================
