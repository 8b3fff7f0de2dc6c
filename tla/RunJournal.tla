----------------------------- MODULE RunJournal -----------------------------
(***************************************************************************)
(* The run journal (run_internal and remember_note in src/runtime.rs, the  *)
(* leases of src/storage.rs, Memory in crates/memory, and the journal half *)
(* of recover_interrupted in src/jobs.rs).  Several processes (CLI runs,   *)
(* the job runner, notes) share a state directory; each execution holds    *)
(* its session's lock and its memory directory's lock, writes run.json,    *)
(* session.json, the memory files and the trace one after the other, and   *)
(* may die or give up with an error between any two writes.  A starting    *)
(* runner looks for abandoned records while others execute.                *)
(***************************************************************************)
EXTENDS Integers, Sequences, SequencesExt, FiniteSets

CONSTANTS
  Procs,                 \* processes that run instructions or write notes
  Sessions,
  Memories,              \* memory directories
  DefaultMemory,         \* DefaultMemory[s]: where s keeps its memory unless told otherwise
  Directories,           \* bound: the directories requests of s may name (--memory-dir)
  RunIds,                \* bound: the run ids that may be drawn
  Results,               \* the statuses an execution may end with
  MaxEvents,             \* bound: events one run remembers
  MaxLogs                \* bound: entries of one long-term log

Nobody == "nobody"       \* a lock nobody holds
NoRun == "none"
UserNote == "note"       \* a long-term entry that is not a run's

ASSUME JournalAssumption ==
  /\ DefaultMemory \in [Sessions -> Memories]
  /\ Directories \in [Sessions -> SUBSET Memories]
  /\ Results \subseteq {"completed", "failed", "cancelled", "timed_out"}
  /\ MaxEvents \in Nat /\ MaxLogs \in Nat

ASSUME SentinelAssumption ==
  /\ Nobody \notin Procs /\ {NoRun, UserNote} \cap RunIds = {}
  /\ "none" \notin Sessions \cup Memories

VARIABLES
  run,                   \* run[i]: runs/i/run.json
  trace,                 \* trace[i]: complete lines of runs/i/events.jsonl
  session,               \* session[s]: sessions/s/session.json
  short,                 \* short[m]: the events of m/short_term.json, as their run's id
  long,                  \* long[m]: the entries of m/long_term.md, likewise
  slock, mlock,          \* holders of .session.lock and of .writer.lock
  pc,                    \* pc[p]: how far process p got
  local,                 \* local[p]: what p keeps in memory
  rec                    \* the snapshot of a recovery in progress

memory == <<short, long>>
files == <<run, trace, session, memory>>
locks == <<slock, mlock>>
vars == <<files, locks, pc, local, rec>>

Statuses == {"absent", "running", "completed", "failed", "cancelled", "timed_out",
             "interrupted"}
RunRecord == [status : Statuses, session : Sessions \cup {"none"},
              memory : Memories \cup {"none"}]
SessionRecord == [exists : BOOLEAN, run_count : Nat, last_run_id : RunIds \cup {NoRun},
                  memory_dir : Memories]
Places == {"idle", "session", "memory", "recorded", "executing", "observing",
           "ended", "saved", "noting", "noted"}
Unread == [exists |-> FALSE, run_count |-> 0, last_run_id |-> NoRun, memory_dir |-> "none"]
\* The process's arguments and its in-memory copies of the session and memory files.
Local == [run : RunIds \cup {NoRun}, session : Sessions \cup {"none"},
          memory : Memories \cup {"none"}, copy : SessionRecord \cup {Unread},
          events : Seq(RunIds), logs : Seq(RunIds \cup {UserNote}),
          status : Results \cup {"failed", "none"}]

NoRecord == [status |-> "absent", session |-> "none", memory |-> "none"]
Fresh == [run |-> NoRun, session |-> "none", memory |-> "none", copy |-> Unread,
          events |-> <<>>, logs |-> <<>>, status |-> "none"]

Init ==
  /\ run = [i \in RunIds |-> NoRecord]
  /\ trace = [i \in RunIds |-> 0]
  /\ session = [s \in Sessions |-> [Unread EXCEPT !.memory_dir = DefaultMemory[s]]]
  /\ short = [m \in Memories |-> <<>>]
  /\ long = [m \in Memories |-> <<>>]
  /\ slock = [s \in Sessions |-> Nobody]
  /\ mlock = [m \in Memories |-> Nobody]
  /\ pc = [p \in Procs |-> "idle"]
  /\ local = [p \in Procs |-> Fresh]
  /\ rec = {}

-----------------------------------------------------------------------------
(* Leases: try_lock_exclusive on a file, dropped with the process.         *)

SessionFree(s) == slock[s] = Nobody

\* Mutant: the lock is not looked at.
MemoryFreeIgnored(m) == TRUE
MemoryFree(m) == mlock[m] = Nobody

\* The process's leases go out of scope, at its end or by its death.
Dropped(p) ==
  /\ slock' = [s \in Sessions |-> IF slock[s] = p THEN Nobody ELSE slock[s]]
  /\ mlock' = [m \in Memories |-> IF mlock[m] = p THEN Nobody ELSE mlock[m]]
  /\ local' = [local EXCEPT ![p] = Fresh]
  /\ pc' = [pc EXCEPT ![p] = "idle"]

Goto(p, place) == pc' = [pc EXCEPT ![p] = place]

-----------------------------------------------------------------------------
(* run_internal.                                                           *)

\* The session lease; then memory_path, or the directory --memory-dir names.
TakeSession(p, s, m) ==
  /\ pc[p] = "idle"
  /\ m \in Directories[s] \cup {session[s].memory_dir}
  /\ SessionFree(s)
  /\ slock' = [slock EXCEPT ![s] = p]
  /\ local' = [local EXCEPT ![p].session = s, ![p].memory = m]
  /\ Goto(p, "session")
  /\ UNCHANGED <<files, mlock, rec>>

\* The memory lease: taken, or busy, which ends the attempt before any record exists.
TakeMemory(p) ==
  /\ pc[p] = "session"
  /\ MemoryFree(local[p].memory)
  /\ mlock' = [mlock EXCEPT ![local[p].memory] = p]
  /\ Goto(p, "memory")
  /\ UNCHANGED <<files, slock, local, rec>>

MemoryBusy(p) ==
  /\ pc[p] = "session"
  /\ ~MemoryFree(local[p].memory)
  /\ Dropped(p)
  /\ UNCHANGED <<files, rec>>

\* create_dir of a fresh id, then run.json with status running.
Record(p, i) ==
  /\ pc[p] = "memory"
  /\ run[i].status = "absent"
  /\ run' = [run EXCEPT ![i] = [status |-> "running", session |-> local[p].session,
                                memory |-> local[p].memory]]
  /\ local' = [local EXCEPT ![p].run = i]
  /\ Goto(p, "recorded")
  /\ UNCHANGED <<trace, session, memory, locks, rec>>

\* session.json: one more run, this one the last.  Then Memory::new loads both files: from
\* here on the process writes its own copies of the three.
Count(p) ==
  LET s == local[p].session
      next == [exists |-> TRUE, run_count |-> session[s].run_count + 1,
               last_run_id |-> local[p].run, memory_dir |-> local[p].memory]
  IN  /\ pc[p] = "recorded"
      /\ session' = [session EXCEPT ![s] = next]
      /\ local' = [local EXCEPT ![p].copy = next,
                                ![p].events = short[local[p].memory],
                                ![p].logs = long[local[p].memory]]
      /\ Goto(p, "executing")
      /\ UNCHANGED <<run, trace, memory, locks, rec>>

Of(i, entries) == Cardinality({k \in DOMAIN entries : entries[k] = i})

\* remember_event: push, replace the whole file, and only then tell the observer.
Remember(p) ==
  /\ pc[p] = "executing"
  /\ Of(local[p].run, local[p].events) < MaxEvents
  /\ local' = [local EXCEPT ![p].events = Append(@, local[p].run)]
  /\ short' = [short EXCEPT ![local[p].memory] = local'[p].events]
  /\ Goto(p, "observing")
  /\ UNCHANGED <<run, trace, session, long, locks, rec>>

\* The observer of run_internal appends one line to the trace.
Observe(p) ==
  /\ pc[p] = "observing"
  /\ trace' = [trace EXCEPT ![local[p].run] = @ + 1]
  /\ Goto(p, "executing")
  /\ UNCHANGED <<run, session, memory, locks, local, rec>>

\* remember_log: push and replace the whole file.
LogExecution(p) ==
  /\ pc[p] = "executing"
  /\ Len(local[p].logs) < MaxLogs
  /\ local' = [local EXCEPT ![p].logs = Append(@, local[p].run)]
  /\ long' = [long EXCEPT ![local[p].memory] = local'[p].logs]
  /\ UNCHANGED <<run, trace, session, short, locks, pc, rec>>

\* The gateway returns a status, or an error (the observer's too), recorded as failed.
End(p, status) ==
  /\ \/ pc[p] = "executing" /\ status \in Results
     \/ pc[p] \in {"executing", "observing"} /\ status = "failed"
  /\ local' = [local EXCEPT ![p].status = status]
  /\ Goto(p, "ended")
  /\ UNCHANGED <<files, locks, rec>>

Save(p) ==
  /\ pc[p] = "ended"
  /\ run' = [run EXCEPT ![local[p].run].status = local[p].status]
  /\ Goto(p, "saved")
  /\ UNCHANGED <<trace, session, memory, locks, local, rec>>

\* session.json again, from the process's copy; then both leases are dropped.
Close(p) ==
  /\ pc[p] = "saved"
  /\ session' = [session EXCEPT ![local[p].session] = local[p].copy]
  /\ Dropped(p)
  /\ UNCHANGED <<run, trace, memory, rec>>

-----------------------------------------------------------------------------
(* remember_note: both leases, the long-term log, then session.json.       *)

\* Mutant: a note takes the memory lease only.
NoteWithoutSession(p, s) == slock' = slock
NoteTakesSession(p, s) == SessionFree(s) /\ slock' = [slock EXCEPT ![s] = p]

NoteBegin(p, s) ==
  LET m == session[s].memory_dir
  IN  /\ pc[p] = "idle"
      /\ Len(long[m]) < MaxLogs
      /\ NoteTakesSession(p, s)
      /\ MemoryFree(m) /\ mlock' = [mlock EXCEPT ![m] = p]
      /\ local' = [local EXCEPT ![p].session = s, ![p].memory = m, ![p].logs = long[m]]
      /\ Goto(p, "noting")
      /\ UNCHANGED <<files, rec>>

\* The log is replaced, and the session read.
NoteLog(p) ==
  /\ pc[p] = "noting"
  /\ long' = [long EXCEPT ![local[p].memory] = Append(local[p].logs, UserNote)]
  /\ local' = [local EXCEPT ![p].copy = [session[local[p].session] EXCEPT !.exists = TRUE]]
  /\ Goto(p, "noted")
  /\ UNCHANGED <<run, trace, session, short, locks, rec>>

NoteEnd(p) ==
  /\ pc[p] = "noted"
  /\ session' = [session EXCEPT ![local[p].session] = local[p].copy]
  /\ Dropped(p)
  /\ UNCHANGED <<run, trace, memory, rec>>

\* Death, or an error of a read, write or lock: `?` leaves the files as they are.
Abandon(p) ==
  /\ pc[p] # "idle"
  /\ Dropped(p)
  /\ UNCHANGED <<files, rec>>

-----------------------------------------------------------------------------
(* The journal half of recover_interrupted, run by a starting runner.      *)

\* store.runs(): what the records said when they were read.
Snapshot ==
  /\ rec = {}
  /\ rec' = {i \in RunIds : run[i].status = "running"}
  /\ UNCHANGED <<files, locks, pc, local>>

\* Mutant: the session's lock is not tried.
MarkableAlways(i) == TRUE
Markable(i) == SessionFree(run[i].session)

\* With the session lock at hand the record read earlier is written back, interrupted.
Mark(i) ==
  /\ i \in rec
  /\ Markable(i)
  /\ run' = [run EXCEPT ![i].status = "interrupted"]
  /\ rec' = rec \ {i}
  /\ UNCHANGED <<trace, session, memory, locks, pc, local>>

\* The lock is held: the record is left alone.  The runner may also die here.
Skip(i) ==
  /\ i \in rec
  /\ rec' = rec \ {i}
  /\ UNCHANGED <<files, locks, pc, local>>

-----------------------------------------------------------------------------
Execution(p) ==
  \/ \E s \in Sessions, m \in Memories : TakeSession(p, s, m)
  \/ TakeMemory(p) \/ MemoryBusy(p)
  \/ \E i \in RunIds : Record(p, i)
  \/ Count(p) \/ Remember(p) \/ Observe(p) \/ LogExecution(p)
  \/ \E status \in Results \cup {"failed"} : End(p, status)
  \/ Save(p) \/ Close(p)

Note(p) == (\E s \in Sessions : NoteBegin(p, s)) \/ NoteLog(p) \/ NoteEnd(p)

Recovery == Snapshot \/ \E i \in RunIds : Mark(i) \/ Skip(i)

Next == (\E p \in Procs : Execution(p) \/ Note(p) \/ Abandon(p)) \/ Recovery

Spec == Init /\ [][Next]_vars

-----------------------------------------------------------------------------
(* Properties.                                                             *)

\* Every record keeps its shape, and what a process may write is what it locked.
TypeOK ==
  /\ run \in [RunIds -> RunRecord]
  /\ trace \in [RunIds -> Nat]
  /\ session \in [Sessions -> SessionRecord]
  /\ short \in [Memories -> Seq(RunIds)]
  /\ long \in [Memories -> Seq(RunIds \cup {UserNote})]
  /\ slock \in [Sessions -> Procs \cup {Nobody}]
  /\ mlock \in [Memories -> Procs \cup {Nobody}]
  /\ pc \in [Procs -> Places]
  /\ local \in [Procs -> Local]
  /\ rec \subseteq RunIds

\* What a memory file holds is never lost: every replacement of a file extends it, whoever
\* else loaded the same directory before, whichever session it runs in, and whoever died.
NothingForgotten ==
  [][\A m \in Memories : IsPrefix(short[m], short'[m]) /\ IsPrefix(long[m], long'[m])]_memory

\* Recovery never touches a current execution: while a process is between its first and its
\* last write of run.json, the record says running, even when the recovery read it earlier.
Current == {"recorded", "executing", "observing", "ended"}
CurrentLeftAlone ==
  \A p \in Procs : pc[p] \in Current => run[local[p].run].status = "running"

\* Observers hear of an event after it is persisted, and in step: the trace of a run has no
\* line its memory file lacks, and lacks at most the one its process stopped at.
TraceFollowsMemory ==
  \A i \in RunIds : run[i].status # "absent" =>
    LET remembered == Of(i, short[run[i].memory])
    IN  trace[i] \in {remembered - 1, remembered}

\* The count of a session is the number of its recorded runs, less those abandoned before
\* they were counted, which stay running until a recovery marks them.
CountsAreRecords ==
  \A s \in Sessions :
    LET recorded == {i \in RunIds : run[i].session = s}
        open == {i \in recorded : run[i].status \in {"running", "interrupted"}}
    IN  session[s].run_count \in
          Cardinality(recorded \ open) .. Cardinality(recorded)

\* However its writers interleave and die, what the files of a session say of each other agrees.
FilesAgree == TraceFollowsMemory /\ CountsAreRecords

\* Only records left running become interrupted: a terminal record is final.
TerminalStays ==
  [][\A i \in RunIds :
       run[i].status \notin {"absent", "running"} => run'[i] = run[i]]_run
=============================================================================
