---------------------------- MODULE MonitorBridge ----------------------------
(***************************************************************************)
(* MonitorBridge and MonitorPool of monitor_bridge.py: one monitor         *)
(* subprocess per resolver, written to line by line under a per-bridge    *)
(* lock, restarted when poll() reports it gone or a write to it fails,     *)
(* and at the end sent the session-end sentinel and terminated.            *)
(*                                                                         *)
(* Actors are worker threads, each streaming MaxSends predicate lines      *)
(* (get_bridge then send_line), and Main, which after joining the workers  *)
(* runs end_all_sessions and terminate_all.  A method's steps are split    *)
(* where another actor or the monitor process can act in between: the     *)
(* lock makes send_line atomic with respect to other callers, never with  *)
(* respect to the monitor process, which may read, crash or stop reading   *)
(* at any moment.                                                          *)
(*                                                                         *)
(* A monitor process is a record: the bridge that started it, its status,  *)
(* the lines in its stdin pipe and the lines it has read.                  *)
(***************************************************************************)
EXTENDS Integers, Sequences, SequencesExt, FiniteSets, Functions

CONSTANTS Threads,        \* worker threads
          Main,           \* the thread running end_all_sessions/terminate_all
          Resolvers,      \* resolver names, the pool's keys
          MaxSends,       \* send_line calls per worker
          PipeCap,        \* lines the stdin pipe holds before write blocks
          MaxCrashes,     \* monitor crashes over a behaviour
          MaxSpawnFails,  \* failing Popen calls over a behaviour
          MaxLogFails,    \* failing opens of the log files over a behaviour
          AllowStall,     \* whether a monitor may hang without exiting
          End,            \* the END sentinel line
          None

ASSUME /\ Main \notin Threads
       /\ MaxSends \in Nat /\ PipeCap \in Nat \ {0}
       /\ MaxCrashes \in Nat /\ MaxSpawnFails \in Nat /\ MaxLogFails \in Nat
       /\ AllowStall \in BOOLEAN

Actors == Threads \cup {Main}

(* A get_bridge call constructs a bridge only after seeing the key absent, *)
(* so each worker constructs at most one bridge per resolver.              *)
BridgeIds == 1..(Cardinality(Threads) * Cardinality(Resolvers))

(* Every start after a bridge's first follows an exit of its process.     *)
ProcIds == 1..(Cardinality(BridgeIds) + MaxCrashes)

Lines == (Threads \X (1..MaxSends)) \cup {End}

VARIABLES
    pool,        \* MonitorPool._bridges: resolver -> bridge or None
    nbridges,    \* bridges constructed so far, ids 1..nbridges
    bp,          \* each bridge's self.p: a process id or None
    lock,        \* each bridge's self._lock: holder or None
    procs,       \* the monitor processes ever started, by process id
    crashes,     \* monitor crashes so far
    spawnFails,  \* failed Popen calls so far
    logFails,    \* failed opens of the log files so far
    incidents,   \* per bridge: crashes of its processes + its failed starts
    pc,          \* each actor's place in its program
    res,         \* resolver a worker's current line is for
    ref,         \* bridge an actor is working on
    tgt,         \* bridge a worker has constructed in get_bridge
    sent,        \* send_line calls a worker has completed
    line,        \* line an actor is writing
    outcome,     \* how the actor's last send returned
    evAt,        \* incidents[ref] when the actor took the lock
    todo         \* bridges Main has still to visit

vars == <<pool, nbridges, bp, lock, procs, crashes, spawnFails, logFails,
          incidents,
          pc, res, ref, tgt, sent, line, outcome, evAt, todo>>

threadVars == <<pc, res, ref, tgt, sent, line, outcome, evAt, todo>>

Status(pid) == procs[pid].status

Exited(pid) == Status(pid) \in {"crashed", "terminated"}

-----------------------------------------------------------------------------
(* _start_proc: Popen either fails (self.p = None) or starts a process.   *)
(* The startup sleep is a delay during which the process may already act. *)
StartProc(b) ==
    \/ /\ spawnFails < MaxSpawnFails
       /\ spawnFails' = spawnFails + 1
       /\ bp' = [bp EXCEPT ![b] = None]
       /\ incidents' = [incidents EXCEPT ![b] = @ + 1]
       /\ UNCHANGED <<procs, logFails>>
    \/ /\ procs' = Append(procs, [owner |-> b, status |-> "alive",
                                  pipe |-> <<>>, read |-> <<>>])
       /\ bp' = [bp EXCEPT ![b] = Len(procs) + 1]
       /\ UNCHANGED <<spawnFails, logFails, incidents>>

(* _make_log_files, called by _start_proc before its try: opening either  *)
(* log file raises OSError (no descriptor left, a full or read-only disk), *)
(* self.p is left as it was and the exception leaves _start_proc.          *)
LogFilesFail(b) ==
    /\ logFails < MaxLogFails
    /\ logFails' = logFails + 1
    /\ incidents' = [incidents EXCEPT ![b] = @ + 1]
    /\ UNCHANGED <<bp, procs, spawnFails>>

(* _start_proc inside a try whose except swallows what it raises *)
StartAttempt(b) == StartProc(b) \/ LogFilesFail(b)

(* A bridge that restarts its monitor even though poll() says it is still  *)
(* running (a plausible bug, used to show NoOrphanMonitor depends on the   *)
(* poll check of line 79).                                                 *)
EnsureProcInverted(b) ==
    IF bp[b] = None \/ ~Exited(bp[b])
    THEN StartProc(b)
    ELSE UNCHANGED <<bp, procs, spawnFails, logFails, incidents>>

(* A bridge that only starts a monitor when it has none, never when the    *)
(* one it has has exited (a plausible bug, used to show                    *)
(* FailureAttributable depends on lines 79-80).                            *)
EnsureProcNoPoll(b) ==
    IF bp[b] = None
    THEN StartProc(b)
    ELSE UNCHANGED <<bp, procs, spawnFails, logFails, incidents>>

(* _ensure_proc: start a monitor if there is none or poll() finds it gone *)
EnsureProc(b) ==
    IF bp[b] = None \/ Exited(bp[b])
    THEN StartProc(b)
    ELSE UNCHANGED <<bp, procs, spawnFails, logFails, incidents>>

(* _is_broken *)
IsBroken(b) == IF bp[b] = None THEN TRUE ELSE Exited(bp[b])

-----------------------------------------------------------------------------
(* Worker program: MaxSends times, pick a resolver, get its bridge from the *)
(* pool, send a line on it.                                                *)

NextLine(t) ==
    /\ pc[t] = "next"
    /\ IF sent[t] < MaxSends
       THEN \E r \in Resolvers :
              /\ res' = [res EXCEPT ![t] = r]
              /\ line' = [line EXCEPT ![t] = <<t, sent[t] + 1>>]
              /\ outcome' = [outcome EXCEPT ![t] = "none"]
              /\ pc' = [pc EXCEPT ![t] = "get_check"]
       ELSE /\ pc' = [pc EXCEPT ![t] = "done"]
            /\ UNCHANGED <<res, line, outcome>>
    /\ UNCHANGED <<pool, nbridges, bp, lock, procs, crashes, spawnFails, logFails,
                   incidents, ref, tgt, sent, evAt, todo>>

(* A plausible slip: the membership test of get_bridge inverted, so that *)
(* a bridge is constructed on every call that finds one already there.    *)
GetBridgeCheckAlwaysMiss(t) ==
    /\ pc[t] = "get_check"
    /\ pc' = [pc EXCEPT ![t] = "construct"]
    /\ UNCHANGED <<pool, nbridges, bp, lock, procs, crashes, spawnFails, logFails,
                   incidents, res, ref, tgt, sent, line, outcome, evAt, todo>>

(* get_bridge: `if resolver_name not in self._bridges`, found case also  *)
(* reads the entry it returns                                              *)
GetBridgeCheck(t) ==
    /\ pc[t] = "get_check"
    /\ IF pool[res[t]] # None
       THEN /\ ref' = [ref EXCEPT ![t] = pool[res[t]]]
            /\ pc' = [pc EXCEPT ![t] = "acquire"]
       ELSE /\ pc' = [pc EXCEPT ![t] = "construct"]
            /\ UNCHANGED ref
    /\ UNCHANGED <<pool, nbridges, bp, lock, procs, crashes, spawnFails, logFails,
                   incidents, res, tgt, sent, line, outcome, evAt, todo>>

(* MonitorBridge(tag=resolver_name): a new lock and a first _start_proc, *)
(* outside any try: an OSError of _make_log_files leaves get_bridge and   *)
(* stream_round_to_monitor, ending the worker's stream ("raised").        *)
GetBridgeConstruct(t) ==
    /\ pc[t] = "construct"
    /\ nbridges' = nbridges + 1
    /\ tgt' = [tgt EXCEPT ![t] = nbridges + 1]
    /\ \/ StartProc(nbridges + 1) /\ pc' = [pc EXCEPT ![t] = "assign"]
       \/ LogFilesFail(nbridges + 1) /\ pc' = [pc EXCEPT ![t] = "raised"]
    /\ UNCHANGED <<pool, lock, crashes, res, ref, sent, line, outcome, evAt,
                   todo>>

(* self._bridges[resolver_name] = ... *)
GetBridgeAssign(t) ==
    /\ pc[t] = "assign"
    /\ pool' = [pool EXCEPT ![res[t]] = tgt[t]]
    /\ pc' = [pc EXCEPT ![t] = "return"]
    /\ UNCHANGED <<nbridges, bp, lock, procs, crashes, spawnFails, logFails, incidents,
                   res, ref, tgt, sent, line, outcome, evAt, todo>>

(* return self._bridges[resolver_name], read again after the assignment *)
GetBridgeReturn(t) ==
    /\ pc[t] = "return"
    /\ ref' = [ref EXCEPT ![t] = pool[res[t]]]
    /\ pc' = [pc EXCEPT ![t] = "acquire"]
    /\ UNCHANGED <<pool, nbridges, bp, lock, procs, crashes, spawnFails, logFails,
                   incidents, res, tgt, sent, line, outcome, evAt, todo>>

-----------------------------------------------------------------------------
(* send_line and end_session, run by an actor `a` on bridge ref[a] with   *)
(* line[a]; they differ only in the line written.                         *)

(* with self._lock: *)
Acquire(a) ==
    /\ pc[a] = "acquire"
    /\ lock[ref[a]] = None
    /\ lock' = [lock EXCEPT ![ref[a]] = a]
    /\ evAt' = [evAt EXCEPT ![a] = incidents[ref[a]]]
    /\ outcome' = [outcome EXCEPT ![a] = "none"]
    /\ pc' = [pc EXCEPT ![a] = "ensure"]
    /\ UNCHANGED <<pool, nbridges, bp, procs, crashes, spawnFails, logFails, incidents,
                   res, ref, tgt, sent, line, todo>>

(* self._ensure_proc() inside the try; a raising _start_proc goes to the *)
(* except                                                                   *)
Ensure(a) ==
    /\ pc[a] = "ensure"
    /\ \/ EnsureProc(ref[a]) /\ pc' = [pc EXCEPT ![a] = "check"]
       \/ IsBroken(ref[a]) /\ LogFilesFail(ref[a])
          /\ pc' = [pc EXCEPT ![a] = "restart"]
    /\ UNCHANGED <<pool, nbridges, lock, crashes, res, ref, tgt, sent, line,
                   outcome, evAt, todo>>

(* A plausible slip: a lock taken by hand and the early return of a      *)
(* broken monitor leaving without releasing it                            *)
FinishNoRelease(a, how) ==
    /\ lock' = IF how = "skipped" THEN lock ELSE [lock EXCEPT ![ref[a]] = None]
    /\ outcome' = [outcome EXCEPT ![a] = how]
    /\ IF a = Main
       THEN pc' = [pc EXCEPT ![a] = "end_pick"] /\ UNCHANGED sent
       ELSE /\ pc' = [pc EXCEPT ![a] = "next"]
            /\ sent' = [sent EXCEPT ![a] = @ + 1]

(* Leaving the with-block: release the lock and go on with the program. *)
Finish(a, how) ==
    /\ lock' = [lock EXCEPT ![ref[a]] = None]
    /\ outcome' = [outcome EXCEPT ![a] = how]
    /\ IF a = Main
       THEN pc' = [pc EXCEPT ![a] = "end_pick"] /\ UNCHANGED sent
       ELSE /\ pc' = [pc EXCEPT ![a] = "next"]
            /\ sent' = [sent EXCEPT ![a] = @ + 1]

(* if self._is_broken(): warn and return *)
Check(a) ==
    /\ pc[a] = "check"
    /\ IF IsBroken(ref[a])
       THEN Finish(a, "skipped")
       ELSE /\ pc' = [pc EXCEPT ![a] = "write"]
            /\ UNCHANGED <<lock, outcome, sent>>
    /\ UNCHANGED <<pool, nbridges, bp, procs, crashes, spawnFails, logFails, incidents,
                   res, ref, tgt, line, evAt, todo>>

(* self.p.stdin.write(line + "\n"); flush().  To a process that has exited *)
(* the write raises: restart it and drop the line.  To a live one it       *)
(* appends to the pipe, and blocks while the pipe is full.                 *)
Write(a) ==
    /\ pc[a] = "write"
    /\ LET pid == bp[ref[a]] IN
       IF Exited(pid)
       THEN /\ StartAttempt(ref[a])
            /\ Finish(a, "dropped")
       ELSE /\ Len(procs[pid].pipe) < PipeCap
            /\ procs' = [procs EXCEPT ![pid].pipe = Append(@, line[a])]
            /\ Finish(a, "written")
            /\ UNCHANGED <<bp, spawnFails, logFails, incidents>>
    /\ UNCHANGED <<pool, nbridges, crashes, res, ref, tgt, line, evAt, todo>>

(* the except of send_line / end_session: try self._start_proc() once    *)
(* more, swallowing what it raises; the line is not retried               *)
Restart(a) ==
    /\ pc[a] = "restart"
    /\ StartAttempt(ref[a])
    /\ Finish(a, "dropped")
    /\ UNCHANGED <<pool, nbridges, crashes, res, ref, tgt, line, evAt, todo>>

-----------------------------------------------------------------------------
(* Main: once the workers are joined, end_all_sessions then terminate_all, *)
(* each iterating the pool's bridges.                                      *)

PoolBridges == Range(pool) \ {None}

StartShutdown ==
    /\ pc[Main] = "wait"
    /\ \A t \in Threads : pc[t] \in {"done", "raised"}
    /\ todo' = PoolBridges
    /\ pc' = [pc EXCEPT ![Main] = "end_pick"]
    /\ UNCHANGED <<pool, nbridges, bp, lock, procs, crashes, spawnFails, logFails,
                   incidents, res, ref, tgt, sent, line, outcome, evAt>>

(* end_all_sessions: bridge.end_session() for each bridge *)
EndAllSessions ==
    /\ pc[Main] = "end_pick"
    /\ IF todo # {}
       THEN \E b \in todo :
              /\ ref' = [ref EXCEPT ![Main] = b]
              /\ line' = [line EXCEPT ![Main] = End]
              /\ outcome' = [outcome EXCEPT ![Main] = "none"]
              /\ todo' = todo \ {b}
              /\ pc' = [pc EXCEPT ![Main] = "acquire"]
       ELSE /\ todo' = PoolBridges
            /\ pc' = [pc EXCEPT ![Main] = "term_pick"]
            /\ UNCHANGED <<ref, line, outcome>>
    /\ UNCHANGED <<pool, nbridges, bp, lock, procs, crashes, spawnFails, logFails,
                   incidents, res, tgt, sent, evAt>>

(* terminate_all: bridge.terminate() for each bridge.  Under the lock,    *)
(* terminate(), wait(timeout=1.0), kill() on timeout: the process ends.   *)
TerminateAll ==
    /\ pc[Main] = "term_pick"
    /\ IF todo # {}
       THEN \E b \in todo :
              /\ lock[b] = None
              /\ todo' = todo \ {b}
              /\ IF bp[b] # None /\ ~Exited(bp[b])
                 THEN procs' = [procs EXCEPT ![bp[b]].status = "terminated"]
                 ELSE UNCHANGED procs
              /\ UNCHANGED pc
       ELSE /\ pc' = [pc EXCEPT ![Main] = "fin"]
            /\ UNCHANGED <<todo, procs>>
    /\ UNCHANGED <<pool, nbridges, bp, lock, crashes, spawnFails, logFails, incidents,
                   res, ref, tgt, sent, line, outcome, evAt>>

-----------------------------------------------------------------------------
(* The monitor processes, outside the bridge's control. *)

(* The monitor reads the next line of its stdin. *)
MonitorRead(pid) ==
    /\ Status(pid) = "alive"
    /\ procs[pid].pipe # <<>>
    /\ procs' = [procs EXCEPT ![pid].read = Append(@, Head(procs[pid].pipe)),
                              ![pid].pipe = Tail(@)]
    /\ UNCHANGED <<pool, nbridges, bp, lock, crashes, spawnFails, logFails, incidents,
                   threadVars>>

(* The monitor dies (or is killed from outside); unread input is lost. *)
MonitorCrash(pid) ==
    /\ ~Exited(pid)
    /\ crashes < MaxCrashes
    /\ crashes' = crashes + 1
    /\ procs' = [procs EXCEPT ![pid].status = "crashed", ![pid].pipe = <<>>]
    /\ incidents' = [incidents EXCEPT ![procs[pid].owner] = @ + 1]
    /\ UNCHANGED <<pool, nbridges, bp, lock, spawnFails, logFails, threadVars>>

(* The monitor hangs: it stays alive and stops reading its stdin. *)
MonitorStall(pid) ==
    /\ AllowStall
    /\ Status(pid) = "alive"
    /\ procs' = [procs EXCEPT ![pid].status = "stalled"]
    /\ UNCHANGED <<pool, nbridges, bp, lock, crashes, spawnFails, logFails, incidents,
                   threadVars>>

-----------------------------------------------------------------------------
Init ==
    /\ pool = [r \in Resolvers |-> None]
    /\ nbridges = 0
    /\ bp = [b \in BridgeIds |-> None]
    /\ lock = [b \in BridgeIds |-> None]
    /\ procs = <<>>
    /\ crashes = 0
    /\ spawnFails = 0
    /\ logFails = 0
    /\ incidents = [b \in BridgeIds |-> 0]
    /\ pc = [a \in Actors |-> IF a = Main THEN "wait" ELSE "next"]
    /\ res = [t \in Threads |-> CHOOSE r \in Resolvers : TRUE]
    /\ ref = [a \in Actors |-> None]
    /\ tgt = [t \in Threads |-> None]
    /\ sent = [t \in Threads |-> 0]
    /\ line = [a \in Actors |-> None]
    /\ outcome = [a \in Actors |-> "none"]
    /\ evAt = [a \in Actors |-> 0]
    /\ todo = {}

SendStep(a) == Acquire(a) \/ Ensure(a) \/ Check(a) \/ Write(a) \/ Restart(a)

WorkerStep(t) ==
    \/ NextLine(t) \/ GetBridgeCheck(t) \/ GetBridgeConstruct(t)
    \/ GetBridgeAssign(t) \/ GetBridgeReturn(t) \/ SendStep(t)

MainStep == StartShutdown \/ EndAllSessions \/ TerminateAll \/ SendStep(Main)

MonitorStep(pid) == MonitorRead(pid) \/ MonitorCrash(pid) \/ MonitorStall(pid)

(* Every actor has finished its program. *)
Stopped ==
    /\ pc[Main] = "fin"
    /\ UNCHANGED vars

Next ==
    \/ \E t \in Threads : WorkerStep(t)
    \/ MainStep
    \/ \E pid \in DOMAIN procs : MonitorStep(pid)
    \/ Stopped

(* Threads are scheduled by the OS and Python's GIL hand-off, so a thread *)
(* that can run eventually does; a running monitor keeps reading its      *)
(* stdin.  Crashes, hangs and failing starts are never forced.            *)
Fairness ==
    /\ \A t \in Threads : WF_vars(WorkerStep(t))
    /\ WF_vars(MainStep)
    /\ \A pid \in ProcIds : WF_vars(pid \in DOMAIN procs /\ MonitorRead(pid))

Spec == Init /\ [][Next]_vars /\ Fairness

-----------------------------------------------------------------------------
TypeOK ==
    /\ pool \in [Resolvers -> BridgeIds \cup {None}]
    /\ nbridges \in 0..Cardinality(BridgeIds)
    /\ bp \in [BridgeIds -> ProcIds \cup {None}]
    /\ lock \in [BridgeIds -> Actors \cup {None}]
    /\ Len(procs) <= Cardinality(ProcIds)
    /\ \A pid \in DOMAIN procs :
         /\ procs[pid].owner \in 1..nbridges
         /\ procs[pid].status \in {"alive", "stalled", "crashed", "terminated"}
         /\ procs[pid].pipe \in Seq(Lines) /\ Len(procs[pid].pipe) <= PipeCap
         /\ procs[pid].read \in Seq(Lines)
    /\ crashes \in 0..MaxCrashes /\ spawnFails \in 0..MaxSpawnFails
    /\ logFails \in 0..MaxLogFails
    /\ incidents \in [BridgeIds -> Nat]
    /\ pc \in [Actors -> {"next", "get_check", "construct", "assign", "return",
                          "acquire", "ensure", "check", "write", "restart",
                          "done", "raised",
                          "wait", "end_pick", "term_pick", "fin"}]
    /\ sent \in [Threads -> 0..MaxSends]
    /\ outcome \in [Actors -> {"none", "written", "skipped", "dropped"}]

(* The lock of each bridge serialises poll-then-restart: no monitor is    *)
(* ever started while an earlier one of the same bridge is still running, *)
(* so every monitor process that has not exited is the one its bridge     *)
(* holds in self.p, and terminate() reaches it.                           *)
NoOrphanMonitor ==
    \A pid \in DOMAIN procs : ~Exited(pid) => bp[procs[pid].owner] = pid

(* Crash recovery (spec 8.8): a send_line or end_session call loses its    *)
(* line (skipped as broken, or dropped after a failed write) only if its   *)
(* bridge's monitor crashed, or a start of it failed, DURING the call.  A  *)
(* monitor that died before the call is restarted transparently.         *)
FailureAttributable ==
    \A a \in Actors :
        outcome[a] \in {"skipped", "dropped"} => incidents[ref[a]] > evAt[a]

(* No operation blocks indefinitely (spec 5): every send_line, end_session *)
(* and terminate call returns, and the run reaches the end of shutdown.    *)
AllCallsReturn == <>(pc[Main] = "fin")

(* Failure absorption (spec 7): the bridge never propagates an I/O        *)
(* failure to its caller, so no worker's stream_round_to_monitor call      *)
(* ends with an exception raised by get_bridge or send_line.               *)
NoFailurePropagates == \A t \in Threads : pc[t] # "raised"

(* After terminate_all every monitor process started by the pool has     *)
(* ended: none is left running, unreachable, beside the pool.             *)
NoMonitorOutlivesShutdown ==
    pc[Main] = "fin" => \A pid \in DOMAIN procs : Exited(pid)

(* The session-end sentinel written by end_all_sessions is read by the     *)
(* monitor it was written to before terminate_all ends that monitor.      *)
EndSentinelRead ==
    \A pid \in DOMAIN procs :
        Status(pid) = "terminated" => ~Contains(procs[pid].pipe, End)

-----------------------------------------------------------------------------
(* Refinement mapping onto MonitorSession.  A resolver's session is its    *)
(* pool entry's bridge: Unstarted while there is none or its self.p is     *)
(* None or has exited, Terminated once terminate() ended self.p, Running   *)
(* otherwise.  The lines in flight are the running monitor's stdin pipe,   *)
(* and the lines delivered are what every monitor the bridge has started   *)
(* read, in the order they were started.                                   *)

SessionState(r) ==
    LET b == pool[r] IN
    CASE b = None -> "unstarted"
      [] bp[b] = None -> "unstarted"
      [] Status(bp[b]) = "terminated" -> "terminated"
      [] Status(bp[b]) = "crashed" -> "unstarted"
      [] OTHER -> "running"

InFlight(r) ==
    IF SessionState(r) = "running" THEN procs[bp[pool[r]]].pipe ELSE <<>>

DeliveredTo(r) ==
    LET b == pool[r] IN
    IF b = None THEN <<>>
    ELSE FlattenSeq([pid \in DOMAIN procs |->
                        IF procs[pid].owner = b THEN procs[pid].read ELSE <<>>])

Session == INSTANCE MonitorSession
    WITH state <- [r \in Resolvers |-> SessionState(r)],
         inflight <- [r \in Resolvers |-> InFlight(r)],
         delivered <- [r \in Resolvers |-> DeliveredTo(r)]

(* The pool and its bridges implement the session state machine of spec   *)
(* 4.4 per resolver: across monitor restarts (_ensure_proc, the restart    *)
(* after a failed write) and terminate(), a line is written only to a      *)
(* running monitor, monitors read only lines send_line or end_session      *)
(* wrote to that resolver's bridge, each once and in the order written,    *)
(* lines are lost only when in flight as a monitor ends, and a terminated  *)
(* session stays terminated.                                               *)
SessionRefined == Session!SessionSpec

=============================================================================
