------------------------------ MODULE Lifecycle ------------------------------
(***************************************************************************)
(* One root, its daemon processes and the `mda` commands that start, stop, *)
(* restart, ask and watch them: the OS lock, the socket, the info and pid  *)
(* files, the connection slots of the server and the queue to the indexer. *)
(* A daemon may crash between any two steps; a client's Ping may time out. *)
(***************************************************************************)
EXTENDS Naturals, FiniteSets, Sequences

CONSTANTS Daemons,          \* pids `mda start` may get, in order
          Clients,          \* terminals; each runs one command
          Scenarios,        \* what they run: functions from Clients to commands
          None,
          MAX_CONNECTIONS,  \* clients served at once (32)
          QueueBound,       \* commands waiting for the indexer (32)
          MaxFaults         \* bound: crashes and failed starts

ASSUME CapAssumption == MAX_CONNECTIONS \in Nat \ {0} /\ QueueBound \in Nat \ {0} /\ MaxFaults \in Nat

ASSUME PidAssumption == Daemons \subseteq Nat /\ None \notin Daemons

ASSUME CommandAssumption ==
  Scenarios \subseteq [Clients -> {"start", "stop", "restart", "index", "watch"}]

VARIABLES
  pc,          \* place of each daemon in daemon::run
  cancelled,   \* daemons whose CancellationToken fired
  lock,        \* holder of daemon.lock
  socket,      \* daemon whose listener the socket file at the path belongs to
  listeners,   \* daemons with a listener not yet dropped
  files,       \* daemon named by daemon.json and daemon.pid, written and removed together
  indexer, summarizer,   \* the two tasks of each daemon
  queue,       \* commands relayed to each indexer
  faults,
  cmd,         \* each client's command
  at,          \* and its place in it
  conn,        \* its connection, as the daemon sees it
  reply,       \* what its last request came back with
  acked,       \* the daemon that acknowledged its Stop
  applied,     \* clients whose Index was carried out
  swept        \* a `mda stop` removed the pid file of a daemon that held the lock

daemonVars == <<pc, cancelled, lock, socket, listeners, files, indexer, summarizer, queue, faults>>
clientVars == <<cmd, at, conn, reply, acked, applied, swept>>
vars == <<daemonVars, clientVars>>

\* daemon::run between Lock::acquire and drop(root_lock)
Holding == {"locked", "bound", "described", "running", "drained", "removed"}

Places == {"none", "spawned", "unlocked", "dead"} \cup Holding

Requests == {"ping", "stop", "index", "watch"}

Stages == {"none", "backlog", "reading", "relayed", "answering", "watching"}

NoConn == [to |-> None, req |-> "ping", stage |-> "none", answer |-> "none"]

Init ==
  /\ pc = [d \in Daemons |-> "none"] /\ cancelled = {} /\ lock = None
  /\ socket = None /\ listeners = {} /\ files = None
  /\ indexer = [d \in Daemons |-> "off"] /\ summarizer = [d \in Daemons |-> "off"]
  /\ queue = [d \in Daemons |-> <<>>] /\ faults = 0
  /\ cmd \in Scenarios /\ at = [c \in Clients |-> "idle"]
  /\ conn = [c \in Clients |-> NoConn] /\ reply = [c \in Clients |-> "none"]
  /\ acked = [c \in Clients |-> None]
  /\ applied = {} /\ swept = FALSE

To(d, stages) == {c \in Clients : conn[c].to = d /\ conn[c].stage \in stages}

\* A client that gave up is not there to hear an answer.
Waits(c) == reply[c] = "none" /\ at[c] # "done"

\* The clients C read end of file: whoever still waits hears an error.
Hangs(C) ==
  /\ conn' = [c \in Clients |-> IF c \in C THEN NoConn ELSE conn[c]]
  /\ reply' = [c \in Clients |-> IF c \in C /\ Waits(c) THEN "error" ELSE reply[c]]

\* A dropped listener unlinks its path, whatever file is there by then.
DropsListener(d) ==
  /\ listeners' = listeners \ {d}
  /\ socket' = IF d \in listeners THEN None ELSE socket

------------------------------------------------------------------------------
(* The daemon process *)

\* The lock file alone, without the OS lock behind it.
MutAcquire(d) ==
  /\ pc[d] = "spawned"
  /\ lock' = d /\ pc' = [pc EXCEPT ![d] = "locked"]
  /\ UNCHANGED <<cancelled, socket, listeners, files, indexer, summarizer, queue, faults, clientVars>>

Acquire(d) ==
  /\ pc[d] = "spawned"
  /\ IF lock = None
       THEN lock' = d /\ pc' = [pc EXCEPT ![d] = "locked"]
       ELSE pc' = [pc EXCEPT ![d] = "dead"] /\ UNCHANGED lock
  /\ UNCHANGED <<cancelled, socket, listeners, files, indexer, summarizer, queue, faults, clientVars>>

\* A socket file somebody left is removed first.
Bind(d) ==
  /\ pc[d] = "locked"
  /\ socket' = d /\ listeners' = listeners \cup {d}
  /\ pc' = [pc EXCEPT ![d] = "bound"]
  /\ UNCHANGED <<cancelled, lock, files, indexer, summarizer, queue, faults, clientVars>>

WriteInfo(d) ==
  /\ pc[d] = "bound"
  /\ files' = d
  /\ pc' = [pc EXCEPT ![d] = "described"]
  /\ UNCHANGED <<cancelled, lock, socket, listeners, indexer, summarizer, queue, faults, clientVars>>

Spawn(d) ==
  /\ pc[d] = "described"
  /\ pc' = [pc EXCEPT ![d] = "running"]
  /\ indexer' = [indexer EXCEPT ![d] = "live"]
  /\ summarizer' = [summarizer EXCEPT ![d] = "idle"]
  /\ UNCHANGED <<cancelled, lock, socket, listeners, files, queue, faults, clientVars>>

\* Engine::open, bind or info.write failed: run returns and drops what it holds.
StartFails(d) ==
  /\ pc[d] \in {"locked", "bound"} /\ faults < MaxFaults
  /\ faults' = faults + 1
  /\ lock' = None /\ DropsListener(d) /\ Hangs(To(d, Stages))
  /\ pc' = [pc EXCEPT ![d] = "dead"]
  /\ UNCHANGED <<cancelled, files, indexer, summarizer, queue, cmd, at, acked, applied, swept>>

\* SIGTERM or Ctrl-C; one that comes while the daemon starts takes effect here.
stop_on_signal(d) ==
  /\ pc[d] = "running" /\ d \notin cancelled
  /\ cancelled' = cancelled \cup {d}
  /\ UNCHANGED <<pc, lock, socket, listeners, files, indexer, summarizer, queue, faults, clientVars>>

\* A round puts calls in flight; its end records them.
RoundBegins(d) ==
  /\ summarizer[d] = "idle" /\ d \notin cancelled
  /\ summarizer' = [summarizer EXCEPT ![d] = "calling"]
  /\ UNCHANGED <<pc, cancelled, lock, socket, listeners, files, indexer, queue, faults, clientVars>>

RoundEnds(d) ==
  /\ summarizer[d] = "calling"
  /\ summarizer' = [summarizer EXCEPT ![d] = "idle"]
  /\ UNCHANGED <<pc, cancelled, lock, socket, listeners, files, indexer, queue, faults, clientVars>>

SummarizerEnds(d) ==
  /\ summarizer[d] = "idle" /\ d \in cancelled
  /\ summarizer' = [summarizer EXCEPT ![d] = "ended"]
  /\ UNCHANGED <<pc, cancelled, lock, socket, listeners, files, indexer, queue, faults, clientVars>>

\* The select! takes a ready command or the cancel, whichever it draws.
handle_cmd(d) ==
  /\ indexer[d] = "live" /\ queue[d] # <<>>
  /\ LET c == Head(queue[d])
     IN  \E a \in {"ok", "error"} :
           /\ conn' = [conn EXCEPT ![c].stage = "answering", ![c].answer = a]
           /\ applied' = IF a = "ok" THEN applied \cup {c} ELSE applied
  /\ queue' = [queue EXCEPT ![d] = Tail(@)]
  /\ UNCHANGED <<pc, cancelled, lock, socket, listeners, files, indexer, summarizer, faults,
                 cmd, at, reply, acked, swept>>

\* The indexer ends when every sender is gone, not on the cancel.
MutIndexerEnds(d) ==
  /\ indexer[d] = "live" /\ d \in cancelled
  /\ d \notin listeners /\ To(d, Stages \ {"none"}) = {}
  /\ indexer' = [indexer EXCEPT ![d] = "ended"]
  /\ UNCHANGED <<pc, cancelled, lock, socket, listeners, files, summarizer, queue, faults, clientVars>>

\* The receiver goes with the commands in it: each reply channel closes.
IndexerEnds(d) ==
  /\ indexer[d] = "live" /\ d \in cancelled
  /\ indexer' = [indexer EXCEPT ![d] = "ended"]
  /\ queue' = [queue EXCEPT ![d] = <<>>]
  /\ conn' = [c \in Clients |-> IF c \in To(d, {"relayed"})
                                THEN [conn[c] EXCEPT !.stage = "answering", !.answer = "error"] ELSE conn[c]]
  /\ UNCHANGED <<pc, cancelled, lock, socket, listeners, files, summarizer, faults,
                 cmd, at, reply, acked, applied, swept>>

\* The lock is dropped before the files are removed.
MutDrained(d) ==
  /\ pc[d] = "running" /\ d \in cancelled
  /\ indexer[d] = "ended" /\ summarizer[d] = "ended"
  /\ lock' = None
  /\ pc' = [pc EXCEPT ![d] = "drained"]
  /\ UNCHANGED <<cancelled, socket, listeners, files, indexer, summarizer, queue, faults, clientVars>>

\* Both tasks awaited; the server task is told to abort, its listener may outlive this.
Drained(d) ==
  /\ pc[d] = "running" /\ d \in cancelled
  /\ indexer[d] = "ended" /\ summarizer[d] = "ended"
  /\ pc' = [pc EXCEPT ![d] = "drained"]
  /\ UNCHANGED <<cancelled, lock, socket, listeners, files, indexer, summarizer, queue, faults, clientVars>>

RemoveInfo(d) ==
  /\ pc[d] = "drained"
  /\ files' = None
  /\ pc' = [pc EXCEPT ![d] = "removed"]
  /\ UNCHANGED <<cancelled, lock, socket, listeners, indexer, summarizer, queue, faults, clientVars>>

Unlock(d) ==
  /\ pc[d] = "removed"
  /\ lock' = None
  /\ pc' = [pc EXCEPT ![d] = "unlocked"]
  /\ UNCHANGED <<cancelled, socket, listeners, files, indexer, summarizer, queue, faults, clientVars>>

\* The runtime is dropped with the tasks still on it.
Exit(d) ==
  /\ pc[d] = "unlocked"
  /\ DropsListener(d) /\ Hangs(To(d, Stages))
  /\ pc' = [pc EXCEPT ![d] = "dead"]
  /\ UNCHANGED <<cancelled, lock, files, indexer, summarizer, queue, faults, cmd, at, acked, applied, swept>>

\* The OS takes the lock and the connections back; files stay.
Crash(d) ==
  /\ pc[d] \notin {"none", "dead"} /\ faults < MaxFaults
  /\ faults' = faults + 1
  /\ pc' = [pc EXCEPT ![d] = "dead"]
  /\ lock' = IF lock = d THEN None ELSE lock
  /\ listeners' = listeners \ {d}
  /\ indexer' = [indexer EXCEPT ![d] = "off"] /\ summarizer' = [summarizer EXCEPT ![d] = "off"]
  /\ queue' = [queue EXCEPT ![d] = <<>>]
  /\ Hangs(To(d, Stages))
  /\ UNCHANGED <<cancelled, socket, files, cmd, at, acked, applied, swept>>

------------------------------------------------------------------------------
(* The server *)

Accept(d, c) ==
  /\ pc[d] = "running" /\ d \in listeners
  /\ c \in To(d, {"backlog"})
  /\ Cardinality(To(d, Stages \ {"none", "backlog"})) < MAX_CONNECTIONS
  /\ conn' = [conn EXCEPT ![c].stage = "reading"]
  /\ UNCHANGED <<daemonVars, cmd, at, reply, acked, applied, swept>>

\* serve leaves its loop: the listener and the connections in its backlog go.
ServeEnds(d) ==
  /\ d \in listeners /\ d \in cancelled /\ pc[d] \in {"running", "drained", "removed", "unlocked"}
  /\ DropsListener(d) /\ Hangs(To(d, {"backlog"}))
  /\ UNCHANGED <<pc, cancelled, lock, files, indexer, summarizer, queue, faults, cmd, at, acked, applied, swept>>

Answers(c, a) == conn' = [conn EXCEPT ![c].stage = "answering", ![c].answer = a]

\* Nothing can tell a Ping answered from one about to be.
HandlePing(d, c) ==
  /\ c \in To(d, {"reading"}) /\ conn[c].req = "ping"
  /\ conn' = [conn EXCEPT ![c] = NoConn]
  /\ reply' = [reply EXCEPT ![c] = "ok"]
  /\ UNCHANGED <<daemonVars, cmd, at, acked, applied, swept>>

HandleStop(d, c) ==
  /\ c \in To(d, {"reading"}) /\ conn[c].req = "stop"
  /\ cancelled' = cancelled \cup {d}
  /\ Answers(c, "ok")
  /\ UNCHANGED <<pc, lock, socket, listeners, files, indexer, summarizer, queue, faults,
                 cmd, at, reply, acked, applied, swept>>

\* The reply is sent when the command is queued.
Mutrelay(d, c) ==
  /\ c \in To(d, {"reading"}) /\ conn[c].req = "index"
  /\ Answers(c, "ok")
  /\ UNCHANGED <<daemonVars, cmd, at, reply, acked, applied, swept>>

relay(d, c) ==
  /\ c \in To(d, {"reading"}) /\ conn[c].req = "index"
  /\ \/ /\ indexer[d] = "live" /\ Len(queue[d]) < QueueBound
        /\ queue' = [queue EXCEPT ![d] = Append(@, c)]
        /\ conn' = [conn EXCEPT ![c].stage = "relayed"]
     \/ /\ indexer[d] = "ended"
        /\ Answers(c, "error")
        /\ UNCHANGED queue
  /\ UNCHANGED <<pc, cancelled, lock, socket, listeners, files, indexer, summarizer, faults,
                 cmd, at, reply, acked, applied, swept>>

HandleWatch(d, c) ==
  /\ c \in To(d, {"reading"}) /\ conn[c].req = "watch"
  /\ conn' = [conn EXCEPT ![c].stage = "watching"]
  /\ reply' = [reply EXCEPT ![c] = "ok"]
  /\ UNCHANGED <<daemonVars, cmd, at, acked, applied, swept>>

\* The line is written and the client closes: the handler reads end of file and returns.
Answer(d, c) ==
  /\ c \in To(d, {"answering"})
  /\ conn' = [conn EXCEPT ![c] = NoConn]
  /\ reply' = [reply EXCEPT ![c] = IF Waits(c) THEN conn[c].answer ELSE @]
  /\ acked' = [acked EXCEPT ![c] = IF conn[c].req = "stop" THEN d ELSE @]
  /\ UNCHANGED <<daemonVars, cmd, at, applied, swept>>

\* handle returns on the cancel: the line is dropped unread, a watcher told Stopping.
HandlerEnds(d, c) ==
  /\ c \in To(d, {"reading", "watching"}) /\ d \in cancelled
  /\ Hangs({c})
  /\ UNCHANGED <<daemonVars, cmd, at, acked, applied, swept>>

\* Any event sent to a watcher that hung up fails, and only that frees its slot.
Publish(d) ==
  /\ pc[d] = "running"
  /\ \E c \in To(d, {"watching"}) : at[c] = "done" /\ Hangs({c})
  /\ UNCHANGED <<daemonVars, cmd, at, acked, applied, swept>>

------------------------------------------------------------------------------
(* The commands *)

\* Client::connect and the request line; fails fast when nothing listens.
Request(c, req, next) ==
  /\ at' = [at EXCEPT ![c] = next] /\ UNCHANGED <<acked, applied>>
  /\ IF socket = None \/ socket \notin listeners
       THEN reply' = [reply EXCEPT ![c] = "error"] /\ UNCHANGED conn
       ELSE /\ reply' = [reply EXCEPT ![c] = "none"]
            /\ conn' = [conn EXCEPT ![c] = [to |-> socket, req |-> req, stage |-> "backlog", answer |-> "none"]]

\* The command prints what it found and exits.
Done(c) ==
  /\ at' = [at EXCEPT ![c] = "done"] /\ reply' = [reply EXCEPT ![c] = "none"]
  /\ acked' = [acked EXCEPT ![c] = None] /\ UNCHANGED applied

Goes(c, next) == at' = [at EXCEPT ![c] = next] /\ UNCHANGED <<reply, acked, applied>>

\* REQUEST_TIMEOUT: an unaccepted or relayed request may stay unanswered. The line of a
\* Stop or Index stays in the socket and is carried out when somebody reads it.
TimeOut(c) ==
  /\ conn[c].stage \in {"backlog", "relayed"} /\ reply[c] = "none"
  /\ reply' = [reply EXCEPT ![c] = "error"]
  /\ conn' = IF conn[c].req \in {"ping", "watch"} THEN [conn EXCEPT ![c] = NoConn] ELSE conn
  /\ UNCHANGED <<daemonVars, cmd, at, acked, applied, swept>>

\* Every command but watch asks is_running first.
Begin(c) ==
  /\ at[c] = "idle"
  /\ \/ cmd[c] = "watch" /\ Request(c, "watch", "watch")
     \/ cmd[c] # "watch" /\ Request(c, "ping", cmd[c])
  /\ UNCHANGED <<daemonVars, cmd, swept>>

\* start: somebody answers, or spawn a daemon and poll for its Ping.
StartFindsIt(c) ==
  /\ at[c] = "start" /\ reply[c] = "ok"
  /\ Done(c)
  /\ UNCHANGED <<daemonVars, cmd, conn, swept>>

spawn_detached(c, d) ==
  /\ at[c] = "start" /\ reply[c] = "error" /\ pc[d] = "none"
  /\ \A e \in Daemons : e < d => pc[e] # "none"
  /\ pc' = [pc EXCEPT ![d] = "spawned"]
  /\ Request(c, "ping", "poll")
  /\ UNCHANGED <<cancelled, lock, socket, listeners, files, indexer, summarizer, queue, faults, cmd, swept>>

\* "started", or another turn until the deadline.
Poll(c) ==
  /\ at[c] = "poll" /\ reply[c] # "none"
  /\ \/ Done(c) /\ UNCHANGED conn
     \/ reply[c] = "error" /\ Request(c, "ping", "poll")
  /\ UNCHANGED <<daemonVars, cmd, swept>>

\* stop: nobody answers, so the files are taken for a crashed daemon's.
StopFindsNobody(c) ==
  /\ at[c] \in {"stop", "restart"} /\ reply[c] = "error"
  /\ \/ at[c] = "restart" /\ Request(c, "ping", "start")
     \/ at[c] = "stop" /\ files # None /\ Goes(c, "sweep") /\ UNCHANGED conn
     \/ at[c] = "stop" /\ files = None /\ Done(c) /\ UNCHANGED conn
  /\ UNCHANGED <<daemonVars, cmd, swept>>

Sweep(c) ==
  /\ at[c] = "sweep"
  /\ swept' = (swept \/ (files # None /\ files = lock))
  /\ files' = None
  /\ Done(c)
  /\ UNCHANGED <<pc, cancelled, lock, socket, listeners, indexer, summarizer, queue, faults, cmd, conn>>

SendStop(c) ==
  /\ at[c] \in {"stop", "restart"} /\ reply[c] = "ok"
  /\ Request(c, "stop", "sent")
  /\ UNCHANGED <<daemonVars, cmd, swept>>

\* The wait looks at the socket only.
MutStopWaits(c) ==
  /\ \/ at[c] = "sent" /\ reply[c] = "error" /\ Done(c) /\ UNCHANGED conn
     \/ at[c] = "sent" /\ reply[c] = "ok" /\ Goes(c, "wait") /\ UNCHANGED conn
     \/ at[c] = "wait" /\ Request(c, "ping", "check")
     \/ at[c] = "check" /\ reply[c] = "ok" /\ Goes(c, "wait") /\ UNCHANGED conn
  /\ UNCHANGED <<daemonVars, cmd, swept>>

\* Each turn of the wait looks for the pid file, then pings; the deadline may pass.
StopWaits(c) ==
  /\ \/ at[c] = "sent" /\ reply[c] = "error" /\ Done(c) /\ UNCHANGED conn
     \/ at[c] = "sent" /\ reply[c] = "ok" /\ Goes(c, "wait") /\ UNCHANGED conn
     \/ at[c] = "wait" /\ files = None /\ Request(c, "ping", "check")
     \/ at[c] = "wait" /\ files # None /\ Done(c) /\ UNCHANGED conn
     \/ at[c] = "check" /\ reply[c] = "ok" /\ Goes(c, "wait") /\ UNCHANGED conn
  /\ UNCHANGED <<daemonVars, cmd, swept>>

Stopped(c) ==
  /\ at[c] = "check" /\ reply[c] = "error"
  /\ \/ cmd[c] = "restart" /\ Request(c, "ping", "start")
     \/ cmd[c] = "stop" /\ Done(c) /\ UNCHANGED conn
  /\ UNCHANGED <<daemonVars, cmd, swept>>

\* index: through the daemon that answered, or alone.
delegate(c) ==
  /\ at[c] = "index" /\ reply[c] = "ok"
  /\ Request(c, "index", "asked")
  /\ UNCHANGED <<daemonVars, cmd, swept>>

IndexTells(c) ==
  /\ \/ at[c] = "index" /\ reply[c] = "error"
     \/ at[c] = "asked" /\ reply[c] # "none"
  /\ Done(c)
  /\ UNCHANGED <<daemonVars, cmd, conn, swept>>

\* watch: until the user or the daemon goes; the daemon is not told of the user going.
WatchEnds(c) ==
  /\ at[c] = "watch" /\ reply[c] # "none"
  /\ Done(c)
  /\ UNCHANGED <<daemonVars, cmd, conn, swept>>

------------------------------------------------------------------------------

Run(d) ==
  \/ Acquire(d) \/ Bind(d) \/ WriteInfo(d) \/ Spawn(d)
  \/ Drained(d) \/ RemoveInfo(d) \/ Unlock(d) \/ Exit(d)

Serve(d) ==
  \/ ServeEnds(d)
  \/ \E c \in Clients : \/ Accept(d, c) \/ HandlePing(d, c) \/ HandleStop(d, c) \/ relay(d, c)
                        \/ HandleWatch(d, c) \/ Answer(d, c) \/ HandlerEnds(d, c)

Tasks(d) == RoundEnds(d) \/ SummarizerEnds(d) \/ handle_cmd(d) \/ IndexerEnds(d)

World(d) == stop_on_signal(d) \/ StartFails(d) \/ Crash(d) \/ RoundBegins(d) \/ Publish(d)

Command(c) ==
  \/ Begin(c) \/ TimeOut(c) \/ StartFindsIt(c) \/ (\E d \in Daemons : spawn_detached(c, d)) \/ Poll(c)
  \/ StopFindsNobody(c) \/ Sweep(c) \/ SendStop(c) \/ StopWaits(c) \/ Stopped(c)
  \/ delegate(c) \/ IndexTells(c) \/ WatchEnds(c)

Next == (\E d \in Daemons : Run(d) \/ Serve(d) \/ Tasks(d) \/ World(d)) \/ \E c \in Clients : Command(c)

Spec == Init /\ [][Next]_vars

\* The process runs and its tasks are scheduled; a call in flight ends (worker timeout), and
\* a select! loop that keeps drawing a ready command draws the cancel one day.
Fairness ==
  \A d \in Daemons : WF_vars(Run(d) \/ RoundEnds(d) \/ SummarizerEnds(d) \/ IndexerEnds(d))

FairSpec == Spec /\ Fairness

------------------------------------------------------------------------------
(* Properties *)

TypeOK ==
  /\ pc \in [Daemons -> Places] /\ cancelled \subseteq Daemons
  /\ {lock, socket, files} \subseteq Daemons \cup {None} /\ listeners \subseteq Daemons
  /\ indexer \in [Daemons -> {"off", "live", "ended"}]
  /\ summarizer \in [Daemons -> {"off", "idle", "calling", "ended"}]
  /\ queue \in [Daemons -> Seq(Clients)] /\ faults \in 0 .. MaxFaults
  /\ conn \in [Clients -> [to : Daemons \cup {None}, req : Requests, stage : Stages, answer : {"none", "ok", "error"}]]
  /\ reply \in [Clients -> {"none", "ok", "error"}] /\ acked \in [Clients -> Daemons \cup {None}]

\* "The lock is what makes one daemon per root true, whatever the socket says"
\* (daemon/mod.rs run): two processes never index or call the model for one root.
OneDaemonWorks ==
  \A d, e \in Daemons :
    (indexer[d] = "live" \/ summarizer[d] \in {"idle", "calling"})
      /\ (indexer[e] = "live" \/ summarizer[e] \in {"idle", "calling"}) => d = e

\* daemon.pid names the holder of the lock or a process that crashed, never a live process
\* that has given the lock back or never had it (daemon::run's order of write and remove).
FilesNameTheHolder == files # None => files = lock \/ pc[files] = "dead"

\* stop.rs: "the pid file goes last, after in-flight work is recorded". Unless another
\* `mda stop` swept the pid file, "stopped" is said when the daemon that acknowledged the
\* Stop has no call in flight. (Whether those calls were recorded is Pool's question, and
\* the answer is no: InFlightCallsFinish.)
StoppedMeansNoCalls ==
  [][\A c \in Clients : at[c] = "check" /\ reply[c] = "error" /\ at'[c] # "check" /\ ~swept =>
       summarizer[acked[c]] \notin {"idle", "calling"}]_vars

\* "indexed" is said of an Index the daemon carried out; one it dropped on its way out is an
\* error, and only a timed-out request is carried out after its client was told it failed.
RepliesAreTrue ==
  \A c \in Clients :
    /\ at[c] = "asked" /\ reply[c] = "ok" => c \in applied
    /\ conn[c].stage = "answering" /\ conn[c].req = "index" => (conn[c].answer = "ok" <=> c \in applied)

\* stop.rs: "a dead socket means it is not there": the process whose files a stop is about
\* to remove has no task left at work on the root.
DeadSocketMeansGone ==
  \A c \in Clients : at[c] = "sweep" /\ files # None =>
    indexer[files] # "live" /\ summarizer[files] \notin {"idle", "calling"}

\* A daemon told to stop lets go of its root, whoever is connected, relaying or watching.
DaemonStops == \A d \in Daemons : d \in cancelled ~> pc[d] = "dead"

==============================================================================
