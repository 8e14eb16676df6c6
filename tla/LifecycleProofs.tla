-------------------------- MODULE LifecycleProofs --------------------------
(***************************************************************************)
(* One daemon works on a root and its files name it, and what the commands *)
(* say of an Index or a Stop is true, for any number of processes and      *)
(* commands, crashes and failed starts.                                    *)
(***************************************************************************)
EXTENDS Lifecycle, TLAPS

Process ==
  /\ pc \in [Daemons -> Places]
  /\ indexer \in [Daemons -> {"off", "live", "ended"}]
  /\ summarizer \in [Daemons -> {"off", "idle", "calling", "ended"}]
  /\ lock \in Daemons \cup {None} /\ files \in Daemons \cup {None}
  /\ socket \in Daemons \cup {None}

\* The lock is with the process between acquire and drop, and with no other.
Locked == \A d \in Daemons : pc[d] \in Holding <=> lock = d

Works(d) == indexer[d] = "live" \/ summarizer[d] \in {"idle", "calling"}

\* Its tasks live no longer than it waits for them.
Working == \A d \in Daemons : Works(d) => pc[d] = "running"

Described == files # None => pc[files] \in {"described", "running", "drained", "dead"}

IInv == Process /\ Locked /\ Working /\ Described

\* What the commands and the server may change of the state above: one spawned process, or
\* the files swept away.
Around ==
  /\ UNCHANGED <<lock, indexer, summarizer>> /\ socket' \in {socket, None}
  /\ \/ UNCHANGED <<pc, files>>
     \/ files' = None /\ UNCHANGED pc
     \/ /\ \E d \in Daemons : pc[d] = "none" /\ pc' = [pc EXCEPT ![d] = "spawned"]
        /\ UNCHANGED files

LEMMA InitHolds == Init => IInv
  BY PidAssumption DEF Init, IInv, Process, Locked, Working, Works, Described, Places, Holding

LEMMA AroundHolds == IInv /\ Around => IInv'
  BY PidAssumption DEF Around, IInv, Process, Locked, Working, Works, Described, Places, Holding

\* A client's step is one of Around.
LEMMA CommandAround ==
  ASSUME NEW c \in Clients, Command(c)
  PROVE  Around
  <1>1. CASE Begin(c) \/ TimeOut(c) \/ StartFindsIt(c) \/ Poll(c) \/ StopFindsNobody(c)
    BY <1>1 DEF Begin, TimeOut, StartFindsIt, Poll, StopFindsNobody, daemonVars, Around
  <1>2. CASE \E d \in Daemons : spawn_detached(c, d)
    BY <1>2 DEF spawn_detached, Around
  <1>3. CASE Sweep(c)
    BY <1>3 DEF Sweep, Around
  <1>4. CASE SendStop(c) \/ StopWaits(c) \/ Stopped(c) \/ delegate(c) \/ IndexTells(c) \/ WatchEnds(c)
    BY <1>4 DEF SendStop, StopWaits, Stopped, delegate, IndexTells, WatchEnds, daemonVars, Around
  <1> QED BY <1>1, <1>2, <1>3, <1>4 DEF Command

\* So is a step of the server: it cancels and relays, and touches no lock, file or task.
LEMMA ServeAround ==
  ASSUME NEW d \in Daemons, Serve(d)
  PROVE  Around
  <1>1. CASE ServeEnds(d)
    BY <1>1 DEF ServeEnds, DropsListener, Around
  <1>2. ASSUME NEW c \in Clients,
               Accept(d, c) \/ HandlePing(d, c) \/ HandleWatch(d, c) \/ Answer(d, c) \/ HandlerEnds(d, c)
        PROVE  Around
    BY <1>2 DEF Accept, HandlePing, HandleWatch, Answer, HandlerEnds, daemonVars, Around
  <1>3. ASSUME NEW c \in Clients, HandleStop(d, c) \/ relay(d, c)
        PROVE  Around
    BY <1>3 DEF HandleStop, relay, Around
  <1> QED BY <1>1, <1>2, <1>3 DEF Serve

\* daemon::run, from the lock to the exit.
LEMMA RunHolds ==
  ASSUME NEW d \in Daemons, IInv, Run(d)
  PROVE  IInv'
  <1> USE PidAssumption DEF IInv, Process, Locked, Working, Works, Described, Places, Holding
  <1>1. CASE Acquire(d) BY <1>1 DEF Acquire
  <1>2. CASE Bind(d) BY <1>2 DEF Bind
  <1>3. CASE WriteInfo(d) BY <1>3 DEF WriteInfo
  <1>4. CASE Spawn(d) BY <1>4 DEF Spawn
  <1>5. CASE Drained(d) BY <1>5 DEF Drained
  <1>6. CASE RemoveInfo(d) BY <1>6 DEF RemoveInfo
  <1>7. CASE Unlock(d) BY <1>7 DEF Unlock
  <1>8. CASE Exit(d) BY <1>8 DEF Exit, DropsListener
  <1> QED BY <1>1, <1>2, <1>3, <1>4, <1>5, <1>6, <1>7, <1>8 DEF Run

\* The two tasks: each ends only once, and only while its process waits for it.
LEMMA TasksHold ==
  ASSUME NEW d \in Daemons, IInv, Tasks(d)
  PROVE  IInv'
  <1> USE DEF IInv, Process, Locked, Working, Works, Described
  <1>1. CASE RoundEnds(d) BY <1>1 DEF RoundEnds
  <1>2. CASE SummarizerEnds(d) BY <1>2 DEF SummarizerEnds
  <1>3. CASE handle_cmd(d) BY <1>3 DEF handle_cmd
  <1>4. CASE IndexerEnds(d) BY <1>4 DEF IndexerEnds
  <1> QED BY <1>1, <1>2, <1>3, <1>4 DEF Tasks

\* Signals, failed starts, crashes and rounds.
LEMMA WorldHolds ==
  ASSUME NEW d \in Daemons, IInv, World(d)
  PROVE  IInv'
  <1> USE PidAssumption DEF IInv, Process, Locked, Working, Works, Described, Places, Holding
  <1>1. CASE stop_on_signal(d) BY <1>1 DEF stop_on_signal
  <1>2. CASE StartFails(d) BY <1>2 DEF StartFails, DropsListener
  <1>3. CASE Crash(d) BY <1>3 DEF Crash
  <1>4. CASE RoundBegins(d) BY <1>4 DEF RoundBegins
  <1>5. CASE Publish(d) BY <1>5 DEF Publish, daemonVars
  <1> QED BY <1>1, <1>2, <1>3, <1>4, <1>5 DEF World

LEMMA StepHolds == IInv /\ [Next]_vars => IInv'
  <1> SUFFICES ASSUME IInv, [Next]_vars PROVE IInv'
    OBVIOUS
  <1>1. CASE UNCHANGED vars
    BY <1>1 DEF vars, daemonVars, IInv, Process, Locked, Working, Works, Described
  <1>2. ASSUME NEW d \in Daemons, Run(d) \/ Serve(d) \/ Tasks(d) \/ World(d)
        PROVE  IInv'
    BY <1>2, RunHolds, ServeAround, AroundHolds, TasksHold, WorldHolds
  <1>3. ASSUME NEW c \in Clients, Command(c)
        PROVE  IInv'
    BY <1>3, CommandAround, AroundHolds
  <1> QED BY <1>1, <1>2, <1>3 DEF Next

LEMMA InvariantHolds == Spec => []IInv
  BY InitHolds, StepHolds, PTL DEF Spec

\* Two processes never index or call the model for one root (daemon::run under Lock).
THEOREM OneProcess == Spec => []OneDaemonWorks
  <1>1. IInv => OneDaemonWorks
    BY PidAssumption DEF IInv, Process, Locked, Working, Works, OneDaemonWorks, Holding
  <1> QED BY <1>1, InvariantHolds, PTL

\* The info and pid files name the lock's holder or a dead process.
THEOREM FilesAreTrue == Spec => []FilesNameTheHolder
  <1>1. IInv => FilesNameTheHolder
    BY PidAssumption DEF IInv, Process, Locked, Described, FilesNameTheHolder, Holding
  <1> QED BY <1>1, InvariantHolds, PTL

------------------------------------------------------------------------------
(* The commands: what a client asked, what became of it and what it may say *)

\* Where a command may stand, and the request it waits for there.
Steps == {"idle", "start", "stop", "restart", "index", "watch", "poll", "sweep",
          "sent", "wait", "check", "asked", "done"}

Pings == {"start", "stop", "restart", "index", "poll", "check"}

Asked(step) == CASE step \in Pings   -> "ping"
                 [] step = "sent"    -> "stop"
                 [] step = "asked"   -> "index"
                 [] step = "watch"   -> "watch"
                 [] OTHER            -> "nothing"

Terminal ==
  /\ cmd \in [Clients -> {"start", "stop", "restart", "index", "watch"}]
  /\ at \in [Clients -> Steps]
  /\ conn \in [Clients -> [to : Daemons \cup {None}, req : Requests, stage : Stages,
                           answer : {"none", "ok", "error"}]]
  /\ reply \in [Clients -> {"none", "ok", "error"}]
  /\ acked \in [Clients -> Daemons \cup {None}]
  /\ queue \in [Daemons -> Seq(Clients)]

Open(c) == conn[c].stage # "none"

\* An open connection carries the request its command waits for, until the command gives
\* up: a Ping until there is a reply, a Stop or an Index until it is answered well.
Asking(c) ==
  /\ Open(c) /\ at[c] # "done" => /\ conn[c].req = Asked(at[c])
                                  /\ conn[c].req = "ping" => reply[c] = "none"
                                  /\ conn[c].req \in {"stop", "index"} => reply[c] # "ok"
  /\ Open(c) /\ at[c] = "done" => conn[c].req # "ping"

\* A connection the daemon has accepted ends with the process.
Served(c) ==
  conn[c].stage \in {"reading", "relayed", "answering", "watching"} =>
    conn[c].to \in Daemons /\ pc[conn[c].to] \in {"running", "drained", "removed", "unlocked"}

\* An Index is carried out once, while its answer is outstanding, and only Index is relayed.
Applied(c) ==
  /\ c \in applied => at[c] \in {"asked", "done"}
  /\ conn[c].stage = "relayed" => conn[c].req = "index"
  /\ conn[c].req = "index" /\ conn[c].stage \in {"backlog", "reading", "relayed"} =>
       c \notin applied

Over == {"drained", "removed", "unlocked", "dead"}

\* A process that acknowledged a Stop has started; once its files were seen to be gone, it
\* is past its work.
Stopping(c) ==
  /\ acked[c] # None => pc[acked[c]] \in {"running"} \cup Over
  /\ (at[c] = "sent" /\ reply[c] = "ok") \/ at[c] \in {"wait", "check"} => acked[c] \in Daemons
  /\ at[c] = "check" => swept \/ pc[acked[c]] \in Over

\* What RepliesAreTrue says of one client.
Truthful(c) ==
  /\ at[c] = "asked" /\ reply[c] = "ok" => c \in applied
  /\ conn[c].stage = "answering" /\ conn[c].req = "index" => (conn[c].answer = "ok" <=> c \in applied)

Fine(c) == Asking(c) /\ Served(c) /\ Applied(c) /\ Stopping(c) /\ Truthful(c)

\* The queue of an indexer holds the commands relayed to it, each once, and goes with it.
Queued ==
  \A d \in Daemons :
    /\ indexer[d] # "live" => queue[d] = <<>>
    /\ \A i \in 1..Len(queue[d]) :
         LET c == queue[d][i]
         IN  /\ conn[c].to = d /\ conn[c].stage = "relayed"
             /\ \A j \in 1..Len(queue[d]) : queue[d][j] = c => i = j

\* The files name the process that works, until a stop sweeps them from under it.
Named ==
  ~swept => \A d \in Daemons : pc[d] \in {"described", "running", "drained"} => files = d

CInv == IInv /\ Terminal /\ Queued /\ Named /\ \A c \in Clients : Fine(c)

LEMMA InitCInv == Init => CInv
  <1> SUFFICES ASSUME Init PROVE CInv
    OBVIOUS
  <1>1. IInv
    BY InitHolds
  <1>2. Terminal
    <2>1. cmd \in [Clients -> {"start", "stop", "restart", "index", "watch"}]
      BY CommandAssumption DEF Init
    <2>2. NoConn \in [to : Daemons \cup {None}, req : Requests, stage : Stages,
                      answer : {"none", "ok", "error"}]
      BY DEF NoConn, Requests, Stages
    <2>3. <<>> \in Seq(Clients)
      OBVIOUS
    <2> QED BY <2>1, <2>2, <2>3 DEF Init, Terminal, Steps
  <1>3. Queued
    BY DEF Init, Queued
  <1>4. Named
    BY DEF Init, Named
  <1>5. ASSUME NEW c \in Clients
        PROVE  Fine(c)
    BY DEF Init, NoConn, Fine, Open, Asking, Served, Applied, Stopping, Truthful
  <1> QED BY <1>1, <1>2, <1>3, <1>4, <1>5 DEF CInv

\* Processes only start and move on as far as the clients can tell.
Onward ==
  /\ \A d \in Daemons : \/ pc'[d] = pc[d]
                        \/ pc[d] \in {"none", "spawned", "locked", "bound", "described"}
                        \/ pc[d] = "running" /\ pc'[d] = "drained"
                        \/ pc[d] = "drained" /\ pc'[d] = "removed"
                        \/ pc[d] = "removed" /\ pc'[d] = "unlocked"
  /\ swept => swept'

\* A step that concerns one client at most.
LEMMA ClientStep ==
  ASSUME CInv, NEW c \in Clients, IInv', Terminal', Named', Onward, Fine(c)',
         \A e \in Clients \ {c} : /\ at'[e] = at[e] /\ conn'[e] = conn[e]
                                  /\ reply'[e] = reply[e] /\ acked'[e] = acked[e],
         UNCHANGED <<applied, queue, indexer>>,
         conn'[c] = conn[c] \/ conn[c].stage # "relayed"
  PROVE  CInv'
  <1>1. ASSUME NEW e \in Clients \ {c}
        PROVE  Fine(e)'
    <2>1. Fine(e) /\ acked[e] \in Daemons \cup {None}
      BY DEF CInv, Terminal
    <2>2. /\ at'[e] = at[e] /\ conn'[e] = conn[e] /\ reply'[e] = reply[e]
          /\ acked'[e] = acked[e] /\ applied' = applied
      OBVIOUS
    <2>3. Asking(e)' /\ Applied(e)' /\ Truthful(e)'
      BY <2>1, <2>2 DEF Fine, Asking, Applied, Truthful, Open
    <2>4. \A d \in Daemons :
            /\ pc[d] \in Over => pc'[d] \in Over
            /\ pc[d] \in {"running"} \cup Over => pc'[d] \in {"running"} \cup Over
            /\ pc[d] \in {"running", "drained", "removed", "unlocked"} =>
                 pc'[d] \in {"running", "drained", "removed", "unlocked"}
      BY DEF Onward, Over
    <2>5. Served(e)'
      BY <2>1, <2>2, <2>4 DEF Fine, Served
    <2>6. Stopping(e)'
      BY <2>1, <2>2, <2>4, PidAssumption DEF Fine, Stopping, Onward
    <2> QED BY <2>3, <2>5, <2>6 DEF Fine
  <1>2. Queued'
    <2>1. Queued /\ Terminal
      BY DEF CInv
    <2>2. \A d \in Daemons : \A i \in 1..Len(queue[d]) :
            queue[d][i] \in Clients /\ conn'[queue[d][i]] = conn[queue[d][i]]
      BY <2>1 DEF Queued, Terminal
    <2> QED BY <2>1, <2>2 DEF Queued
  <1> QED BY <1>1, <1>2 DEF CInv

------------------------------------------------------------------------------
(* The commands' steps *)

ConnType == [to : Daemons \cup {None}, req : Requests, stage : Stages,
             answer : {"none", "ok", "error"}]

\* What a command's request leaves behind, made when the last one is over.
LEMMA RequestFine ==
  ASSUME CInv, NEW c \in Clients, NEW req \in Requests, NEW next \in Steps,
         Request(c, req, next), Asked(next) = req, next # "done",
         at[c] \notin {"asked", "done"}, ~Open(c),
         Onward, UNCHANGED <<cmd, queue, applied>>,
         IInv',
         next = "check" => acked[c] \in Daemons /\ (swept' \/ pc'[acked[c]] \in Over)
  PROVE  /\ Terminal' /\ Fine(c)'
         /\ \A e \in Clients \ {c} : /\ at'[e] = at[e] /\ conn'[e] = conn[e]
                                     /\ reply'[e] = reply[e] /\ acked'[e] = acked[e]
         /\ conn'[c] = conn[c] \/ conn[c].stage # "relayed"
  <1>1. Terminal /\ Fine(c) /\ IInv
    BY DEF CInv
  <1>2. at' = [at EXCEPT ![c] = next] /\ acked' = acked
    BY DEF Request
  <1>3. \/ reply' = [reply EXCEPT ![c] = "error"] /\ conn' = conn
        \/ /\ reply' = [reply EXCEPT ![c] = "none"]
           /\ socket \in listeners
           /\ conn' = [conn EXCEPT ![c] = [to |-> socket, req |-> req, stage |-> "backlog",
                                           answer |-> "none"]]
    BY DEF Request
  <1>4. socket \in listeners /\ socket # None => socket \in Daemons
    BY <1>1 DEF IInv, Process
  <1>5. \/ reply'[c] = "error" /\ conn'[c] = conn[c]
        \/ reply'[c] = "none" /\ conn'[c].stage = "backlog" /\ conn'[c].req = req
    BY <1>1, <1>3 DEF Terminal
  <1>6. at'[c] = next /\ acked'[c] = acked[c]
    BY <1>1, <1>2 DEF Terminal
  <1>7. Terminal'
    <2>1. at' \in [Clients -> Steps] /\ reply' \in [Clients -> {"none", "ok", "error"}]
      BY <1>1, <1>2, <1>3 DEF Terminal
    <2>2. conn' \in [Clients -> ConnType]
      <3>1. CASE conn' = conn
        BY <1>1, <3>1 DEF Terminal, ConnType
      <3>2. CASE conn' = [conn EXCEPT ![c] = [to |-> socket, req |-> req, stage |-> "backlog",
                                              answer |-> "none"]]
        <4>1. socket \in Daemons \cup {None}
          BY <1>1 DEF IInv, Process
        <4>2. [to |-> socket, req |-> req, stage |-> "backlog", answer |-> "none"] \in ConnType
          BY <4>1 DEF ConnType, Stages
        <4> QED BY <1>1, <3>2, <4>2 DEF Terminal, ConnType
      <3> QED BY <1>3, <3>1, <3>2
    <2> QED BY <1>1, <1>2, <2>1, <2>2 DEF Terminal, ConnType
  <1>8. Asking(c)'
    BY <1>5, <1>6 DEF Asking, Open
  <1>9. Served(c)'
    BY <1>5 DEF Served, Open
  <1>10. c \notin applied'
    BY <1>1 DEF Fine, Applied
  <1>11. Applied(c)' /\ Truthful(c)'
    BY <1>5, <1>6, <1>10 DEF Applied, Truthful, Open
  <1>12. Stopping(c)'
    <2>1. Asked("wait") = "nothing" /\ Asked("sent") = "stop"
      BY DEF Asked, Pings
    <2>2. next # "wait"
      BY <2>1 DEF Requests
    <2>3. reply'[c] # "ok"
      BY <1>5
    <2>4. acked[c] # None => pc'[acked[c]] \in {"running"} \cup Over
      BY <1>1 DEF Fine, Stopping, Onward, Over, Terminal
    <2> QED BY <1>6, <2>2, <2>3, <2>4 DEF Stopping
  <1>13. \A e \in Clients \ {c} : /\ at'[e] = at[e] /\ conn'[e] = conn[e]
                                  /\ reply'[e] = reply[e] /\ acked'[e] = acked[e]
    BY <1>1, <1>2, <1>3 DEF Terminal
  <1>14. conn[c].stage # "relayed"
    BY DEF Open
  <1> QED BY <1>7, <1>8, <1>9, <1>11, <1>12, <1>13, <1>14 DEF Fine

\* And what it leaves when it is done or goes on without asking.
LEMMA DoneFine ==
  ASSUME CInv, NEW c \in Clients, Done(c), Onward, UNCHANGED <<cmd, conn, queue>>,
         Open(c) => conn[c].req # "ping"
  PROVE  /\ Terminal' /\ Fine(c)' /\ applied' = applied
         /\ \A e \in Clients \ {c} : /\ at'[e] = at[e] /\ conn'[e] = conn[e]
                                     /\ reply'[e] = reply[e] /\ acked'[e] = acked[e]
         /\ conn'[c] = conn[c]
  <1>1. Terminal /\ Fine(c)
    BY DEF CInv
  <1>2. /\ at' = [at EXCEPT ![c] = "done"] /\ reply' = [reply EXCEPT ![c] = "none"]
        /\ acked' = [acked EXCEPT ![c] = None] /\ applied' = applied
    BY DEF Done
  <1>3. at'[c] = "done" /\ reply'[c] = "none" /\ acked'[c] = None /\ conn'[c] = conn[c]
    BY <1>1, <1>2 DEF Terminal
  <1>4. Terminal'
    BY <1>1, <1>2 DEF Terminal, Steps
  <1>5. Asking(c)' /\ Applied(c)' /\ Truthful(c)' /\ Stopping(c)'
    BY <1>1, <1>2, <1>3 DEF Fine, Asking, Applied, Truthful, Stopping, Open
  <1>6. Served(c)'
    BY <1>1, <1>3 DEF Fine, Served, Onward
  <1>7. \A e \in Clients \ {c} : /\ at'[e] = at[e] /\ conn'[e] = conn[e]
                                 /\ reply'[e] = reply[e] /\ acked'[e] = acked[e]
    BY <1>1, <1>2 DEF Terminal
  <1> QED BY <1>2, <1>3, <1>4, <1>5, <1>6, <1>7 DEF Fine

LEMMA GoesFine ==
  ASSUME CInv, NEW c \in Clients, NEW next \in {"wait", "sweep"}, Goes(c, next),
         UNCHANGED <<cmd, conn, queue, pc>>,
         at[c] \notin {"asked", "done"}, ~Open(c),
         next = "wait" => acked[c] \in Daemons
  PROVE  /\ Terminal' /\ Fine(c)' /\ applied' = applied
         /\ \A e \in Clients \ {c} : /\ at'[e] = at[e] /\ conn'[e] = conn[e]
                                     /\ reply'[e] = reply[e] /\ acked'[e] = acked[e]
         /\ conn'[c] = conn[c]
  <1>1. Terminal /\ Fine(c)
    BY DEF CInv
  <1>2. at' = [at EXCEPT ![c] = next] /\ UNCHANGED <<reply, acked, applied>>
    BY DEF Goes
  <1>3. at'[c] = next
    BY <1>1, <1>2 DEF Terminal
  <1>4. Terminal'
    BY <1>1, <1>2 DEF Terminal, Steps
  <1>5. Asking(c)' /\ Applied(c)' /\ Truthful(c)' /\ Stopping(c)' /\ Served(c)'
    BY <1>1, <1>2, <1>3 DEF Fine, Asking, Applied, Truthful, Stopping, Served, Open
  <1> QED BY <1>1, <1>2, <1>4, <1>5 DEF Fine, Terminal

\* When a command may go on it has no connection left, but for a Stop or Index it gave up.
LEMMA Answered ==
  ASSUME CInv, NEW c \in Clients, at[c] # "done"
  PROVE  /\ at[c] \in {"idle", "wait", "sweep"} => ~Open(c)
         /\ at[c] \in Pings /\ reply[c] # "none" => ~Open(c)
         /\ at[c] = "sent" /\ reply[c] = "ok" => ~Open(c)
         /\ at[c] \notin Pings => (Open(c) => conn[c].req # "ping")
  <1>1. Terminal /\ Asking(c)
    BY DEF CInv, Fine
  <1>2. conn[c].req \in Requests
    BY <1>1 DEF Terminal
  <1>3. /\ at[c] \in {"idle", "wait", "sweep"} => Asked(at[c]) = "nothing"
        /\ at[c] \in Pings => Asked(at[c]) = "ping"
        /\ at[c] = "sent" => Asked(at[c]) = "stop"
        /\ at[c] \notin Pings => Asked(at[c]) # "ping"
    BY DEF Asked, Pings
  <1> QED BY <1>1, <1>2, <1>3 DEF Asking, Requests

LEMMA CommandKeeps ==
  ASSUME CInv, NEW c \in Clients, Command(c)
  PROVE  CInv'
  <1>1. IInv /\ Terminal /\ Named /\ Fine(c)
    BY DEF CInv
  <1>2. IInv'
    BY <1>1, CommandAround, AroundHolds
  <1> DEFINE Others == \A e \in Clients \ {c} : /\ at'[e] = at[e] /\ conn'[e] = conn[e]
                                                /\ reply'[e] = reply[e] /\ acked'[e] = acked[e]
             Same == conn'[c] = conn[c] \/ conn[c].stage # "relayed"
             Quiet == UNCHANGED <<daemonVars, cmd, swept>>
             Fit == Terminal' /\ Fine(c)' /\ Others /\ Same
  <1>a. ASSUME Quiet
        PROVE  Named' /\ Onward /\ UNCHANGED <<queue, indexer, cmd, pc>>
    BY <1>1, <1>a DEF daemonVars, Named, Onward
  <1>b. ASSUME Quiet, Fit, applied' = applied
        PROVE  CInv'
    BY <1>2, <1>a, <1>b, ClientStep
  <1>c. ASSUME NEW req \in Requests, NEW next \in Steps, Request(c, req, next), Quiet,
               Asked(next) = req, next # "done", at[c] \notin {"asked", "done"}, ~Open(c),
               next = "check" => acked[c] \in Daemons /\ (swept \/ pc[acked[c]] \in Over)
        PROVE  CInv'
    <2>1. applied' = applied
      BY <1>c DEF Request
    <2>2. Fit
      BY <1>2, <1>a, <1>c, <2>1, RequestFine
    <2> QED BY <1>b, <1>c, <2>1, <2>2
  <1>d. ASSUME Done(c), Quiet, UNCHANGED conn, Open(c) => conn[c].req # "ping"
        PROVE  CInv'
    <2>1. Fit /\ applied' = applied
      BY <1>a, <1>d, DoneFine
    <2> QED BY <1>b, <1>d, <2>1
  <1>e. ASSUME NEW next \in {"wait", "sweep"}, Goes(c, next), Quiet, UNCHANGED conn,
               at[c] \notin {"asked", "done"}, ~Open(c), next = "wait" => acked[c] \in Daemons
        PROVE  CInv'
    <2>1. Fit /\ applied' = applied
      BY <1>a, <1>e, GoesFine
    <2> QED BY <1>b, <1>e, <2>1
  <1>f. /\ \A step \in Pings : step \in Steps /\ Asked(step) = "ping" /\ step # "done"
        /\ Asked("sent") = "stop" /\ Asked("asked") = "index" /\ Asked("watch") = "watch"
        /\ {"sent", "asked", "watch"} \subseteq Steps
        /\ Requests = {"ping", "stop", "index", "watch"}
    BY DEF Asked, Pings, Steps, Requests
  <1>g. /\ at[c] \in {"idle", "wait", "sweep"} => ~Open(c)
        /\ at[c] \in Pings /\ reply[c] # "none" => ~Open(c)
        /\ at[c] = "sent" /\ reply[c] = "ok" => ~Open(c)
        /\ at[c] # "done" /\ at[c] \notin Pings => (Open(c) => conn[c].req # "ping")
    BY Answered DEF Pings
  <1>3. CASE Begin(c)
    <2>1. at[c] = "idle" /\ Quiet
      BY <1>3 DEF Begin
    <2>2. CASE Request(c, "watch", "watch")
      BY <1>c, <1>f, <1>g, <2>1, <2>2
    <2>3. CASE cmd[c] # "watch" /\ Request(c, "ping", cmd[c])
      <3>1. cmd[c] \in {"start", "stop", "restart", "index"}
        BY <1>1, <2>3 DEF Terminal
      <3>2. cmd[c] \in Pings
        BY <3>1 DEF Pings
      <3> QED BY <1>c, <1>f, <1>g, <2>1, <2>3, <3>1, <3>2
    <2> QED BY <1>3, <2>2, <2>3 DEF Begin
  <1>4. CASE StartFindsIt(c)
    BY <1>4, <1>d, <1>g DEF StartFindsIt, Pings
  <1>5. CASE Poll(c)
    <2>1. at[c] = "poll" /\ reply[c] # "none" /\ Quiet /\ ~Open(c)
      BY <1>5, <1>g DEF Poll, Pings
    <2>2. CASE Done(c) /\ UNCHANGED conn
      BY <1>d, <2>1, <2>2
    <2>3. CASE Request(c, "ping", "poll")
      <3>1. "poll" \in Pings
        BY DEF Pings
      <3> QED BY <1>c, <1>f, <2>1, <2>3, <3>1
    <2> QED BY <1>5, <2>2, <2>3 DEF Poll
  <1>6. CASE StopFindsNobody(c)
    <2>1. at[c] \in {"stop", "restart"} /\ reply[c] = "error" /\ Quiet /\ ~Open(c)
      BY <1>6, <1>g DEF StopFindsNobody, Pings
    <2>2. CASE Request(c, "ping", "start")
      <3>1. "start" \in Pings
        BY DEF Pings
      <3> QED BY <1>c, <1>f, <2>1, <2>2, <3>1
    <2>3. CASE Goes(c, "sweep") /\ UNCHANGED conn
      BY <1>e, <2>1, <2>3
    <2>4. CASE Done(c) /\ UNCHANGED conn
      BY <1>d, <2>1, <2>4
    <2> QED BY <1>6, <2>2, <2>3, <2>4 DEF StopFindsNobody
  <1>7. CASE SendStop(c)
    <2>1. at[c] \in {"stop", "restart"} /\ reply[c] = "ok" /\ Quiet /\ ~Open(c)
      BY <1>7, <1>g DEF SendStop, Pings
    <2> QED BY <1>7, <1>c, <1>f, <2>1 DEF SendStop
  <1>8. CASE StopWaits(c)
    <2>0. Quiet
      BY <1>8 DEF StopWaits
    <2>1. CASE at[c] = "sent" /\ Done(c) /\ UNCHANGED conn
      BY <1>d, <1>g, <2>0, <2>1 DEF Pings
    <2>2. CASE at[c] = "sent" /\ reply[c] = "ok" /\ Goes(c, "wait") /\ UNCHANGED conn
      <3>1. acked[c] \in Daemons
        BY <1>1, <2>2 DEF Fine, Stopping
      <3> QED BY <1>e, <1>g, <2>0, <2>2, <3>1
    <2>3. CASE at[c] = "wait" /\ files = None /\ Request(c, "ping", "check")
      <3>1. acked[c] \in Daemons /\ pc[acked[c]] \in {"running"} \cup Over
        BY <1>1, <2>3, PidAssumption DEF Fine, Stopping
      <3>2. swept \/ pc[acked[c]] # "running"
        BY <1>1, <2>3, <3>1, PidAssumption DEF Named
      <3>3. "check" \in Pings
        BY DEF Pings
      <3> QED BY <1>c, <1>f, <1>g, <2>0, <2>3, <3>1, <3>2, <3>3
    <2>4. CASE at[c] = "wait" /\ Done(c) /\ UNCHANGED conn
      BY <1>d, <1>g, <2>0, <2>4
    <2>5. CASE at[c] = "check" /\ reply[c] = "ok" /\ Goes(c, "wait") /\ UNCHANGED conn
      <3>1. acked[c] \in Daemons
        BY <1>1, <2>5 DEF Fine, Stopping
      <3>2. ~Open(c)
        BY <1>g, <2>5 DEF Pings
      <3> QED BY <1>e, <2>0, <2>5, <3>1, <3>2
    <2> QED BY <1>8, <2>1, <2>2, <2>3, <2>4, <2>5 DEF StopWaits
  <1>9. CASE Stopped(c)
    <2>1. at[c] = "check" /\ reply[c] = "error" /\ Quiet /\ ~Open(c)
      BY <1>9, <1>g DEF Stopped, Pings
    <2>2. CASE Request(c, "ping", "start")
      <3>1. "start" \in Pings
        BY DEF Pings
      <3> QED BY <1>c, <1>f, <2>1, <2>2, <3>1
    <2>3. CASE Done(c) /\ UNCHANGED conn
      BY <1>d, <2>1, <2>3
    <2> QED BY <1>9, <2>2, <2>3 DEF Stopped
  <1>10. CASE delegate(c)
    <2>1. at[c] = "index" /\ reply[c] = "ok" /\ Quiet /\ ~Open(c)
      BY <1>10, <1>g DEF delegate, Pings
    <2> QED BY <1>10, <1>c, <1>f, <2>1 DEF delegate
  <1>11. CASE IndexTells(c)
    <2>1. Quiet /\ Done(c) /\ UNCHANGED conn
      BY <1>11 DEF IndexTells
    <2>2. CASE at[c] = "index" /\ reply[c] = "error"
      BY <1>d, <1>g, <2>1, <2>2 DEF Pings
    <2>3. CASE at[c] = "asked"
      BY <1>d, <1>g, <2>1, <2>3 DEF Pings
    <2> QED BY <1>11, <2>2, <2>3 DEF IndexTells
  <1>12. CASE WatchEnds(c)
    BY <1>12, <1>d, <1>g DEF WatchEnds, Pings
  <1>13. CASE TimeOut(c)
    <2>1. /\ conn[c].stage \in {"backlog", "relayed"} /\ reply[c] = "none"
          /\ reply' = [reply EXCEPT ![c] = "error"]
          /\ conn' = IF conn[c].req \in {"ping", "watch"} THEN [conn EXCEPT ![c] = NoConn] ELSE conn
          /\ UNCHANGED <<cmd, at, acked, applied, queue>> /\ Quiet
      BY <1>13 DEF TimeOut, daemonVars
    <2>2. NoConn \in ConnType /\ NoConn.stage = "none" /\ NoConn.req = "ping"
      BY DEF NoConn, ConnType, Requests, Stages
    <2>3. Terminal'
      <3>1. conn' \in [Clients -> ConnType]
        BY <1>1, <2>1, <2>2 DEF Terminal, ConnType
      <3>2. reply' \in [Clients -> {"none", "ok", "error"}] /\ socket' = socket
        BY <1>1, <2>1 DEF Terminal, daemonVars
      <3> QED BY <1>1, <2>1, <3>1, <3>2 DEF Terminal, ConnType
    <2>4. reply'[c] = "error" /\ (conn'[c] = NoConn \/ conn'[c] = conn[c])
      BY <1>1, <2>1 DEF Terminal
    <2>5. conn'[c] = conn[c] => conn[c].req \notin {"ping", "watch"} \/ conn[c] = NoConn
      BY <1>1, <2>1 DEF Terminal
    <2>6. Fine(c)'
      <3>1. conn'[c] = NoConn => conn'[c].stage = "none"
        BY <2>2
      <3>2. pc' = pc /\ swept' = swept
        BY <2>1 DEF daemonVars
      <3>3. Asking(c)'
        BY <1>1, <2>1, <2>2, <2>4, <2>5 DEF Fine, Asking, Open
      <3>4. Served(c)' /\ Applied(c)' /\ Truthful(c)'
        BY <1>1, <2>1, <2>4, <3>1, <3>2 DEF Fine, Served, Applied, Truthful
      <3>5. Stopping(c)'
        BY <1>1, <2>1, <2>4, <3>2 DEF Fine, Stopping
      <3> QED BY <3>3, <3>4, <3>5 DEF Fine
    <2>7. Others
      BY <1>1, <2>1 DEF Terminal
    <2>8. Same
      <3>1. conn[c].stage = "relayed" => conn[c].req = "index"
        BY <1>1 DEF Fine, Applied
      <3> QED BY <2>1, <3>1
    <2> QED BY <1>b, <2>1, <2>3, <2>6, <2>7, <2>8
  <1>14. CASE Sweep(c)
    <2>1. /\ at[c] = "sweep" /\ Done(c) /\ UNCHANGED <<pc, lock, indexer, queue, cmd, conn>>
          /\ swept' = (swept \/ (files # None /\ files = lock)) /\ files' = None
      BY <1>14 DEF Sweep
    <2>2. Onward
      BY <2>1 DEF Onward
    <2>3. Fit /\ applied' = applied
      BY <1>g, <2>1, <2>2, DoneFine
    <2>4. Named'
      <3>1. ~swept' => \A d \in Daemons : pc[d] \notin {"described", "running", "drained"}
        BY <1>1, <2>1, PidAssumption DEF Named, IInv, Locked, Holding
      <3> QED BY <2>1, <3>1 DEF Named
    <2> QED BY <1>2, <2>1, <2>2, <2>3, <2>4, ClientStep
  <1>15. ASSUME NEW d \in Daemons, spawn_detached(c, d)
         PROVE  CInv'
    <2>1. /\ at[c] = "start" /\ reply[c] = "error" /\ pc[d] = "none"
          /\ pc' = [pc EXCEPT ![d] = "spawned"] /\ Request(c, "ping", "poll")
          /\ UNCHANGED <<files, indexer, queue, cmd, swept>>
      BY <1>15 DEF spawn_detached
    <2>2. Onward
      BY <1>1, <2>1 DEF Onward, IInv, Process
    <2>3. ~Open(c) /\ "poll" \in Pings /\ applied' = applied
      BY <1>g, <2>1 DEF Pings, Request
    <2>4. Fit
      BY <1>2, <1>f, <2>1, <2>2, <2>3, RequestFine
    <2>5. Named'
      BY <1>1, <2>1 DEF Named, IInv, Process
    <2> QED BY <1>2, <2>1, <2>2, <2>3, <2>4, <2>5, ClientStep
  <1> QED BY <1>3, <1>4, <1>5, <1>6, <1>7, <1>8, <1>9, <1>10, <1>11, <1>12, <1>13, <1>14, <1>15
      DEF Command


------------------------------------------------------------------------------
(* The steps that end connections, or leave every client alone *)

\* The connections of C are gone, the queues hold what they held but for those emptied, and
\* no process goes back to an earlier place.
LEMMA HangKeeps ==
  ASSUME CInv, NEW C \in SUBSET Clients, Hangs(C), UNCHANGED <<cmd, at, acked, applied, swept>>,
         IInv', Named', queue' \in [Daemons -> Seq(Clients)],
         \A d \in Daemons : /\ pc[d] \in {"running"} \cup Over => pc'[d] \in {"running"} \cup Over
                            /\ pc[d] \in Over => pc'[d] \in Over,
         \A e \in Clients \ C : Served(e) => \/ ~Open(e) \/ conn[e].stage = "backlog"
                                             \/ pc'[conn[e].to] \in {"running", "drained", "removed", "unlocked"},
         \A d \in Daemons :
           /\ \/ queue'[d] = <<>>
              \/ queue'[d] = queue[d] /\ \A c \in C : conn[c].to = d => conn[c].stage # "relayed"
           /\ indexer'[d] # "live" => indexer[d] # "live" \/ queue'[d] = <<>>
  PROVE  CInv'
  <1>1. Terminal /\ Queued
    BY DEF CInv
  <1>2. /\ conn' = [c \in Clients |-> IF c \in C THEN NoConn ELSE conn[c]]
        /\ reply' = [c \in Clients |-> IF c \in C /\ Waits(c) THEN "error" ELSE reply[c]]
    BY DEF Hangs
  <1>3. NoConn \in ConnType /\ NoConn.stage = "none" /\ NoConn.req = "ping"
    BY DEF NoConn, ConnType, Requests, Stages
  <1>4. Terminal'
    <2>1. conn' \in [Clients -> ConnType]
      BY <1>1, <1>2, <1>3 DEF Terminal, ConnType
    <2>2. reply' \in [Clients -> {"none", "ok", "error"}]
      BY <1>1, <1>2 DEF Terminal
    <2> QED BY <1>1, <2>1, <2>2 DEF Terminal, ConnType
  <1>5. ASSUME NEW e \in Clients
        PROVE  Fine(e)'
    <2>1. Fine(e) /\ acked[e] \in Daemons \cup {None}
      BY <1>1 DEF CInv, Terminal
    <2>2. at'[e] = at[e] /\ acked'[e] = acked[e] /\ applied' = applied /\ swept' = swept
      OBVIOUS
    <2>3. reply'[e] = "ok" => reply[e] = "ok"
      BY <1>2
    <2>4. Stopping(e)'
      <3> DEFINE a == acked[e]
      <3>1. /\ a # None => pc[a] \in {"running"} \cup Over
            /\ (at[e] = "sent" /\ reply[e] = "ok") \/ at[e] \in {"wait", "check"} => a \in Daemons
            /\ at[e] = "check" => swept \/ pc[a] \in Over
        BY <2>1 DEF Fine, Stopping
      <3>2. a \in Daemons \cup {None}
        BY <2>1
      <3>3. /\ a # None => pc'[a] \in {"running"} \cup Over
            /\ at[e] = "check" => swept \/ pc'[a] \in Over
        BY <3>1, <3>2, PidAssumption
      <3> QED BY <2>2, <2>3, <3>1, <3>3 DEF Stopping
    <2>5. CASE e \in C
      <3>1. conn'[e].stage = "none"
        BY <1>2, <1>3, <2>5
      <3> QED BY <2>1, <2>2, <2>3, <2>4, <3>1 DEF Fine, Asking, Served, Applied, Truthful, Open
    <2>6. CASE e \notin C
      <3>1. conn'[e] = conn[e] /\ reply'[e] = reply[e]
        BY <1>2, <2>6
      <3>2. Asking(e)' /\ Applied(e)' /\ Truthful(e)'
        BY <2>1, <2>2, <3>1 DEF Fine, Asking, Applied, Truthful, Open
      <3>3. Served(e)'
        BY <2>1, <2>6, <3>1 DEF Fine, Served, Open
      <3> QED BY <2>4, <3>2, <3>3 DEF Fine
    <2> QED BY <2>5, <2>6
  <1>6. Queued'
    <2> SUFFICES ASSUME NEW d \in Daemons
                 PROVE  /\ indexer'[d] # "live" => queue'[d] = <<>>
                        /\ \A i \in 1..Len(queue'[d]) :
                             /\ conn'[queue'[d][i]].to = d /\ conn'[queue'[d][i]].stage = "relayed"
                             /\ \A j \in 1..Len(queue'[d]) : queue'[d][j] = queue'[d][i] => i = j
      BY DEF Queued
    <2>1. CASE queue'[d] = <<>>
      BY <2>1
    <2>2. CASE queue'[d] = queue[d] /\ \A c \in C : conn[c].to = d => conn[c].stage # "relayed"
      <3>1. \A i \in 1..Len(queue[d]) : queue[d][i] \in Clients
        BY <1>1 DEF Terminal
      <3>2. \A i \in 1..Len(queue[d]) : /\ conn[queue[d][i]].to = d
                                        /\ conn[queue[d][i]].stage = "relayed"
                                        /\ \A j \in 1..Len(queue[d]) : queue[d][j] = queue[d][i] => i = j
        BY <1>1 DEF Queued
      <3>3. \A i \in 1..Len(queue[d]) : conn'[queue[d][i]] = conn[queue[d][i]]
        BY <1>2, <2>2, <3>1, <3>2
      <3>4. indexer'[d] # "live" => queue'[d] = <<>>
        BY <1>1, <2>2 DEF Queued
      <3> QED BY <2>2, <3>2, <3>3, <3>4
    <2> QED BY <2>1, <2>2
  <1> QED BY <1>4, <1>5, <1>6 DEF CInv

\* No client and no queue is touched.
LEMMA AloneKeeps ==
  ASSUME CInv, UNCHANGED <<clientVars, queue>>, IInv', Named',
         \A d \in Daemons : /\ pc[d] \in {"running"} \cup Over => pc'[d] \in {"running"} \cup Over
                            /\ pc[d] \in Over => pc'[d] \in Over
                            /\ pc[d] \in {"running", "drained", "removed", "unlocked"} =>
                                 pc'[d] \in {"running", "drained", "removed", "unlocked"}
                            /\ indexer'[d] # "live" => indexer[d] # "live"
  PROVE  CInv'
  <1>1. Terminal /\ UNCHANGED <<cmd, at, conn, reply, acked, applied, swept>>
    BY DEF CInv, clientVars
  <1>2. Hangs({})
    BY <1>1 DEF Hangs, Terminal
  <1>3. {} \in SUBSET Clients /\ queue' \in [Daemons -> Seq(Clients)]
    BY <1>1 DEF Terminal
  <1>4. \A e \in Clients \ {} : Served(e) => \/ ~Open(e) \/ conn[e].stage = "backlog"
                                             \/ pc'[conn[e].to] \in {"running", "drained", "removed", "unlocked"}
    <2>1. \A e \in Clients : conn[e].stage \in Stages
      BY <1>1 DEF Terminal
    <2> QED BY <2>1 DEF Served, Open, Stages
  <1> QED BY <1>1, <1>2, <1>3, <1>4, HangKeeps

LEMMA RunKeeps ==
  ASSUME CInv, NEW d \in Daemons, Run(d)
  PROVE  CInv'
  <1>1. IInv /\ Terminal /\ Named /\ Queued
    BY DEF CInv
  <1>2. IInv'
    BY <1>1, RunHolds
  <1>3. pc \in [Daemons -> Places] /\ indexer \in [Daemons -> {"off", "live", "ended"}]
    BY <1>1 DEF IInv, Process
  <1>4. CASE Acquire(d)
    BY <1>1, <1>2, <1>3, <1>4, AloneKeeps DEF Acquire, Named, Over, clientVars
  <1>5. CASE Bind(d)
    BY <1>1, <1>2, <1>3, <1>5, AloneKeeps DEF Bind, Named, Over, clientVars
  <1>6. CASE WriteInfo(d)
    <2>1. Named'
      BY <1>1, <1>3, <1>6 DEF WriteInfo, Named, IInv, Locked, Holding, clientVars
    <2> QED BY <1>2, <1>3, <1>6, <2>1, AloneKeeps DEF WriteInfo, Over
  <1>7. CASE Spawn(d)
    BY <1>1, <1>2, <1>3, <1>7, AloneKeeps DEF Spawn, Named, Over, clientVars
  <1>8. CASE Drained(d)
    BY <1>1, <1>2, <1>3, <1>8, AloneKeeps DEF Drained, Named, Over, clientVars
  <1>9. CASE RemoveInfo(d)
    <2>1. Named'
      BY <1>1, <1>3, <1>9 DEF RemoveInfo, Named, IInv, Locked, Holding, clientVars
    <2> QED BY <1>2, <1>3, <1>9, <2>1, AloneKeeps DEF RemoveInfo, Over
  <1>10. CASE Unlock(d)
    BY <1>1, <1>2, <1>3, <1>10, AloneKeeps DEF Unlock, Named, Over, clientVars
  <1>11. CASE Exit(d)
    <2>1. /\ Hangs(To(d, Stages)) /\ pc' = [pc EXCEPT ![d] = "dead"] /\ pc[d] = "unlocked"
          /\ UNCHANGED <<files, indexer, queue, cmd, at, acked, applied, swept>>
      BY <1>11 DEF Exit
    <2>2. queue[d] = <<>>
      BY <1>1, <2>1 DEF IInv, Working, Works, Queued
    <2>3. Named'
      BY <1>1, <1>3, <2>1 DEF Named
    <2>4. To(d, Stages) \in SUBSET Clients /\ queue' \in [Daemons -> Seq(Clients)]
      BY <1>1, <2>1 DEF To, Terminal
    <2>5. \A e \in Clients \ To(d, Stages) : conn[e].to # d /\ conn[e].stage \in Stages
      BY <1>1 DEF To, Terminal
    <2>6. \A e \in Clients \ To(d, Stages) : Served(e) =>
            \/ ~Open(e) \/ conn[e].stage = "backlog"
            \/ pc'[conn[e].to] \in {"running", "drained", "removed", "unlocked"}
      BY <1>3, <2>1, <2>5 DEF Served, Open, Stages
    <2>7. \A c \in To(d, Stages) : conn[c].to = d
      BY DEF To
    <2> QED BY <1>2, <1>3, <2>1, <2>2, <2>3, <2>4, <2>6, <2>7, HangKeeps DEF Over
  <1> QED BY <1>4, <1>5, <1>6, <1>7, <1>8, <1>9, <1>10, <1>11 DEF Run

\* A process that dies takes every connection to it, and what was relayed to its indexer.
LEMMA DeathKeeps ==
  ASSUME CInv, NEW d \in Daemons, IInv', pc' = [pc EXCEPT ![d] = "dead"], Hangs(To(d, Stages)),
         UNCHANGED <<files, cmd, at, acked, applied, swept>>,
         queue' = [queue EXCEPT ![d] = <<>>], indexer' \in {indexer, [indexer EXCEPT ![d] = "off"]}
  PROVE  CInv'
  <1>1. IInv /\ Terminal /\ Named
    BY DEF CInv
  <1>2. pc \in [Daemons -> Places] /\ indexer \in [Daemons -> {"off", "live", "ended"}]
    BY <1>1 DEF IInv, Process
  <1>3. Named'
    BY <1>1, <1>2 DEF Named
  <1>4. To(d, Stages) \in SUBSET Clients /\ \A c \in To(d, Stages) : conn[c].to = d
    BY DEF To
  <1>5. queue' \in [Daemons -> Seq(Clients)]
    BY <1>1 DEF Terminal
  <1>6. \A e \in Clients \ To(d, Stages) : conn[e].to # d /\ conn[e].stage \in Stages
    BY <1>1 DEF To, Terminal
  <1>7. \A e \in Clients \ To(d, Stages) : Served(e) =>
          \/ ~Open(e) \/ conn[e].stage = "backlog"
          \/ pc'[conn[e].to] \in {"running", "drained", "removed", "unlocked"}
    BY <1>2, <1>6 DEF Served, Open, Stages
  <1>8. \A e \in Daemons :
          /\ \/ queue'[e] = <<>>
             \/ queue'[e] = queue[e] /\ \A c \in To(d, Stages) : conn[c].to = e => conn[c].stage # "relayed"
          /\ indexer'[e] # "live" => indexer[e] # "live" \/ queue'[e] = <<>>
    BY <1>1, <1>2, <1>4 DEF Terminal
  <1>9. \A e \in Daemons : /\ pc[e] \in {"running"} \cup Over => pc'[e] \in {"running"} \cup Over
                           /\ pc[e] \in Over => pc'[e] \in Over
    BY <1>2 DEF Over
  <1> QED BY <1>3, <1>4, <1>5, <1>7, <1>8, <1>9, HangKeeps

LEMMA WorldKeeps ==
  ASSUME CInv, NEW d \in Daemons, World(d)
  PROVE  CInv'
  <1>1. IInv /\ Terminal /\ Named /\ Queued
    BY DEF CInv
  <1>2. IInv'
    BY <1>1, WorldHolds
  <1>3. pc \in [Daemons -> Places] /\ indexer \in [Daemons -> {"off", "live", "ended"}]
    BY <1>1 DEF IInv, Process
  <1>4. CASE stop_on_signal(d)
    BY <1>1, <1>2, <1>4, AloneKeeps DEF stop_on_signal, Named, clientVars
  <1>5. CASE RoundBegins(d)
    BY <1>1, <1>2, <1>5, AloneKeeps DEF RoundBegins, Named, clientVars
  <1>6. CASE StartFails(d)
    <2>1. /\ pc[d] \in {"locked", "bound"} /\ pc' = [pc EXCEPT ![d] = "dead"]
          /\ Hangs(To(d, Stages)) /\ UNCHANGED <<files, indexer, queue, cmd, at, acked, applied, swept>>
      BY <1>6 DEF StartFails
    <2>2. queue[d] = <<>> /\ queue \in [Daemons -> Seq(Clients)]
      BY <1>1, <2>1 DEF IInv, Working, Works, Queued, Terminal
    <2>3. queue' = [queue EXCEPT ![d] = <<>>]
      BY <2>1, <2>2
    <2> QED BY <1>2, <2>1, <2>3, DeathKeeps
  <1>7. CASE Crash(d)
    BY <1>2, <1>7, DeathKeeps DEF Crash
  <1>8. CASE Publish(d)
    <2>1. PICK c \in To(d, {"watching"}) : at[c] = "done" /\ Hangs({c})
      BY <1>8 DEF Publish
    <2>2. c \in Clients /\ conn[c].stage = "watching"
      BY <2>1 DEF To
    <2>3. UNCHANGED <<pc, files, indexer, queue, cmd, at, acked, applied, swept>>
      BY <1>8 DEF Publish, daemonVars
    <2> QED BY <1>1, <1>2, <2>1, <2>2, <2>3, HangKeeps DEF Named, Terminal, Served, Open, Stages
  <1> QED BY <1>4, <1>5, <1>6, <1>7, <1>8 DEF World

------------------------------------------------------------------------------
(* The queue to the indexer *)

Once(s) == \A i, j \in 1..Len(s) : s[i] = s[j] => i = j

\* What is left of a queue without repetitions.
LEMMA TailOnce ==
  ASSUME NEW S, NEW s \in Seq(S), s # <<>>, Once(s)
  PROVE  /\ Tail(s) \in Seq(S) /\ Once(Tail(s))
         /\ \A i \in 1..Len(Tail(s)) : Tail(s)[i] # Head(s) /\ \E j \in 1..Len(s) : Tail(s)[i] = s[j]
  <1> DEFINE t == Tail(s)
  <1>1. t \in Seq(S) /\ Len(t) = Len(s) - 1 /\ Len(s) \in Nat \ {0} /\ Head(s) = s[1]
    OBVIOUS
  <1>2. ASSUME NEW i \in 1..Len(t)
        PROVE  t[i] = s[i + 1] /\ i + 1 \in 1..Len(s) /\ i + 1 # 1 /\ i \in Nat
    BY <1>1
  <1>3. 1 \in 1..Len(s)
    BY <1>1
  <1>4. ASSUME NEW i \in 1..Len(t)
        PROVE  t[i] # Head(s) /\ \E j \in 1..Len(s) : t[i] = s[j]
    BY <1>1, <1>2, <1>3 DEF Once
  <1>5. ASSUME NEW i \in 1..Len(t), NEW j \in 1..Len(t), t[i] = t[j]
        PROVE  i = j
    <2>1. t[i] = s[i + 1] /\ i + 1 \in 1..Len(s) /\ t[j] = s[j + 1] /\ j + 1 \in 1..Len(s)
      BY <1>2
    <2>2. i + 1 = j + 1
      BY <1>5, <2>1 DEF Once
    <2>3. i \in Nat /\ j \in Nat
      BY <1>2
    <2> QED BY <2>2, <2>3
  <1> HIDE DEF t
  <1>6. Once(t)
    BY <1>5 DEF Once
  <1> QED BY <1>1, <1>4, <1>6 DEF t

\* A command leaves the queue with its answer; the rest stay, each once.
LEMMA HandleKeeps ==
  ASSUME CInv, NEW d \in Daemons, handle_cmd(d)
  PROVE  CInv'
  <1>1. IInv /\ Terminal /\ Named /\ Queued
    BY DEF CInv
  <1>2. IInv'
    <2>1. Tasks(d)
      BY DEF Tasks
    <2> QED BY <1>1, <2>1, TasksHold
  <1>3. queue[d] \in Seq(Clients) /\ queue[d] # <<>> /\ indexer[d] = "live"
    BY <1>1 DEF handle_cmd, Terminal
  <1>4. PICK c \in Clients : c = Head(queue[d]) /\ c = queue[d][1] /\ Len(queue[d]) \in Nat \ {0}
    BY <1>3
  <1>5. conn[c].to = d /\ conn[c].stage = "relayed"
        /\ \A j \in 1..Len(queue[d]) : queue[d][j] = c => j = 1
    BY <1>1, <1>4 DEF Queued
  <1>6. PICK a \in {"ok", "error"} :
          /\ conn' = [conn EXCEPT ![c].stage = "answering", ![c].answer = a]
          /\ applied' = IF a = "ok" THEN applied \cup {c} ELSE applied
    BY <1>4 DEF handle_cmd
  <1>7. /\ queue' = [queue EXCEPT ![d] = Tail(@)]
        /\ UNCHANGED <<pc, files, indexer, cmd, at, reply, acked, swept>>
    BY DEF handle_cmd
  <1>8. Fine(c) /\ conn[c] \in ConnType
    BY <1>1, <1>4 DEF CInv, Terminal, ConnType
  <1>9. /\ conn'[c] = [conn[c] EXCEPT !.stage = "answering", !.answer = a]
        /\ \A e \in Clients \ {c} : conn'[e] = conn[e]
    BY <1>1, <1>4, <1>6 DEF Terminal
  <1>10. /\ conn'[c].stage = "answering" /\ conn'[c].answer = a /\ conn'[c].req = conn[c].req
         /\ conn'[c].to = conn[c].to
    BY <1>8, <1>9 DEF ConnType
  <1>11. Terminal'
    <2>1. conn' \in [Clients -> ConnType]
      <3>1. conn'[c] \in ConnType
        BY <1>8, <1>9 DEF ConnType, Stages
      <3> QED BY <1>1, <1>4, <1>6, <3>1 DEF Terminal, ConnType
    <2>2. queue' \in [Daemons -> Seq(Clients)]
      BY <1>1, <1>3, <1>7 DEF Terminal
    <2> QED BY <1>1, <1>7, <2>1, <2>2 DEF Terminal, ConnType
  <1>12. Queued'
    <2> SUFFICES ASSUME NEW e \in Daemons
                 PROVE  /\ indexer'[e] # "live" => queue'[e] = <<>>
                        /\ \A i \in 1..Len(queue'[e]) :
                             /\ conn'[queue'[e][i]].to = e /\ conn'[queue'[e][i]].stage = "relayed"
                             /\ \A j \in 1..Len(queue'[e]) : queue'[e][j] = queue'[e][i] => i = j
      BY DEF Queued
    <2>0. queue[e] \in Seq(Clients)
      BY <1>1 DEF Terminal
    <2>1. \A i \in 1..Len(queue[e]) :
            /\ queue[e][i] \in Clients
            /\ conn[queue[e][i]].to = e /\ conn[queue[e][i]].stage = "relayed"
            /\ \A j \in 1..Len(queue[e]) : queue[e][j] = queue[e][i] => i = j
      BY <1>1, <2>0 DEF Queued
    <2>2. CASE e # d
      <3>1. queue'[e] = queue[e]
        BY <1>1, <1>7, <2>2 DEF Terminal
      <3>2. \A i \in 1..Len(queue[e]) : queue[e][i] # c
        BY <1>5, <2>1, <2>2
      <3>3. \A i \in 1..Len(queue[e]) : conn'[queue[e][i]] = conn[queue[e][i]]
        BY <1>9, <2>1, <3>2
      <3> QED BY <1>1, <1>7, <2>1, <3>1, <3>3 DEF Queued
    <2>3. CASE e = d
      <3>1. queue'[d] = Tail(queue[d])
        BY <1>1, <1>7 DEF Terminal
      <3>2. Once(queue[d])
        BY <2>1, <2>3 DEF Once
      <3>3. /\ Once(queue'[d])
            /\ \A i \in 1..Len(queue'[d]) : /\ queue'[d][i] # c
                                            /\ \E j \in 1..Len(queue[d]) : queue'[d][i] = queue[d][j]
        BY <1>3, <1>4, <3>1, <3>2, TailOnce
      <3>4. \A i \in 1..Len(queue'[d]) : conn'[queue'[d][i]].to = d /\ conn'[queue'[d][i]].stage = "relayed"
        BY <1>9, <2>1, <2>3, <3>3
      <3>5. \A i \in 1..Len(queue'[d]) :
              \A j \in 1..Len(queue'[d]) : queue'[d][j] = queue'[d][i] => i = j
        BY <3>3 DEF Once
      <3>6. indexer'[d] = "live"
        BY <1>3, <1>7
      <3> QED BY <2>3, <3>4, <3>5, <3>6
    <2> QED BY <2>2, <2>3
  <1>13. ASSUME NEW e \in Clients
         PROVE  Fine(e)'
    <2>1. Fine(e)
      BY DEF CInv
    <2>2. CASE e # c
      <3>1. conn'[e] = conn[e] /\ (e \in applied' <=> e \in applied)
        BY <1>6, <1>9, <2>2
      <3> QED BY <1>7, <2>1, <3>1 DEF Fine, Asking, Served, Applied, Stopping, Truthful, Open
    <2>3. CASE e = c
      <3>1. /\ conn[c].req = "index" /\ c \notin applied /\ at[c] \in {"asked", "done"} /\ Open(c)
        <4>1. conn[c].req = "index" /\ c \notin applied /\ Open(c)
          BY <1>5, <1>8 DEF Fine, Applied, Open
        <4>2. at[c] # "done" => Asked(at[c]) = "index"
          BY <1>8, <4>1 DEF Fine, Asking
        <4>3. at[c] # "done" /\ at[c] # "asked" => Asked(at[c]) # "index"
          BY DEF Asked, Pings
        <4> QED BY <4>1, <4>2, <4>3
      <3>2. c \in applied' <=> a = "ok"
        BY <1>6, <3>1
      <3>3. Asking(c)'
        BY <1>7, <1>8, <1>10, <3>1 DEF Fine, Asking, Open
      <3>4. Served(c)' /\ Stopping(c)'
        BY <1>5, <1>7, <1>8, <1>10 DEF Fine, Served, Stopping
      <3>5. Applied(c)' /\ Truthful(c)'
        BY <1>7, <1>8, <1>10, <3>1, <3>2 DEF Fine, Applied, Truthful, Asking
      <3> QED BY <2>3, <3>3, <3>4, <3>5 DEF Fine
    <2> QED BY <2>2, <2>3
  <1>14. Named'
    BY <1>1, <1>7 DEF Named
  <1> QED BY <1>2, <1>11, <1>12, <1>13, <1>14 DEF CInv

\* An Index in hand is queued, or refused by an indexer that has gone.
LEMMA RelayKeeps ==
  ASSUME CInv, NEW d \in Daemons, NEW c \in Clients, relay(d, c)
  PROVE  CInv'
  <1>1. IInv /\ Terminal /\ Named /\ Queued /\ Fine(c) /\ conn[c] \in ConnType
    BY DEF CInv, Terminal, ConnType
  <1>2. IInv'
    <2>1. Serve(d)
      BY DEF Serve
    <2> QED BY <1>1, <2>1, ServeAround, AroundHolds
  <1>3. /\ conn[c].to = d /\ conn[c].stage = "reading" /\ conn[c].req = "index"
        /\ UNCHANGED <<pc, files, indexer, cmd, at, reply, acked, applied, swept>>
    BY DEF relay, To
  <1>4. Named'
    BY <1>1, <1>3 DEF Named
  <1>5. c \notin applied /\ Open(c)
    BY <1>1, <1>3 DEF Fine, Applied, Open
  <1>6. CASE /\ indexer[d] = "live" /\ queue' = [queue EXCEPT ![d] = Append(@, c)]
             /\ conn' = [conn EXCEPT ![c].stage = "relayed"]
    <2>1. /\ conn'[c] = [conn[c] EXCEPT !.stage = "relayed"]
          /\ \A e \in Clients \ {c} : conn'[e] = conn[e]
      BY <1>1, <1>6 DEF Terminal
    <2>2. /\ conn'[c].stage = "relayed" /\ conn'[c].req = "index" /\ conn'[c].to = d
          /\ conn'[c] \in ConnType
      BY <1>1, <1>3, <2>1 DEF ConnType, Stages
    <2>3. Terminal'
      <3>1. conn' \in [Clients -> ConnType]
        BY <1>1, <1>6, <2>2 DEF Terminal, ConnType
      <3>2. queue' \in [Daemons -> Seq(Clients)]
        BY <1>1, <1>6 DEF Terminal
      <3> QED BY <1>1, <1>3, <3>1, <3>2 DEF Terminal, ConnType
    <2>4. Queued'
      <3> SUFFICES ASSUME NEW e \in Daemons
                   PROVE  /\ indexer'[e] # "live" => queue'[e] = <<>>
                          /\ \A i \in 1..Len(queue'[e]) :
                               /\ conn'[queue'[e][i]].to = e /\ conn'[queue'[e][i]].stage = "relayed"
                               /\ \A j \in 1..Len(queue'[e]) : queue'[e][j] = queue'[e][i] => i = j
        BY DEF Queued
      <3>0. queue[e] \in Seq(Clients)
        BY <1>1 DEF Terminal
      <3>1. \A i \in 1..Len(queue[e]) :
              /\ queue[e][i] \in Clients \ {c}
              /\ conn[queue[e][i]].to = e /\ conn[queue[e][i]].stage = "relayed"
              /\ \A j \in 1..Len(queue[e]) : queue[e][j] = queue[e][i] => i = j
        BY <1>1, <1>3, <3>0 DEF Queued
      <3>2. \A i \in 1..Len(queue[e]) : conn'[queue[e][i]] = conn[queue[e][i]]
        BY <2>1, <3>1
      <3>3. CASE e # d
        <4>1. queue'[e] = queue[e] /\ indexer'[e] = indexer[e]
          BY <1>1, <1>3, <1>6, <3>3 DEF Terminal
        <4> QED BY <1>1, <3>1, <3>2, <4>1 DEF Queued
      <3>4. CASE e = d
        <4>1. queue'[e] = Append(queue[e], c) /\ indexer'[e] = "live"
          BY <1>1, <1>3, <1>6, <3>4 DEF Terminal
        <4>2. /\ Len(queue'[e]) = Len(queue[e]) + 1 /\ Len(queue[e]) \in Nat
              /\ queue'[e][Len(queue[e]) + 1] = c
              /\ \A i \in 1..Len(queue[e]) : queue'[e][i] = queue[e][i]
          BY <3>0, <4>1
        <4>3. \A i \in 1..Len(queue'[e]) : i \in 1..Len(queue[e]) \/ i = Len(queue[e]) + 1
          BY <4>2
        <4>4. ASSUME NEW i \in 1..Len(queue'[e])
              PROVE  conn'[queue'[e][i]].to = e /\ conn'[queue'[e][i]].stage = "relayed"
          BY <2>2, <3>1, <3>2, <3>4, <4>2, <4>3
        <4>5. ASSUME NEW i \in 1..Len(queue'[e]), NEW j \in 1..Len(queue'[e]),
                     queue'[e][j] = queue'[e][i]
              PROVE  i = j
          BY <3>1, <4>2, <4>3, <4>5
        <4> QED BY <4>1, <4>4, <4>5
      <3> QED BY <3>3, <3>4
    <2>5. ASSUME NEW e \in Clients
          PROVE  Fine(e)'
      <3>1. Fine(e)
        BY DEF CInv
      <3>2. CASE e # c
        <4>1. conn'[e] = conn[e]
          BY <2>1, <3>2
        <4> QED BY <1>3, <3>1, <4>1 DEF Fine, Asking, Served, Applied, Stopping, Truthful, Open
      <3>3. CASE e = c
        BY <1>1, <1>3, <1>5, <2>2, <3>3 DEF Fine, Asking, Served, Applied, Stopping, Truthful, Open
      <3> QED BY <3>2, <3>3
    <2> QED BY <1>2, <1>4, <2>3, <2>4, <2>5 DEF CInv
  <1>7. CASE Answers(c, "error") /\ UNCHANGED queue
    <2>1. /\ conn'[c] = [conn[c] EXCEPT !.stage = "answering", !.answer = "error"]
          /\ \A e \in Clients \ {c} : conn'[e] = conn[e]
      BY <1>1, <1>7 DEF Answers, Terminal
    <2>2. /\ conn'[c].stage = "answering" /\ conn'[c].req = "index" /\ conn'[c].to = d
          /\ conn'[c].answer = "error" /\ conn'[c] \in ConnType
      BY <1>1, <1>3, <2>1 DEF ConnType, Stages
    <2>3. Terminal'
      <3>1. conn' \in [Clients -> ConnType]
        BY <1>1, <1>7, <2>2 DEF Terminal, ConnType, Answers
      <3> QED BY <1>1, <1>3, <1>7, <3>1 DEF Terminal, ConnType
    <2>4. Fine(c)'
      BY <1>1, <1>3, <1>5, <2>2 DEF Fine, Asking, Served, Applied, Stopping, Truthful, Open
    <2>5. Onward
      BY <1>3 DEF Onward
    <2> QED BY <1>2, <1>3, <1>4, <1>7, <2>1, <2>3, <2>4, <2>5, ClientStep
  <1> QED BY <1>6, <1>7 DEF relay

\* The indexer goes with what is relayed to it: each of those hears an error.
LEMMA IndexerEndsKeeps ==
  ASSUME CInv, NEW d \in Daemons, IndexerEnds(d)
  PROVE  CInv'
  <1>1. IInv /\ Terminal /\ Named /\ Queued
    BY DEF CInv
  <1>2. IInv'
    <2>1. Tasks(d)
      BY DEF Tasks
    <2> QED BY <1>1, <2>1, TasksHold
  <1>3. /\ indexer' = [indexer EXCEPT ![d] = "ended"] /\ queue' = [queue EXCEPT ![d] = <<>>]
        /\ conn' = [c \in Clients |-> IF c \in To(d, {"relayed"})
                                      THEN [conn[c] EXCEPT !.stage = "answering", !.answer = "error"]
                                      ELSE conn[c]]
        /\ UNCHANGED <<pc, files, cmd, at, reply, acked, applied, swept>>
    BY DEF IndexerEnds
  <1>4. Named'
    BY <1>1, <1>3 DEF Named
  <1>5. ASSUME NEW e \in Clients
        PROVE  /\ e \notin To(d, {"relayed"}) => conn'[e] = conn[e]
               /\ e \in To(d, {"relayed"}) =>
                    /\ conn[e].to = d /\ conn[e].stage = "relayed"
                    /\ conn'[e].stage = "answering" /\ conn'[e].answer = "error"
                    /\ conn'[e].to = d /\ conn'[e].req = conn[e].req
               /\ conn'[e] \in ConnType
    <2>1. conn[e] \in ConnType
      BY <1>1 DEF Terminal, ConnType
    <2>2. conn'[e] = IF e \in To(d, {"relayed"})
                     THEN [conn[e] EXCEPT !.stage = "answering", !.answer = "error"] ELSE conn[e]
      BY <1>3
    <2> QED BY <2>1, <2>2 DEF To, ConnType, Stages
  <1>6. Terminal'
    <2>1. conn' \in [Clients -> ConnType]
      BY <1>3, <1>5
    <2>2. queue' \in [Daemons -> Seq(Clients)]
      <3>1. queue \in [Daemons -> Seq(Clients)] /\ <<>> \in Seq(Clients)
        BY <1>1 DEF Terminal
      <3> QED BY <1>3, <3>1
    <2> QED BY <1>1, <1>3, <2>1, <2>2 DEF Terminal, ConnType
  <1>7. ASSUME NEW e \in Clients
        PROVE  Fine(e)'
    <2>1. Fine(e)
      BY DEF CInv
    <2>2. CASE e \notin To(d, {"relayed"})
      <3>1. conn'[e] = conn[e]
        BY <1>5, <2>2
      <3> QED BY <1>3, <2>1, <3>1 DEF Fine, Asking, Served, Applied, Stopping, Truthful, Open
    <2>3. CASE e \in To(d, {"relayed"})
      <3>1. /\ conn[e].to = d /\ conn[e].stage = "relayed"
            /\ conn'[e].stage = "answering" /\ conn'[e].answer = "error"
            /\ conn'[e].to = d /\ conn'[e].req = conn[e].req
        BY <1>5, <2>3
      <3>2. Asking(e)' /\ Stopping(e)'
        BY <1>3, <2>1, <3>1 DEF Fine, Asking, Stopping, Open
      <3>3. Served(e)'
        BY <1>3, <2>1, <3>1 DEF Fine, Served
      <3>4. Applied(e)' /\ Truthful(e)'
        BY <1>3, <2>1, <3>1 DEF Fine, Applied, Truthful
      <3> QED BY <3>2, <3>3, <3>4 DEF Fine
    <2> QED BY <2>2, <2>3
  <1>8. Queued'
    <2> SUFFICES ASSUME NEW e \in Daemons
                 PROVE  /\ indexer'[e] # "live" => queue'[e] = <<>>
                        /\ \A i \in 1..Len(queue'[e]) :
                             /\ conn'[queue'[e][i]].to = e /\ conn'[queue'[e][i]].stage = "relayed"
                             /\ \A j \in 1..Len(queue'[e]) : queue'[e][j] = queue'[e][i] => i = j
      BY DEF Queued
    <2>1. CASE e = d
      <3>1. queue'[e] = <<>>
        BY <1>1, <1>3, <2>1 DEF Terminal
      <3> QED BY <3>1
    <2>2. CASE e # d
      <3>1. queue'[e] = queue[e] /\ indexer'[e] = indexer[e] /\ queue[e] \in Seq(Clients)
        BY <1>1, <1>3, <2>2 DEF Terminal, IInv, Process
      <3>2. \A i \in 1..Len(queue[e]) : queue[e][i] \in Clients /\ conn[queue[e][i]].to = e
        BY <1>1, <3>1 DEF Queued
      <3>3. \A i \in 1..Len(queue[e]) : queue[e][i] \notin To(d, {"relayed"})
        BY <2>2, <3>2 DEF To
      <3>4. \A i \in 1..Len(queue[e]) : conn'[queue[e][i]] = conn[queue[e][i]]
        BY <1>5, <3>2, <3>3
      <3> QED BY <1>1, <3>1, <3>4 DEF Queued
    <2> QED BY <2>1, <2>2
  <1> QED BY <1>2, <1>4, <1>6, <1>7, <1>8 DEF CInv

LEMMA TasksKeep ==
  ASSUME CInv, NEW d \in Daemons, Tasks(d)
  PROVE  CInv'
  <1>1. IInv /\ Named /\ IInv'
    BY TasksHold DEF CInv
  <1>2. CASE RoundEnds(d)
    BY <1>1, <1>2, AloneKeeps DEF RoundEnds, Named, clientVars
  <1>3. CASE SummarizerEnds(d)
    BY <1>1, <1>3, AloneKeeps DEF SummarizerEnds, Named, clientVars
  <1> QED BY <1>2, <1>3, HandleKeeps, IndexerEndsKeeps DEF Tasks

------------------------------------------------------------------------------
(* The server *)

LEMMA ServeKeeps ==
  ASSUME CInv, NEW d \in Daemons, Serve(d)
  PROVE  CInv'
  <1>1. IInv /\ Terminal /\ Named /\ IInv'
    BY ServeAround, AroundHolds DEF CInv
  <1>2. ASSUME NEW c \in Clients, conn' = [conn EXCEPT ![c] = conn'[c]], conn'[c] \in ConnType,
               reply' = [reply EXCEPT ![c] = reply'[c]], reply'[c] \in {"none", "ok", "error"},
               acked' \in {acked, [acked EXCEPT ![c] = d]},
               UNCHANGED <<pc, files, indexer, queue, cmd, at, applied, swept>>,
               conn[c].stage # "relayed", Fine(c)'
        PROVE  CInv'
    <2>1. conn' \in [Clients -> ConnType]
      BY <1>1, <1>2 DEF Terminal, ConnType
    <2>2. reply' \in [Clients -> {"none", "ok", "error"}]
      BY <1>1, <1>2 DEF Terminal
    <2>3. acked' \in [Clients -> Daemons \cup {None}]
      BY <1>1, <1>2 DEF Terminal
    <2>4. Terminal'
      BY <1>1, <1>2, <2>1, <2>2, <2>3 DEF Terminal, ConnType
    <2>5. Named' /\ Onward
      BY <1>1, <1>2 DEF Named, Onward
    <2>6. \A e \in Clients \ {c} : /\ at'[e] = at[e] /\ conn'[e] = conn[e]
                                   /\ reply'[e] = reply[e] /\ acked'[e] = acked[e]
      BY <1>1, <1>2 DEF Terminal
    <2> QED BY <1>1, <1>2, <2>4, <2>5, <2>6, ClientStep
  <1>3. NoConn \in ConnType /\ NoConn.stage = "none" /\ NoConn.req = "ping"
    BY DEF NoConn, ConnType, Requests, Stages
  <1>4. ASSUME NEW c \in Clients
        PROVE  /\ Fine(c) /\ conn[c] \in ConnType /\ conn[c].req \in Requests
               /\ reply[c] \in {"none", "ok", "error"} /\ acked[c] \in Daemons \cup {None}
               /\ reply = [reply EXCEPT ![c] = reply[c]]
               /\ \A v \in ConnType : [conn EXCEPT ![c] = v][c] = v
               /\ \A v \in {"none", "ok", "error"} : [reply EXCEPT ![c] = v][c] = v
               /\ [acked EXCEPT ![c] = d][c] = d
    BY <1>1 DEF CInv, Terminal, ConnType
  <1>5. CASE ServeEnds(d)
    <2>1. /\ Hangs(To(d, {"backlog"}))
          /\ UNCHANGED <<pc, files, indexer, queue, cmd, at, acked, applied, swept>>
      BY <1>5 DEF ServeEnds
    <2>2. To(d, {"backlog"}) \in SUBSET Clients /\ \A c \in To(d, {"backlog"}) : conn[c].stage # "relayed"
      BY DEF To
    <2>3. \A e \in Clients : Served(e) =>
            \/ ~Open(e) \/ conn[e].stage = "backlog"
            \/ pc'[conn[e].to] \in {"running", "drained", "removed", "unlocked"}
      <3>1. \A e \in Clients : conn[e].stage \in Stages
        BY <1>1 DEF Terminal
      <3> QED BY <2>1, <3>1 DEF Served, Open, Stages
    <2> QED BY <1>1, <2>1, <2>2, <2>3, HangKeeps DEF Named, Terminal
  <1>6. ASSUME NEW c \in Clients, Accept(d, c)
        PROVE  CInv'
    <2>1. /\ pc[d] = "running" /\ conn[c].to = d /\ conn[c].stage = "backlog"
          /\ conn' = [conn EXCEPT ![c].stage = "reading"]
          /\ UNCHANGED <<pc, files, indexer, queue, cmd, at, applied, swept, reply, acked>>
      BY <1>6 DEF Accept, To, daemonVars
    <2>2. conn'[c] = [conn[c] EXCEPT !.stage = "reading"] /\ conn' = [conn EXCEPT ![c] = conn'[c]]
      BY <1>1, <2>1 DEF Terminal
    <2>3. /\ conn'[c] \in ConnType /\ conn'[c].stage = "reading" /\ conn'[c].req = conn[c].req
          /\ conn'[c].to = d
      BY <1>4, <2>1, <2>2 DEF ConnType, Stages
    <2>4. Fine(c)'
      BY <1>4, <2>1, <2>3 DEF Fine, Asking, Served, Applied, Stopping, Truthful, Open
    <2> QED BY <1>2, <1>4, <2>1, <2>2, <2>3, <2>4
  <1>7. ASSUME NEW c \in Clients, HandlePing(d, c)
        PROVE  CInv'
    <2>1. /\ conn[c].stage = "reading" /\ conn[c].req = "ping"
          /\ conn' = [conn EXCEPT ![c] = NoConn] /\ reply' = [reply EXCEPT ![c] = "ok"]
          /\ UNCHANGED <<pc, files, indexer, queue, cmd, at, applied, swept, acked>>
      BY <1>7 DEF HandlePing, To, daemonVars
    <2>2. conn'[c] = NoConn /\ reply'[c] = "ok"
      BY <1>3, <1>4, <2>1
    <2>3. at[c] \notin {"sent", "asked"}
      BY <1>4, <2>1 DEF Fine, Asking, Open, Asked, Pings
    <2>4. Fine(c)'
      BY <1>3, <1>4, <2>1, <2>2, <2>3 DEF Fine, Asking, Served, Applied, Stopping, Truthful, Open
    <2> QED BY <1>2, <1>3, <2>1, <2>2, <2>4
  <1>8. ASSUME NEW c \in Clients, HandleStop(d, c)
        PROVE  CInv'
    <2>1. /\ conn[c].to = d /\ conn[c].stage = "reading" /\ conn[c].req = "stop" /\ Answers(c, "ok")
          /\ UNCHANGED <<pc, files, indexer, queue, cmd, at, applied, swept, reply, acked>>
      BY <1>8 DEF HandleStop, To
    <2>2. /\ conn'[c] = [conn[c] EXCEPT !.stage = "answering", !.answer = "ok"]
          /\ conn' = [conn EXCEPT ![c] = conn'[c]]
      BY <1>1, <2>1 DEF Terminal, Answers
    <2>3. /\ conn'[c] \in ConnType /\ conn'[c].stage = "answering" /\ conn'[c].req = conn[c].req
          /\ conn'[c].to = d
      <3>1. conn[c] \in ConnType
        BY <1>4
      <3> QED BY <2>1, <2>2, <3>1 DEF ConnType, Stages
    <2>4. Fine(c)'
      BY <1>4, <2>1, <2>3 DEF Fine, Asking, Served, Applied, Stopping, Truthful, Open
    <2> QED BY <1>2, <1>4, <2>1, <2>2, <2>3, <2>4
  <1>9. ASSUME NEW c \in Clients, HandleWatch(d, c)
        PROVE  CInv'
    <2>1. /\ conn[c].to = d /\ conn[c].stage = "reading" /\ conn[c].req = "watch"
          /\ conn' = [conn EXCEPT ![c].stage = "watching"] /\ reply' = [reply EXCEPT ![c] = "ok"]
          /\ UNCHANGED <<pc, files, indexer, queue, cmd, at, applied, swept, acked>>
      BY <1>9 DEF HandleWatch, To, daemonVars
    <2>2. conn'[c] = [conn[c] EXCEPT !.stage = "watching"] /\ conn' = [conn EXCEPT ![c] = conn'[c]]
      BY <1>1, <2>1 DEF Terminal
    <2>3. /\ conn'[c] \in ConnType /\ conn'[c].stage = "watching" /\ conn'[c].req = "watch"
          /\ conn'[c].to = d /\ reply'[c] = "ok"
      BY <1>4, <2>1, <2>2 DEF ConnType, Stages
    <2>4. at[c] \notin {"sent", "asked"}
      BY <1>4, <2>1 DEF Fine, Asking, Open, Asked, Pings
    <2>5. Fine(c)'
      BY <1>4, <2>1, <2>3, <2>4 DEF Fine, Asking, Served, Applied, Stopping, Truthful, Open
    <2> QED BY <1>2, <2>1, <2>2, <2>3, <2>5
  <1>10. ASSUME NEW c \in Clients, Answer(d, c)
         PROVE  CInv'
    <2>1. /\ conn[c].to = d /\ conn[c].stage = "answering"
          /\ conn' = [conn EXCEPT ![c] = NoConn]
          /\ reply' = [reply EXCEPT ![c] = IF Waits(c) THEN conn[c].answer ELSE @]
          /\ acked' = [acked EXCEPT ![c] = IF conn[c].req = "stop" THEN d ELSE @]
          /\ UNCHANGED <<pc, files, indexer, queue, cmd, at, applied, swept>>
      BY <1>10 DEF Answer, To, daemonVars
    <2>2. conn[c].answer \in {"none", "ok", "error"}
      BY <1>4 DEF ConnType
    <2>3. conn'[c] = NoConn /\ reply'[c] = (IF Waits(c) THEN conn[c].answer ELSE reply[c])
      BY <1>1, <2>1 DEF Terminal
    <2>4. /\ conn[c].req = "stop" => acked'[c] = d /\ acked' = [acked EXCEPT ![c] = d]
          /\ conn[c].req # "stop" => acked' = acked
      BY <1>1, <2>1 DEF Terminal
    <2>5. Open(c) /\ pc[d] \in {"running"} \cup Over
      BY <1>4, <2>1 DEF Fine, Served, Open, Over
    <2>6. Stopping(c)'
      <3>1. /\ at[c] = "sent" => conn[c].req = "stop"
            /\ at[c] # "wait" /\ (at[c] = "check" => conn[c].req = "ping")
        BY <1>4, <2>5 DEF Fine, Asking, Asked, Pings, Requests
      <3>2. CASE conn[c].req = "stop"
        BY <2>1, <2>4, <2>5, <3>1, <3>2 DEF Stopping
      <3>3. CASE conn[c].req # "stop"
        BY <1>4, <2>1, <2>4, <3>1, <3>3 DEF Fine, Stopping
      <3> QED BY <3>2, <3>3
    <2>7. Truthful(c)'
      <3>1. at[c] = "asked" => conn[c].req = "index" /\ reply[c] # "ok"
        BY <1>4, <2>5 DEF Fine, Asking, Asked, Pings
      <3> QED BY <1>3, <1>4, <2>1, <2>3, <3>1 DEF Fine, Truthful
    <2>8. Fine(c)'
      BY <1>3, <1>4, <2>1, <2>3, <2>6, <2>7 DEF Fine, Asking, Served, Applied, Open
    <2>9. reply' = [reply EXCEPT ![c] = reply'[c]] /\ reply'[c] \in {"none", "ok", "error"}
      BY <1>4, <2>1, <2>2, <2>3
    <2> QED BY <1>2, <1>3, <2>1, <2>3, <2>4, <2>8, <2>9
  <1>11. ASSUME NEW c \in Clients, HandlerEnds(d, c)
         PROVE  CInv'
    <2>1. /\ conn[c].stage # "relayed" /\ Hangs({c})
          /\ UNCHANGED <<pc, files, indexer, queue, cmd, at, acked, applied, swept>>
      BY <1>11 DEF HandlerEnds, To, daemonVars
    <2>2. \A e \in Clients : Served(e) =>
            \/ ~Open(e) \/ conn[e].stage = "backlog"
            \/ pc'[conn[e].to] \in {"running", "drained", "removed", "unlocked"}
      <3>1. \A e \in Clients : conn[e].stage \in Stages
        BY <1>1 DEF Terminal
      <3> QED BY <2>1, <3>1 DEF Served, Open, Stages
    <2> QED BY <1>1, <2>1, <2>2, HangKeeps DEF Named, Terminal
  <1> QED BY <1>5, <1>6, <1>7, <1>8, <1>9, <1>10, <1>11, RelayKeeps DEF Serve

LEMMA StepKeeps == CInv /\ [Next]_vars => CInv'
  <1> SUFFICES ASSUME CInv, [Next]_vars PROVE CInv'
    OBVIOUS
  <1>1. CASE UNCHANGED vars
    <2>1. IInv' /\ Named'
      BY <1>1, StepHolds DEF CInv, Named, vars, daemonVars, clientVars
    <2> QED BY <1>1, <2>1, AloneKeeps DEF vars, daemonVars
  <1>2. ASSUME NEW d \in Daemons, Run(d) \/ Serve(d) \/ Tasks(d) \/ World(d)
        PROVE  CInv'
    BY <1>2, RunKeeps, ServeKeeps, TasksKeep, WorldKeeps
  <1>3. ASSUME NEW c \in Clients, Command(c)
        PROVE  CInv'
    BY <1>3, CommandKeeps
  <1> QED BY <1>1, <1>2, <1>3 DEF Next

LEMMA CInvHolds == Spec => []CInv
  BY InitCInv, StepKeeps, PTL DEF Spec

\* "indexed" is said of an Index that was carried out, and an Index carried out is answered
\* so: handle_cmd replies, and an indexer that ends drops the replies with the commands.
THEOREM RepliesAreTruthful == Spec => []RepliesAreTrue
  <1>1. CInv => RepliesAreTrue
    BY DEF CInv, Fine, Truthful, RepliesAreTrue
  <1> QED BY <1>1, CInvHolds, PTL

\* `mda stop` says "stopped" when the daemon that acknowledged it has no call in flight: the
\* files it waited for are removed after both tasks were awaited (daemon::run, stop.rs).
THEOREM StoppedLeavesNoCalls == Spec => StoppedMeansNoCalls
  <1>1. CInv => \A c \in Clients : at[c] = "check" /\ ~swept =>
                  summarizer[acked[c]] \notin {"idle", "calling"}
    <2> SUFFICES ASSUME CInv, NEW c \in Clients, at[c] = "check", ~swept
                 PROVE  summarizer[acked[c]] \notin {"idle", "calling"}
      OBVIOUS
    <2>1. acked[c] \in Daemons /\ pc[acked[c]] \in Over
      BY DEF CInv, Fine, Stopping
    <2> QED BY <2>1 DEF CInv, IInv, Working, Works, Over
  <1>2. CInv => [\A c \in Clients : at[c] = "check" /\ reply[c] = "error" /\ at'[c] # "check" /\ ~swept =>
                   summarizer[acked[c]] \notin {"idle", "calling"}]_vars
    BY <1>1
  <1> QED BY <1>2, CInvHolds, PTL DEF StoppedMeansNoCalls

=============================================================================
