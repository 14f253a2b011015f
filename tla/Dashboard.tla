------------------------------ MODULE Dashboard ------------------------------
(***************************************************************************)
(* The life of the dashboard's background server: dashboard.py open,       *)
(* restart and stop, the runtime marker they leave for one another, the    *)
(* server's idle watchdog, and the browser tabs that poll it.              *)
(*                                                                         *)
(* A command checks and acts in separate steps: it reads the marker,       *)
(* signals the server it names, waits for the port, looks for a free one,  *)
(* starts a server, waits for it, and writes the marker.  Commands may     *)
(* overlap, waits may run out, and ports and process ids are shared with   *)
(* other programs.                                                         *)
(***************************************************************************)
EXTENDS Integers, FiniteSets

CONSTANTS
  Pid,
  LastPort,    \* the ports tried are 0..LastPort; 0 is the default
  Terminal,    \* where commands are run
  MaxVersion,  \* bound: plugin versions installed
  MaxCommands, \* bound: commands run
  MaxStrange   \* bound: interference of other programs

ASSUME DashboardAssumption ==
  /\ Pid # {}
  /\ LastPort \in Nat /\ MaxVersion \in Nat /\ MaxCommands \in Nat /\ MaxStrange \in Nat

VARIABLES
  installed,   \* newest version in the plugin cache
  process,     \* what each process id is
  strangers,   \* ports other programs listen on
  marker,      \* dashboard.runtime.json
  tabs,        \* ports an open page refreshes itself from
  visiting,    \* pages a browser was told to load
  cmd,         \* what each terminal is doing
  disturbed,   \* (history) commands overlapped, a wait ran out, no port was free,
               \* or an id was used again
  commands, strange

bounds == <<commands, strange>>
browser == <<tabs, visiting>>
machine == <<installed, strangers>>
vars == <<machine, process, marker, browser, cmd, disturbed, bounds>>

Port == 0..LastPort
Version == 0..MaxVersion

Default == 0
NoPort == -1
NoMarker == [port |-> NoPort]
Gone == [at |-> "gone"]
Other == [at |-> "other"]
Idle == [at |-> "idle"]

\* Mutant of IdleTicks: a page refreshes no more often than the server waits.
OneTick == 1

\* IDLE_TIMEOUT, 11 minutes, in refreshes of an open page, 5 minutes each: the
\* third one without a request may exceed it
IdleTicks == 3

Server(p) == process[p].at \in {"starting", "serving", "dying"}
Running(p) == process[p].at \in {"starting", "serving"}
Serves(p, port) == process[p].at \in {"serving", "dying"} /\ process[p].port = port

\* _port_open
Listening(port) == port \in strangers \/ \E p \in Pid : Serves(p, port)

\* _pid_alive
PidAlive(p) == process[p] # Gone

\* _free_port: the first that does not answer, or else the one preferred
IsFreePort(preferred, port) ==
  \/ /\ preferred <= port /\ ~Listening(port)
     /\ \A other \in Port : preferred <= other /\ other < port => Listening(other)
  \/ /\ port = preferred
     /\ \A other \in Port : preferred <= other => Listening(other)

Opened(p, port) ==
  [q \in Pid |-> IF q = p THEN [at |-> "serving", port |-> port, script |-> 0, quiet |-> 0] ELSE Gone]

\* nothing runs, or a server that was opened before, perhaps not on the default port
Init ==
  /\ installed = 0 /\ strangers = {} /\ visiting = {}
  /\ \/ process = [p \in Pid |-> Gone] /\ marker = NoMarker /\ tabs = {}
     \/ LET p == CHOOSE p \in Pid : TRUE
        IN  \E port \in Port :
              /\ process = Opened(p, port) /\ tabs = {port}
              /\ marker = [pid |-> p, port |-> port, script |-> 0]
  /\ cmd = [u \in Terminal |-> Idle]
  /\ disturbed = FALSE
  /\ commands = 0 /\ strange = 0

Become(p, what) == process' = [process EXCEPT ![p] = what]
Goto(u, state) == cmd' = [cmd EXCEPT ![u] = state]
At(u, at) == cmd[u].at = at

(***************************************************************************)
(* The server                                                              *)
(***************************************************************************)

\* the port was taken meanwhile: the process ends with an error
Bind(p) ==
  /\ process[p].at = "starting"
  /\ Become(p, IF Listening(process[p].port) THEN Gone ELSE [process[p] EXCEPT !.at = "serving"])
  /\ UNCHANGED <<machine, marker, browser, cmd, disturbed, bounds>>

\* Mutant of Expire: the watchdog of a server the marker no longer names stops.
ExpireIfRecorded(p) ==
  /\ process[p].at = "serving" /\ process[p].quiet = IdleTicks
  /\ marker # NoMarker /\ marker.pid = p
  /\ Become(p, Gone)
  /\ UNCHANGED <<machine, marker, browser, cmd, disturbed, bounds>>

\* watchdog; the marker stays
Expire(p) ==
  /\ process[p].at = "serving" /\ process[p].quiet = IdleTicks
  /\ Become(p, Gone)
  /\ UNCHANGED <<machine, marker, browser, cmd, disturbed, bounds>>

\* a signalled server has ended
Die(p) ==
  /\ process[p].at = "dying"
  /\ Become(p, Gone)
  /\ UNCHANGED <<machine, marker, browser, cmd, disturbed, bounds>>

(***************************************************************************)
(* Commands                                                                *)
(***************************************************************************)

\* The newest installed copy runs open and restart, whichever was called.  A
\* command begins with reading the marker and checking what it says.
Begin(u) ==
  /\ At(u, "idle") /\ commands < MaxCommands
  /\ commands' = commands + 1
  /\ disturbed' = (disturbed \/ \E v \in Terminal : ~At(v, "idle"))
  /\ UNCHANGED <<machine, process, marker, tabs, strange>>

\* Mutant of Live: the server is looked for on the default port.
LiveOnDefault == marker # NoMarker /\ PidAlive(marker.pid) /\ Listening(Default)

Live == marker # NoMarker /\ PidAlive(marker.pid) /\ Listening(marker.port)

\* Mutant of Current: any server that answers will do.
CurrentOrOlder == marker.port \in Port

Current == marker.script = installed

Stopping(u, op) ==
  Goto(u, [at |-> "kill", op |-> op, script |-> installed, pid |-> marker.pid, target |-> marker.port])

Starting(u, op, script, preferred, target) ==
  Goto(u, [at |-> "spawn", op |-> op, script |-> script, preferred |-> preferred, target |-> target])

\* cmd_open
Reattach(u, browse) ==
  /\ Begin(u) /\ Live /\ Current
  /\ visiting' = IF browse THEN visiting \cup {[port |-> marker.port, script |-> installed]} ELSE visiting
  /\ UNCHANGED cmd

Replace(u) ==
  /\ Begin(u) /\ Live /\ ~Current
  /\ Stopping(u, "open")
  /\ UNCHANGED visiting

OpenAfresh(u) ==
  /\ Begin(u) /\ ~Live
  /\ Starting(u, "open", installed, Default, NoPort)
  /\ UNCHANGED visiting

\* cmd_restart
Restart(u) ==
  /\ Begin(u)
  /\ IF marker = NoMarker THEN Starting(u, "restart", installed, Default, NoPort)
     ELSE Stopping(u, "restart")
  /\ UNCHANGED visiting

\* cmd_stop
Stop(u) ==
  /\ Begin(u)
  /\ IF marker = NoMarker THEN Goto(u, [at |-> "unlink"]) ELSE Stopping(u, "stop")
  /\ UNCHANGED visiting

\* SIGTERM; a server that listens does so until it has ended
Signalled(p) ==
  CASE process[p].at \in {"serving", "dying"} -> [process[p] EXCEPT !.at = "dying"]
    [] OTHER -> Gone

\* Mutant of AfterKill: the port is not waited for.
AfterKillAtOnce(u, alive) ==
  IF cmd[u].op = "stop" THEN Goto(u, [at |-> "unlink"])
  ELSE Starting(u, cmd[u].op, cmd[u].script, cmd[u].target, cmd[u].target)

AfterKill(u, alive) ==
  IF cmd[u].op = "stop" THEN Goto(u, [at |-> "unlink"])
  ELSE IF alive THEN Goto(u, [cmd[u] EXCEPT !.at = "wait"])
  ELSE Starting(u, cmd[u].op, cmd[u].script, cmd[u].target, cmd[u].target)

\* _stop_running and cmd_stop: whatever has the id is signalled
Kill(u) ==
  /\ At(u, "kill")
  /\ LET alive == PidAlive(cmd[u].pid)
     IN  /\ Become(cmd[u].pid, Signalled(cmd[u].pid))
         /\ AfterKill(u, alive)
  /\ UNCHANGED <<machine, marker, browser, disturbed, bounds>>

Released(u) ==
  /\ At(u, "wait") /\ ~Listening(cmd[u].target)
  /\ Starting(u, cmd[u].op, cmd[u].script, cmd[u].target, cmd[u].target)
  /\ UNCHANGED <<machine, process, marker, browser, disturbed, bounds>>

\* after 5 seconds the port is still taken
WaitTimesOut(u) ==
  /\ At(u, "wait") /\ Listening(cmd[u].target)
  /\ disturbed' = (disturbed \/ cmd[u].target \notin strangers)
  /\ Starting(u, cmd[u].op, cmd[u].script, cmd[u].target, cmd[u].target)
  /\ UNCHANGED <<machine, process, marker, browser, bounds>>

\* _free_port and _spawn_detached
Spawn(u, p) ==
  /\ At(u, "spawn") /\ process[p] = Gone
  /\ \E port \in Port :
         /\ IsFreePort(cmd[u].preferred, port)
         /\ Become(p, [at |-> "starting", port |-> port, script |-> cmd[u].script, quiet |-> 0])
         /\ Goto(u, [at |-> "await", op |-> cmd[u].op, script |-> cmd[u].script, pid |-> p, port |-> port,
                     target |-> IF cmd[u].target \in strangers THEN NoPort ELSE cmd[u].target])
         /\ disturbed' = (disturbed \/ Listening(port))
  /\ UNCHANGED <<machine, marker, browser, bounds>>

\* the page is opened in a browser, unless the command was told not to
Record(u, browse) ==
  /\ marker' = [pid |-> cmd[u].pid, port |-> cmd[u].port, script |-> cmd[u].script]
  /\ visiting' = IF cmd[u].op = "open" /\ browse
                 THEN visiting \cup {[port |-> cmd[u].port, script |-> cmd[u].script]} ELSE visiting
  /\ disturbed' = (disturbed \/ process[cmd[u].pid].at = "starting")
  /\ Goto(u, Idle)
  /\ UNCHANGED <<machine, process, tabs, bounds>>

\* the port answers, whoever it is, or does not within 6 seconds: the server has
\* ended or is slow
Answered(u, browse) == At(u, "await") /\ Listening(cmd[u].port) /\ Record(u, browse)
AwaitTimesOut(u, browse) == At(u, "await") /\ ~Listening(cmd[u].port) /\ Record(u, browse)

Unlink(u) ==
  /\ At(u, "unlink")
  /\ marker' = NoMarker
  /\ Goto(u, Idle)
  /\ UNCHANGED <<machine, process, browser, disturbed, bounds>>

Command(u) ==
  \/ \E browse \in BOOLEAN : Reattach(u, browse)
  \/ Replace(u) \/ OpenAfresh(u) \/ Restart(u) \/ Stop(u)

Step(u) ==
  \/ Kill(u) \/ Released(u) \/ WaitTimesOut(u)
  \/ \E p \in Pid : Spawn(u, p)
  \/ \E browse \in BOOLEAN : Answered(u, browse) \/ AwaitTimesOut(u, browse)
  \/ Unlink(u)

(***************************************************************************)
(* The browser                                                             *)
(***************************************************************************)

Requested(port) ==
  process' = [p \in Pid |-> IF process[p].at = "serving" /\ process[p].port = port
                            THEN [process[p] EXCEPT !.quiet = 0] ELSE process[p]]

\* Only a server's page becomes a tab that polls.
Load(visit) ==
  /\ visit \in visiting /\ visiting' = visiting \ {visit}
  /\ Requested(visit.port)
  /\ tabs' = IF \E p \in Pid : Serves(p, visit.port)
             THEN tabs \cup {visit.port} ELSE tabs
  /\ UNCHANGED <<machine, marker, cmd, disturbed, bounds>>

\* auto-refresh, a retry after the connection was lost, or the user's click
Poll(port) ==
  /\ port \in tabs
  /\ Requested(port) /\ process' # process
  /\ UNCHANGED <<machine, marker, browser, cmd, disturbed, bounds>>

\* ... or its auto-refresh is turned off
CloseTab(port) ==
  /\ port \in tabs /\ tabs' = tabs \ {port}
  /\ UNCHANGED <<machine, process, marker, visiting, cmd, disturbed, bounds>>

\* five minutes pass; a tab that refreshes has polled in the last five
Tick ==
  /\ \A p \in Pid : process[p].at = "serving" /\ process[p].port \in tabs =>
                      process[p].quiet = 0
  /\ process' = [p \in Pid |-> IF process[p].at = "serving" /\ process[p].quiet < IdleTicks
                               THEN [process[p] EXCEPT !.quiet = @ + 1] ELSE process[p]]
  /\ process' # process
  /\ UNCHANGED <<machine, marker, browser, cmd, disturbed, bounds>>

(***************************************************************************)
(* Others                                                                  *)
(***************************************************************************)

Update ==
  /\ installed < MaxVersion
  /\ installed' = installed + 1
  /\ UNCHANGED <<process, strangers, marker, browser, cmd, disturbed, bounds>>

Strange == strange < MaxStrange /\ strange' = strange + 1 /\ UNCHANGED commands

StrangerListens(port) ==
  /\ Strange /\ ~Listening(port)
  /\ strangers' = strangers \cup {port}
  /\ UNCHANGED <<installed, process, marker, browser, cmd, disturbed>>

StrangerLeaves(port) ==
  /\ port \in strangers
  /\ strangers' = strangers \ {port}
  /\ UNCHANGED <<installed, process, marker, browser, cmd, disturbed, bounds>>

\* an id the marker names, or a command is about to signal, is used again
PidReused(p) ==
  /\ Strange /\ process[p] = Gone
  /\ \/ marker # NoMarker /\ marker.pid = p
     \/ \E u \in Terminal : At(u, "kill") /\ cmd[u].pid = p
  /\ Become(p, Other)
  /\ disturbed' = TRUE
  /\ UNCHANGED <<machine, marker, browser, cmd>>

Next ==
  \/ \E p \in Pid : Bind(p) \/ Expire(p) \/ Die(p) \/ PidReused(p)
  \/ \E u \in Terminal : Command(u) \/ Step(u)
  \/ \E visit \in visiting : Load(visit)
  \/ \E port \in Port : Poll(port) \/ CloseTab(port)
                        \/ StrangerListens(port) \/ StrangerLeaves(port)
  \/ Tick \/ Update

\* Commands run to their end, processes are scheduled, time passes, and a tab
\* that is told to load or to refresh does.
Fairness ==
  /\ \A p \in Pid : WF_vars(Bind(p)) /\ WF_vars(Expire(p)) /\ WF_vars(Die(p))
  /\ \A u \in Terminal : WF_vars(Step(u))
  /\ \A port \in Port : WF_vars(Poll(port))
  /\ WF_vars(Tick)

Spec == Init /\ [][Next]_vars /\ Fairness

-----------------------------------------------------------------------------
(***************************************************************************)
(* Properties                                                              *)
(***************************************************************************)

Marker == [pid : Pid, port : Port, script : Version]
Op == {"open", "restart", "stop"}
Doing ==
  UNION {{Idle, [at |-> "unlink"]},
         [at : {"kill", "wait"}, op : Op, script : Version, pid : Pid, target : Port],
         [at : {"spawn"}, op : Op, script : Version, preferred : Port, target : Port \cup {NoPort}],
         [at : {"await"}, op : Op, script : Version, pid : Pid, port : Port, target : Port \cup {NoPort}]}

TypeOK ==
  /\ installed \in Version /\ strangers \subseteq Port
  /\ process \in [Pid -> {Gone, Other} \cup [at : {"starting", "serving", "dying"}, port : Port,
                                            script : Version, quiet : 0..IdleTicks]]
  /\ marker = NoMarker \/ marker \in Marker
  /\ tabs \subseteq Port
  /\ visiting \subseteq [port : Port, script : Version]
  /\ cmd \in [Terminal -> Doing]
  /\ disturbed \in BOOLEAN /\ commands \in 0..MaxCommands /\ strange \in 0..MaxStrange

\* What is written down of a server: the marker, or a command that waits for it.
Recorded(p) == marker = [pid |-> p, port |-> process[p].port, script |-> process[p].script]
Awaited(p) ==
  \E u \in Terminal : /\ At(u, "await") /\ cmd[u].pid = p
                      /\ cmd[u].port = process[p].port /\ cmd[u].script = process[p].script

\* `open` reattaches instead of starting a duplicate, and `stop` finds what runs:
\* unless commands overlap, a wait runs out, no port is free or an id is reused,
\* one server runs at most, and it is the one the marker names.
OneServer ==
  ~disturbed => \A p \in Pid : Running(p) => /\ Recorded(p) \/ Awaited(p)
                                            /\ \A q \in Pid : Running(q) => p = q

\* A restart, or the replacement of an older version, comes back on the port the
\* open tab polls, unless another program has taken it.
PortKept ==
  \A u \in Terminal :
    ~disturbed /\ At(u, "await") /\ cmd[u].target # NoPort => cmd[u].port = cmd[u].target

\* An updated plugin's `open` never shows the page of an older server.
NoStalePage ==
  ~disturbed => \A visit \in visiting, p \in Pid :
                  Running(p) /\ process[p].port = visit.port => process[p].script >= visit.script

\* The inductive invariant: who may run at which point of the one command, and
\* that what still has to die does not hold the port the marker names.
OnePerPort ==
  \A p \in Pid, port \in Port :
    Serves(p, port) => port \notin strangers /\ \A q \in Pid : Serves(q, port) => p = q

OneCommand == \A u, v \in Terminal : ~At(u, "idle") /\ ~At(v, "idle") => u = v

Expected ==
  \A p \in Pid : Running(p) =>
    \/ /\ process[p].at = "serving" /\ Recorded(p)
       /\ \A u \in Terminal : At(u, "idle") \/ At(u, "kill")
    \/ Awaited(p)

OnTarget ==
  \A u \in Terminal :
    /\ At(u, "kill") => marker # NoMarker /\ cmd[u].pid = marker.pid
    /\ At(u, "kill") \/ At(u, "wait") => marker # NoMarker /\ cmd[u].target = marker.port
    /\ At(u, "spawn") /\ cmd[u].target # NoPort =>
         marker # NoMarker /\ cmd[u].target = marker.port /\ cmd[u].preferred = cmd[u].target

DyingApart ==
  \A p \in Pid : process[p].at = "dying" =>
    /\ marker # NoMarker /\ process[p].port = marker.port =>
         \E u \in Terminal : At(u, "wait") \/ At(u, "unlink")
    /\ \A u \in Terminal : At(u, "await") => process[p].port # cmd[u].port

Newest ==
  /\ \A visit \in visiting : visit.script <= installed
  /\ \A u \in Terminal : ~At(u, "idle") /\ ~At(u, "unlink") =>
       cmd[u].script <= installed /\ \A visit \in visiting : visit.script <= cmd[u].script

Undisturbed ==
  /\ \A p \in Pid : process[p] # Other
  /\ OneCommand /\ Expected /\ OnTarget /\ DyingApart /\ Newest

IndInv ==
  /\ TypeOK /\ OnePerPort
  /\ ~disturbed => Undisturbed
  /\ PortKept /\ NoStalePage

\* The watchdog never ends a server a refreshing tab polls.
NeverUnderATab ==
  [][\A p \in Pid : process[p].at = "serving" /\ process[p].port \in tabs =>
                      process'[p].at \in {"serving", "dying"}]_vars

\* Nothing lingers once the last tab has closed.
NothingLingers ==
  <>[](visiting = {} /\ tabs = {}) => <>[](\A p \in Pid : ~Server(p))
=============================================================================
