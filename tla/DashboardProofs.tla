--------------------------- MODULE DashboardProofs ---------------------------
(***************************************************************************)
(* Proofs about Dashboard, for any number of ports, process ids,           *)
(* terminals, commands and versions.                                       *)
(***************************************************************************)
EXTENDS Dashboard, TLAPS

ServerRecord == [at : {"starting", "serving", "dying"}, port : Port, script : Version, quiet : 0..IdleTicks]

\* What a process id and a command can be, field by field.
LEMMA ProcessFields ==
  ASSUME TypeOK, NEW p \in Pid
  PROVE  /\ process[p].at \in {"gone", "other", "starting", "serving", "dying"}
         /\ process[p].at = "gone" <=> process[p] = Gone
         /\ process[p].at = "other" <=> process[p] = Other
         /\ Server(p) => /\ process[p] \in ServerRecord
                         /\ process[p].port \in Port /\ process[p].script \in Version
                         /\ process[p].quiet \in 0..IdleTicks
  BY DEF TypeOK, Gone, Other, Server, ServerRecord

LEMMA CmdFields ==
  ASSUME TypeOK, NEW u \in Terminal
  PROVE  /\ cmd[u].at \in {"idle", "unlink", "kill", "wait", "spawn", "await"}
         /\ At(u, "kill") \/ At(u, "wait") =>
              /\ cmd[u] \in [at : {"kill", "wait"}, op : Op, script : Version, pid : Pid, target : Port]
              /\ cmd[u].script \in Version /\ cmd[u].pid \in Pid /\ cmd[u].target \in Port /\ cmd[u].op \in Op
         /\ At(u, "spawn") =>
              /\ cmd[u].script \in Version /\ cmd[u].preferred \in Port /\ cmd[u].op \in Op
              /\ cmd[u].target \in Port \cup {NoPort}
         /\ At(u, "await") =>
              /\ cmd[u].script \in Version /\ cmd[u].pid \in Pid /\ cmd[u].port \in Port /\ cmd[u].op \in Op
              /\ cmd[u].target \in Port \cup {NoPort}
  BY DEF TypeOK, Doing, Idle, At

\* Every step keeps every variable in its range.
LEMMA Typed ==
  TypeOK /\ [Next]_vars => TypeOK'
<1> USE DashboardAssumption
<1> SUFFICES ASSUME TypeOK, [Next]_vars PROVE TypeOK'
  OBVIOUS
<1> USE DEF At, Goto, Become
<1>1. ASSUME NEW p \in Pid, Bind(p) PROVE TypeOK'
  <2>1. process[p].at = "starting" /\ process[p] \in ServerRecord
    BY <1>1, ProcessFields DEF Bind, Server
  <2>2. [process[p] EXCEPT !.at = "serving"] \in ServerRecord
    BY <2>1 DEF ServerRecord
  <2> QED BY <1>1, <2>2 DEF Bind, TypeOK, ServerRecord, machine, browser, bounds
<1>2. ASSUME NEW p \in Pid, Expire(p) \/ Die(p) PROVE TypeOK'
  BY <1>2 DEF Expire, Die, TypeOK, machine, browser, bounds
<1>3. ASSUME NEW p \in Pid, PidReused(p) PROVE TypeOK'
  BY <1>3 DEF PidReused, Strange, TypeOK, machine, browser, bounds
<1>4. ASSUME NEW u \in Terminal, Command(u) PROVE TypeOK'
  <2>1. installed \in Version /\ cmd \in [Terminal -> Doing] /\ visiting \subseteq [port : Port, script : Version]
    BY DEF TypeOK
  <2>2. ASSUME NEW op \in Op, Begin(u), Stopping(u, op), marker # NoMarker, visiting' = visiting PROVE TypeOK'
    <3>1. marker \in Marker
      BY <2>2 DEF TypeOK
    <3>2. [at |-> "kill", op |-> op, script |-> installed, pid |-> marker.pid, target |-> marker.port] \in Doing
      BY <3>1, <2>1 DEF Doing, Marker
    <3>3. cmd' \in [Terminal -> Doing]
      BY <3>2, <2>1, <2>2 DEF Stopping
    <3> QED BY <2>2, <3>3 DEF Begin, TypeOK, machine
  <2>3. ASSUME NEW op \in Op, Begin(u), Starting(u, op, installed, Default, NoPort), visiting' = visiting PROVE TypeOK'
    <3>2. [at |-> "spawn", op |-> op, script |-> installed, preferred |-> Default, target |-> NoPort] \in Doing
      BY <2>1 DEF Doing, Default, Port
    <3>3. cmd' \in [Terminal -> Doing]
      BY <3>2, <2>1, <2>3 DEF Starting
    <3> QED BY <2>3, <3>3 DEF Begin, TypeOK, machine
  <2>4. ASSUME NEW browse \in BOOLEAN, Reattach(u, browse) PROVE TypeOK'
    <3>1. marker \in Marker
      BY <2>4 DEF Reattach, Live, TypeOK
    <3>2. [port |-> marker.port, script |-> installed] \in [port : Port, script : Version]
      BY <3>1, <2>1 DEF Marker
    <3>3. visiting' \subseteq [port : Port, script : Version]
      BY <3>2, <2>1, <2>4 DEF Reattach
    <3> QED BY <2>4, <3>3 DEF Reattach, Begin, TypeOK, machine
  <2>5. CASE Replace(u)
    BY <2>5, <2>2 DEF Replace, Live, Op
  <2>6. CASE OpenAfresh(u)
    BY <2>6, <2>3 DEF OpenAfresh, Op
  <2>7. CASE Restart(u)
    BY <2>7, <2>2, <2>3 DEF Restart, Op
  <2>8. CASE Stop(u)
    <3>1. ASSUME Begin(u), Goto(u, [at |-> "unlink"]), visiting' = visiting PROVE TypeOK'
      <4>1. [at |-> "unlink"] \in Doing
        BY DEF Doing
      <4>2. cmd' \in [Terminal -> Doing]
        BY <4>1, <2>1, <3>1
      <4> QED BY <3>1, <4>2 DEF Begin, TypeOK, machine
    <3> QED BY <3>1, <2>8, <2>2 DEF Stop, Op
  <2> QED BY <1>4, <2>4, <2>5, <2>6, <2>7, <2>8 DEF Command
<1>5. ASSUME NEW u \in Terminal, Step(u) PROVE TypeOK'
  <2>1. cmd \in [Terminal -> Doing] /\ Idle \in Doing /\ [at |-> "unlink"] \in Doing
    BY DEF TypeOK, Doing
  <2>2. ASSUME NEW op \in Op, NEW script \in Version, NEW target \in Port
        PROVE  [at |-> "spawn", op |-> op, script |-> script, preferred |-> target, target |-> target] \in Doing
    BY DEF Doing
  <2>3. CASE Kill(u)
    <3>1. At(u, "kill") /\ cmd[u].pid \in Pid /\ cmd[u].op \in Op /\ cmd[u].script \in Version /\ cmd[u].target \in Port
      BY <2>3, CmdFields DEF Kill
    <3>2. [cmd[u] EXCEPT !.at = "wait"] \in Doing
      BY <3>1, CmdFields DEF Doing
    <3>3. cmd' \in [Terminal -> Doing]
      BY <2>1, <2>2, <2>3, <3>1, <3>2 DEF Kill, AfterKill, Starting
    <3>4. Signalled(cmd[u].pid) \in {Gone, Other} \cup ServerRecord
      <4>1. CASE process[cmd[u].pid].at \in {"serving", "dying"}
        <5>1. process[cmd[u].pid] \in ServerRecord
          BY <4>1, <3>1, ProcessFields DEF Server
        <5> QED BY <5>1, <4>1 DEF Signalled, ServerRecord
      <4> QED BY <4>1 DEF Signalled
    <3>5. process' \in [Pid -> {Gone, Other} \cup ServerRecord]
      BY <3>4, <3>1, <2>3 DEF Kill, TypeOK, ServerRecord
    <3> QED BY <2>3, <3>3, <3>5 DEF Kill, TypeOK, ServerRecord, machine, browser, bounds
  <2>4. CASE Released(u) \/ WaitTimesOut(u)
    <3>1. cmd' \in [Terminal -> Doing]
      BY <2>1, <2>2, <2>4, CmdFields DEF Released, WaitTimesOut, Starting
    <3> QED BY <2>4, <3>1 DEF Released, WaitTimesOut, TypeOK, machine, browser, bounds
  <2>5. ASSUME NEW p \in Pid, Spawn(u, p) PROVE TypeOK'
    <3>1. At(u, "spawn") /\ cmd[u].op \in Op /\ cmd[u].script \in Version /\ cmd[u].target \in Port \cup {NoPort}
      BY <2>5, CmdFields DEF Spawn
    <3>2. PICK port \in Port :
            /\ process' = [process EXCEPT ![p] = [at |-> "starting", port |-> port, script |-> cmd[u].script, quiet |-> 0]]
            /\ cmd' = [cmd EXCEPT ![u] = [at |-> "await", op |-> cmd[u].op, script |-> cmd[u].script, pid |-> p, port |-> port,
                     target |-> IF cmd[u].target \in strangers THEN NoPort ELSE cmd[u].target]]
            /\ disturbed' = (disturbed \/ Listening(port))
      BY <2>5 DEF Spawn
    <3>3. [at |-> "starting", port |-> port, script |-> cmd[u].script, quiet |-> 0] \in ServerRecord
      BY <3>1 DEF ServerRecord, IdleTicks
    <3>4. [at |-> "await", op |-> cmd[u].op, script |-> cmd[u].script, pid |-> p, port |-> port,
                     target |-> IF cmd[u].target \in strangers THEN NoPort ELSE cmd[u].target] \in Doing
      BY <3>1 DEF Doing
    <3>5. disturbed' \in BOOLEAN
      BY <3>2 DEF TypeOK, Listening, Serves
    <3> QED BY <2>5, <3>2, <3>3, <3>4, <3>5 DEF Spawn, TypeOK, ServerRecord, machine, browser, bounds
  <2>6. ASSUME NEW browse \in BOOLEAN, Answered(u, browse) \/ AwaitTimesOut(u, browse) PROVE TypeOK'
    <3>1. At(u, "await") /\ cmd[u].script \in Version /\ cmd[u].pid \in Pid /\ cmd[u].port \in Port
      BY <2>6, CmdFields DEF Answered, AwaitTimesOut
    <3>2. Record(u, browse)
      BY <2>6 DEF Answered, AwaitTimesOut
    <3>3. cmd' \in [Terminal -> Doing] /\ marker' \in Marker
      BY <2>1, <3>1, <3>2 DEF Record, Marker
    <3>4. visiting' \subseteq [port : Port, script : Version]
      BY <3>1, <3>2 DEF Record, TypeOK
    <3> QED BY <3>2, <3>3, <3>4 DEF Record, TypeOK, machine, bounds
  <2>7. CASE Unlink(u)
    BY <2>1, <2>7 DEF Unlink, TypeOK, machine, browser, bounds
  <2> QED BY <1>5, <2>3, <2>4, <2>5, <2>6, <2>7 DEF Step
<1>6. ASSUME NEW port \in Port, Requested(port) PROVE process' \in [Pid -> {Gone, Other} \cup ServerRecord]
  <2>1. ASSUME NEW p \in Pid PROVE process'[p] \in {Gone, Other} \cup ServerRecord
    <3>1. CASE process[p].at = "serving" /\ process[p].port = port
      <4>1. process[p] \in ServerRecord
        BY <3>1, ProcessFields DEF Server
      <4> QED BY <4>1, <3>1, <1>6 DEF Requested, ServerRecord, IdleTicks
    <3>2. CASE ~(process[p].at = "serving" /\ process[p].port = port)
      BY <3>2, <1>6 DEF Requested, TypeOK, ServerRecord
    <3> QED BY <3>1, <3>2
  <2> QED BY <2>1, <1>6 DEF Requested
<1>7. ASSUME NEW visit \in visiting, Load(visit) PROVE TypeOK'
  <2>1. visit.port \in Port
    BY DEF TypeOK
  <2> QED BY <1>6, <1>7, <2>1 DEF Load, TypeOK, ServerRecord, machine, bounds
<1>8. ASSUME NEW port \in Port, Poll(port) PROVE TypeOK'
  BY <1>6, <1>8 DEF Poll, TypeOK, ServerRecord, machine, browser, bounds
<1>9. ASSUME NEW port \in Port, CloseTab(port) \/ StrangerListens(port) \/ StrangerLeaves(port) PROVE TypeOK'
  BY <1>9 DEF CloseTab, StrangerListens, StrangerLeaves, Strange, TypeOK, machine, browser, bounds
<1>10. CASE Tick
  <2>1. ASSUME NEW p \in Pid PROVE process'[p] \in {Gone, Other} \cup ServerRecord
    <3>1. CASE process[p].at = "serving" /\ process[p].quiet < IdleTicks
      <4>1. process[p] \in ServerRecord /\ process[p].quiet \in 0..IdleTicks
        BY <3>1, ProcessFields DEF Server
      <4>2. process[p].quiet + 1 \in 0..IdleTicks
        BY <4>1, <3>1 DEF IdleTicks
      <4> QED BY <4>1, <4>2, <3>1, <1>10 DEF Tick, ServerRecord
    <3>2. CASE ~(process[p].at = "serving" /\ process[p].quiet < IdleTicks)
      BY <3>2, <1>10 DEF Tick, TypeOK, ServerRecord
    <3> QED BY <3>1, <3>2
  <2>2. process' \in [Pid -> {Gone, Other} \cup ServerRecord]
    BY <2>1, <1>10 DEF Tick
  <2> QED BY <2>2, <1>10 DEF Tick, TypeOK, ServerRecord, machine, browser, bounds
<1>11. CASE Update
  BY <1>11 DEF Update, TypeOK, Version, Marker, Doing, browser, bounds
<1>12. CASE UNCHANGED vars
  BY <1>12 DEF vars, TypeOK, machine, browser, bounds
<1> QED BY <1>1, <1>2, <1>3, <1>4, <1>5, <1>7, <1>8, <1>9, <1>10, <1>11, <1>12 DEF Next

\* At first at most one server runs, the one the marker names.
LEMMA InitInv == Init => IndInv
<1> USE DashboardAssumption
<1> SUFFICES ASSUME Init PROVE IndInv
  OBVIOUS
<1> USE DEF At
<1>1. cmd \in [Terminal -> Doing] /\ \A u \in Terminal : cmd[u].at = "idle"
  BY DEF Init, Idle, Doing
<1>2. /\ installed \in Version /\ strangers \subseteq Port /\ visiting \subseteq [port : Port, script : Version]
      /\ disturbed \in BOOLEAN /\ commands \in 0..MaxCommands /\ strange \in 0..MaxStrange
      /\ visiting = {}
  <2>1. installed = 0 /\ commands = 0 /\ strange = 0 /\ strangers = {} /\ visiting = {}
    BY DEF Init
  <2>2. disturbed \in BOOLEAN
    BY DEF Init
  <2> QED BY <2>1, <2>2 DEF Version, DashboardAssumption
<1>3. CASE process = [p \in Pid |-> Gone] /\ marker = NoMarker /\ tabs = {}
  <2>1. TypeOK
    <3>1. process \in [Pid -> {Gone, Other} \cup ServerRecord]
      BY <1>3
    <3> QED BY <1>1, <1>2, <1>3, <3>1 DEF TypeOK, ServerRecord
  <2>2. \A p \in Pid : process[p].at = "gone" /\ process[p] # Other
    BY <1>3 DEF Gone, Other
  <2> QED BY <1>1, <1>2, <2>1, <2>2 DEF IndInv, OnePerPort, Serves, Undisturbed, OneCommand, Expected, Running,
          OnTarget, DyingApart, Newest, PortKept, NoStalePage
<1>4. ASSUME NEW p \in Pid, NEW port \in Port, process = Opened(p, port), tabs = {port},
             marker = [pid |-> p, port |-> port, script |-> 0]
      PROVE  IndInv
  <2> DEFINE server == [at |-> "serving", port |-> port, script |-> 0, quiet |-> 0]
  <2>1. server \in ServerRecord
    BY DEF ServerRecord, Version, IdleTicks
  <2>2. process \in [Pid -> {Gone, Other} \cup ServerRecord]
    BY <1>4, <2>1 DEF Opened
  <2>3. marker \in Marker
    BY <1>4 DEF Marker, Version
  <2>4. TypeOK
    BY <1>1, <1>2, <1>4, <2>2, <2>3 DEF TypeOK, ServerRecord
  <2>5. /\ process[p].at = "serving" /\ process[p].port = port /\ process[p].script = 0
        /\ \A q \in Pid : q # p => process[q].at = "gone"
        /\ \A q \in Pid : process[q] # Other /\ process[q].at # "dying"
    BY <1>4 DEF Opened, Gone, Other
  <2>6. Expected
    BY <1>1, <1>4, <2>5 DEF Expected, Running, Recorded
  <2>7. strangers = {}
    BY DEF Init
  <2>8. OnePerPort
    BY <2>5, <2>7 DEF OnePerPort, Serves
  <2> QED BY <1>1, <1>2, <2>4, <2>5, <2>6, <2>8 DEF IndInv, Undisturbed, OneCommand,
          OnTarget, DyingApart, Newest, PortKept, NoStalePage
<1> QED
  <2> DEFINE first == CHOOSE p \in Pid : TRUE
  <2>1. first \in Pid
    BY DEF DashboardAssumption
  <2> QED BY <1>3, <1>4, <2>1 DEF Init

\* A step after which no port has a listener it had not, keeps listeners apart.
LEMMA NoNewListener ==
  ASSUME OnePerPort, strangers' \subseteq strangers,
         \A p \in Pid, port \in Port : Serves(p, port)' => Serves(p, port)
  PROVE  OnePerPort'
BY DEF OnePerPort

\* No two servers, and no server and other program, listen on one port.
LEMMA Exclusive ==
  ASSUME TypeOK, OnePerPort, [Next]_vars
  PROVE  OnePerPort'
<1> USE DEF Serves
<1>1. ASSUME NEW p \in Pid, Bind(p) PROVE OnePerPort'
  <2>1. process[p].at = "starting" /\ strangers' = strangers
    BY <1>1 DEF Bind, machine
  <2>2. CASE Listening(process[p].port)
    <3>1. process' = [process EXCEPT ![p] = Gone]
      BY <1>1, <2>2 DEF Bind, Become
    <3> QED BY <2>1, <3>1, NoNewListener DEF TypeOK, Gone
  <2>3. CASE ~Listening(process[p].port)
    <3>1. process' = [process EXCEPT ![p] = [process[p] EXCEPT !.at = "serving"]]
      BY <1>1, <2>3 DEF Bind, Become
    <3>2. process[p] \in ServerRecord
      BY <2>1, ProcessFields DEF Server
    <3>3. process'[p].port = process[p].port /\ \A q \in Pid : q # p => process'[q] = process[q]
      BY <3>1, <3>2 DEF TypeOK, ServerRecord
    <3> QED BY <2>1, <2>3, <3>3 DEF OnePerPort, Listening
  <2> QED BY <2>2, <2>3
<1>2. ASSUME NEW p \in Pid, Expire(p) \/ Die(p) \/ PidReused(p) PROVE OnePerPort'
  BY <1>2, NoNewListener DEF Expire, Die, PidReused, Become, TypeOK, Gone, Other, machine
<1>3. ASSUME NEW u \in Terminal, Command(u) PROVE OnePerPort'
  BY <1>3, NoNewListener DEF Command, Reattach, Replace, OpenAfresh, Restart, Stop, Begin, machine
<1>4. ASSUME NEW u \in Terminal, Step(u) PROVE OnePerPort'
  <2>1. CASE Kill(u)
    <3>1. cmd[u].pid \in Pid /\ process' = [process EXCEPT ![cmd[u].pid] = Signalled(cmd[u].pid)] /\ strangers' = strangers
      BY <2>1, CmdFields DEF Kill, Become, machine, At
    <3>2. ASSUME NEW p \in Pid, NEW port \in Port, Serves(p, port)' PROVE Serves(p, port)
      <4>1. CASE p = cmd[u].pid /\ process[p].at \in {"serving", "dying"}
        <5>1. process[p] \in ServerRecord
          BY <4>1, ProcessFields DEF Server
        <5> QED BY <3>1, <3>2, <4>1, <5>1 DEF Signalled, ServerRecord, TypeOK
      <4> QED BY <3>1, <3>2, <4>1 DEF Signalled, Gone, TypeOK
    <3> QED BY <3>1, <3>2, NoNewListener
  <2>2. ASSUME NEW p \in Pid, Spawn(u, p) PROVE OnePerPort'
    BY <2>2, NoNewListener DEF Spawn, Become, TypeOK, machine
  <2>3. CASE UNCHANGED <<machine, process>>
    BY <2>3, NoNewListener DEF machine
  <2> QED BY <1>4, <2>1, <2>2, <2>3 DEF Step, Released, WaitTimesOut, Answered, AwaitTimesOut, Record, Unlink
<1>5. ASSUME NEW port \in Port, Requested(port), UNCHANGED machine PROVE OnePerPort'
  <2>1. ASSUME NEW p \in Pid PROVE process'[p].at = process[p].at /\ (Server(p) => process'[p].port = process[p].port)
    BY <1>5, ProcessFields DEF Requested, ServerRecord, Server
  <2> QED BY <1>5, <2>1, NoNewListener DEF machine, Server
<1>6. ASSUME NEW visit \in visiting, Load(visit) PROVE OnePerPort'
  BY <1>5, <1>6 DEF Load, TypeOK
<1>7. ASSUME NEW port \in Port, Poll(port) PROVE OnePerPort'
  BY <1>5, <1>7 DEF Poll
<1>8. ASSUME NEW port \in Port, CloseTab(port) \/ StrangerLeaves(port) PROVE OnePerPort'
  BY <1>8, NoNewListener DEF CloseTab, StrangerLeaves, machine
<1>9. ASSUME NEW port \in Port, StrangerListens(port) PROVE OnePerPort'
  BY <1>9 DEF StrangerListens, OnePerPort, Listening
<1>10. CASE Tick
  <2>1. ASSUME NEW p \in Pid PROVE process'[p].at = process[p].at /\ (Server(p) => process'[p].port = process[p].port)
    BY <1>10, ProcessFields DEF Tick, ServerRecord, Server
  <2> QED BY <1>10, <2>1, NoNewListener DEF Tick, machine, Server
<1>11. CASE Update \/ UNCHANGED vars
  BY <1>11, NoNewListener DEF Update, vars, machine
<1> QED BY <1>1, <1>2, <1>3, <1>4, <1>6, <1>7, <1>8, <1>9, <1>10, <1>11 DEF Next

\* What a step leaves of a process: it goes on as it was, ends, or begins to serve.
GoesOn(p) ==
  \/ process'[p].at = process[p].at /\ (Server(p) => process'[p].port = process[p].port /\ process'[p].script = process[p].script)
  \/ process'[p] = Gone
  \/ /\ process[p].at = "starting" /\ process'[p].at = "serving"
     /\ process'[p].port = process[p].port /\ process'[p].script = process[p].script

\* Servers that start to listen, expire or end, pages that load or poll, other
\* programs and updates change nothing of what the commands rely on.
LEMMA Background ==
  ASSUME IndInv, TypeOK', UNCHANGED <<cmd, marker, disturbed>>, visiting' \subseteq visiting,
         installed <= installed', \A p \in Pid : GoesOn(p)
  PROVE  (~disturbed' => Undisturbed') /\ PortKept' /\ NoStalePage'
<1> USE DEF At
<1>1. PortKept'
  BY DEF IndInv, PortKept
<1> SUFFICES ASSUME ~disturbed' PROVE Undisturbed' /\ NoStalePage'
  BY <1>1 DEF NoStalePage
<1>2. Undisturbed /\ TypeOK
  BY DEF IndInv
<1>3. ASSUME NEW p \in Pid
      PROVE  /\ process'[p] # Other
             /\ Running(p)' => Running(p) /\ process'[p].port = process[p].port /\ process'[p].script = process[p].script
             /\ process[p].at = "serving" /\ Running(p)' => process'[p].at = "serving"
             /\ process'[p].at = "dying" => process[p].at = "dying" /\ process'[p].port = process[p].port
  BY <1>2, ProcessFields DEF GoesOn, Running, Server, Gone, Other, Undisturbed
<1>4. OneCommand' /\ OnTarget'
  BY <1>2 DEF Undisturbed, OneCommand, OnTarget
<1>5. Expected'
  BY <1>2, <1>3 DEF Undisturbed, Expected, Recorded, Awaited
<1>6. DyingApart'
  BY <1>2, <1>3 DEF Undisturbed, DyingApart
<1>7. Newest'
  <2>1. \A u \in Terminal : cmd[u].at \in {"idle", "unlink"} \/ cmd[u].script \in Version
    BY <1>2, CmdFields
  <2>2. \A visit \in visiting : visit.script \in Version
    BY <1>2 DEF TypeOK
  <2>3. installed \in Int /\ installed' \in Int
    BY <1>2 DEF TypeOK, Version
  <2> QED BY <1>2, <2>1, <2>2, <2>3 DEF Undisturbed, Newest, Version
<1>8. NoStalePage'
  BY <1>2, <1>3 DEF IndInv, NoStalePage
<1> QED BY <1>3, <1>4, <1>5, <1>6, <1>7, <1>8 DEF Undisturbed

\* What a command may rely on when it begins: nothing else is being done, and
\* what runs serves and is the server the marker names.
LEMMA BeginsAlone ==
  ASSUME IndInv, ~disturbed, NEW u \in Terminal, Begin(u), ~disturbed'
  PROVE  /\ \A v \in Terminal : At(v, "idle")
         /\ \A p \in Pid : Running(p) =>
              /\ process[p].at = "serving" /\ Recorded(p)
              /\ marker \in Marker /\ marker.pid = p
              /\ marker.port = process[p].port /\ marker.script = process[p].script
<1>1. \A v \in Terminal : At(v, "idle")
  BY DEF Begin
<1>2. ASSUME NEW p \in Pid, Running(p)
      PROVE  /\ process[p].at = "serving" /\ Recorded(p)
             /\ marker.pid = p /\ marker.port = process[p].port /\ marker.script = process[p].script
  BY <1>1, <1>2 DEF IndInv, Undisturbed, Expected, Awaited, Recorded, At
<1>3. ASSUME NEW p \in Pid, Running(p) PROVE marker \in Marker
  <2>1. process[p].port \in Port
    BY <1>3, ProcessFields DEF IndInv, Running, Server
  <2> QED BY <1>2, <1>3, <2>1 DEF IndInv, TypeOK, NoMarker, NoPort, Port
<1> QED BY <1>1, <1>2, <1>3

\* A command that begins keeps the invariant's parts.
LEMMA CommandKeeps ==
  ASSUME IndInv, ~disturbed, NEW u \in Terminal, Command(u), ~disturbed'
  PROVE  Undisturbed' /\ PortKept' /\ NoStalePage'
<1> USE DEF At
<1>1. Begin(u) /\ TypeOK /\ Undisturbed
  BY DEF Command, Reattach, Replace, OpenAfresh, Restart, Stop, IndInv
<1>2. /\ \A v \in Terminal : cmd[v].at = "idle"
      /\ \A p \in Pid : Running(p) =>
           /\ process[p].at = "serving" /\ Recorded(p)
           /\ marker \in Marker /\ marker.pid = p
           /\ marker.port = process[p].port /\ marker.script = process[p].script
  BY <1>1, BeginsAlone
<1>3. process' = process /\ marker' = marker /\ installed' = installed
  BY <1>1 DEF Begin, machine
<1>4. ASSUME visiting' = visiting, NEW state \in Doing, cmd' = [cmd EXCEPT ![u] = state],
             state.at # "idle", state.at # "await",
             state.at # "unlink" => state.script = installed,
             state.at = "kill" => marker # NoMarker /\ state.pid = marker.pid /\ state.target = marker.port,
             state.at # "wait", state.at = "spawn" => state.target = NoPort,
             state.at # "kill" => \A p \in Pid : ~Running(p)
      PROVE  Undisturbed' /\ PortKept' /\ NoStalePage'
  <2>1. cmd'[u] = state /\ \A v \in Terminal : v # u => cmd'[v].at = "idle"
    BY <1>1, <1>2, <1>4 DEF TypeOK
  <2>2. OneCommand'
    BY <2>1 DEF OneCommand
  <2>3. Expected'
    BY <1>2, <1>3, <1>4, <2>1 DEF Expected, Running, Recorded
  <2>4. OnTarget'
    BY <1>3, <1>4, <2>1 DEF OnTarget
  <2>5. DyingApart'
    BY <1>1, <1>2, <1>3, <1>4, <2>1 DEF Undisturbed, DyingApart
  <2>6. Newest'
    BY <1>1, <1>3, <1>4, <2>1 DEF Undisturbed, Newest, TypeOK, Version
  <2>7. PortKept'
    BY <1>4, <2>1 DEF PortKept
  <2>8. NoStalePage'
    BY <1>3, <1>4 DEF IndInv, NoStalePage, Running
  <2> QED BY <1>1, <1>3, <2>2, <2>3, <2>4, <2>5, <2>6, <2>7, <2>8 DEF Undisturbed
<1>5. installed \in Version
  BY <1>1 DEF TypeOK
<1>6. ASSUME NEW op \in Op, marker # NoMarker, Stopping(u, op), visiting' = visiting
      PROVE  Undisturbed' /\ PortKept' /\ NoStalePage'
  <2> DEFINE state == [at |-> "kill", op |-> op, script |-> installed, pid |-> marker.pid, target |-> marker.port]
  <2>1. marker \in Marker
    BY <1>1, <1>6 DEF TypeOK
  <2>2. state \in Doing
    BY <1>5, <2>1 DEF Doing, Marker
  <2> QED BY <1>4, <1>6, <2>2 DEF Stopping, Goto
<1>7. ASSUME NEW op \in Op, Starting(u, op, installed, Default, NoPort), visiting' = visiting,
             \A p \in Pid : ~Running(p)
      PROVE  Undisturbed' /\ PortKept' /\ NoStalePage'
  <2> DEFINE state == [at |-> "spawn", op |-> op, script |-> installed, preferred |-> Default, target |-> NoPort]
  <2>1. state \in Doing
    BY <1>5, DashboardAssumption DEF Doing, Default, Port, DashboardAssumption
  <2> QED BY <1>4, <1>7, <2>1 DEF Starting, Goto
<1>8. marker = NoMarker => \A p \in Pid : ~Running(p)
  BY <1>2 DEF NoMarker, NoPort, Marker, Port
<1>9. CASE Replace(u)
  BY <1>6, <1>9 DEF Replace, Live, Op
<1>10. CASE OpenAfresh(u)
  <2>1. ASSUME NEW p \in Pid, Running(p) PROVE Live
    <3>1. marker # NoMarker
      BY <1>8, <2>1
    <3> QED BY <1>2, <2>1, <3>1 DEF Live, PidAlive, Listening, Serves, Gone, Marker
  <2> QED BY <1>7, <1>10, <2>1 DEF OpenAfresh, Op
<1>11. CASE Restart(u)
  BY <1>6, <1>7, <1>8, <1>11 DEF Restart, Op
<1>12. CASE Stop(u)
  <2>1. CASE marker = NoMarker
    <3>1. [at |-> "unlink"] \in Doing
      BY DEF Doing
    <3> QED BY <1>4, <1>8, <1>12, <2>1, <3>1 DEF Stop, Goto
  <2> QED BY <1>6, <1>12, <2>1 DEF Stop, Op
<1>13. ASSUME NEW browse \in BOOLEAN, Reattach(u, browse)
       PROVE  Undisturbed' /\ PortKept' /\ NoStalePage'
  <2>1. cmd' = cmd /\ marker.script = installed
    BY <1>13 DEF Reattach, Current
  <2>2. \A visit \in visiting' : visit \in visiting \/ (visit.port = marker.port /\ visit.script = installed)
    BY <1>13 DEF Reattach
  <2>3. OneCommand' /\ OnTarget' /\ DyingApart' /\ PortKept'
    BY <1>1, <1>2, <1>3, <2>1 DEF OneCommand, OnTarget, DyingApart, PortKept, Undisturbed
  <2>4. Expected'
    BY <1>2, <1>3, <2>1 DEF Expected, Running, Recorded
  <2>5. Newest'
    BY <1>1, <1>2, <1>3, <1>5, <2>1, <2>2 DEF Undisturbed, Newest, Version
  <2>6. NoStalePage'
    <3>1. ASSUME NEW p \in Pid, Running(p), process[p].port = marker.port PROVE process[p].script >= installed
      BY <1>2, <1>5, <2>1, <3>1 DEF Version
    <3> QED BY <1>3, <2>2, <3>1 DEF IndInv, NoStalePage, Running
  <2> QED BY <1>1, <1>3, <2>3, <2>4, <2>5, <2>6 DEF Undisturbed
<1> QED BY <1>9, <1>10, <1>11, <1>12, <1>13 DEF Command

\* In the middle of a command nothing else is being done; while it kills, only
\* the server the marker names may run, and while it waits for the new one, only
\* that one.
LEMMA Midway ==
  ASSUME IndInv, ~disturbed, NEW u \in Terminal, ~At(u, "idle")
  PROVE  /\ \A v \in Terminal : v # u => At(v, "idle")
         /\ \A p \in Pid : Running(p) =>
              \/ /\ At(u, "kill") /\ p = cmd[u].pid /\ process[p].at = "serving"
              \/ /\ At(u, "await") /\ p = cmd[u].pid
                 /\ cmd[u].port = process[p].port /\ cmd[u].script = process[p].script
<1>1. OneCommand /\ Expected /\ OnTarget
  BY DEF IndInv, Undisturbed
<1>2. \A v \in Terminal : v # u => At(v, "idle")
  BY <1>1 DEF OneCommand
<1>3. ASSUME NEW p \in Pid, Running(p), ~Awaited(p) PROVE At(u, "kill") /\ p = cmd[u].pid /\ process[p].at = "serving"
  BY <1>1, <1>3 DEF Expected, Recorded, OnTarget
<1>4. ASSUME NEW p \in Pid, Awaited(p)
      PROVE  /\ At(u, "await") /\ p = cmd[u].pid
             /\ cmd[u].port = process[p].port /\ cmd[u].script = process[p].script
  BY <1>2, <1>4 DEF Awaited, At
<1> QED BY <1>2, <1>3, <1>4

\* Once nothing runs, a command that goes on to unlink, wait or spawn keeps the
\* invariant's parts, if what still dies is waited for.
LEMMA NothingRuns ==
  ASSUME IndInv, ~disturbed, NEW u \in Terminal, ~At(u, "idle"),
         NEW state \in Doing, cmd' = [cmd EXCEPT ![u] = state],
         state.at \in {"unlink", "wait", "spawn"},
         state.at # "unlink" => At(u, "kill") \/ At(u, "wait"),
         state.at # "unlink" => state.script = cmd[u].script /\ state.target = marker.port /\ marker # NoMarker,
         state.at = "spawn" => state.preferred = state.target,
         UNCHANGED <<marker, visiting, installed>>,
         \A p \in Pid : ~Running(p)' /\ process'[p] # Other,
         state.at = "spawn" => \A p \in Pid : process'[p].at = "dying" => process'[p].port # marker.port
  PROVE  Undisturbed' /\ PortKept' /\ NoStalePage'
<1> USE DEF At
<1>1. Undisturbed /\ TypeOK
  BY DEF IndInv
<1>2. cmd'[u] = state /\ \A v \in Terminal : v # u => cmd'[v].at = "idle"
  BY <1>1, Midway DEF TypeOK
<1>3. OneCommand' /\ PortKept'
  BY <1>2 DEF OneCommand, PortKept
<1>4. Expected' /\ NoStalePage'
  BY DEF Expected, NoStalePage
<1>5. OnTarget'
  BY <1>2 DEF OnTarget
<1>6. DyingApart'
  BY <1>2 DEF DyingApart
<1>7. Newest'
  BY <1>1, <1>2 DEF Undisturbed, Newest
<1> QED BY <1>3, <1>4, <1>5, <1>6, <1>7 DEF Undisturbed

\* A command's further steps keep the invariant's parts.
LEMMA StepKeeps ==
  ASSUME IndInv, ~disturbed, NEW u \in Terminal, Step(u), ~disturbed'
  PROVE  Undisturbed' /\ PortKept' /\ NoStalePage'
<1> USE DEF At
<1>1. Undisturbed /\ TypeOK /\ OnePerPort
  BY DEF IndInv
<1>2. ~At(u, "idle")
  BY DEF Step, Kill, Released, WaitTimesOut, Spawn, Answered, AwaitTimesOut, Unlink
<1>3. /\ \A v \in Terminal : v # u => At(v, "idle")
      /\ \A p \in Pid : Running(p) =>
           \/ /\ At(u, "kill") /\ p = cmd[u].pid /\ process[p].at = "serving"
           \/ /\ At(u, "await") /\ p = cmd[u].pid
              /\ cmd[u].port = process[p].port /\ cmd[u].script = process[p].script
  BY <1>2, Midway
<1>4. ASSUME NEW op \in Op, NEW script \in Version, NEW target \in Port
      PROVE  [at |-> "spawn", op |-> op, script |-> script, preferred |-> target, target |-> target] \in Doing
  BY DEF Doing
<1>5. CASE Kill(u)
  <2> DEFINE pid == cmd[u].pid
  <2>1. /\ At(u, "kill") /\ pid \in Pid /\ cmd[u].op \in Op /\ cmd[u].script \in Version /\ cmd[u].target \in Port
        /\ cmd[u] \in [at : {"kill", "wait"}, op : Op, script : Version, pid : Pid, target : Port]
        /\ marker # NoMarker /\ pid = marker.pid /\ cmd[u].target = marker.port
    BY <1>1, <1>5, CmdFields DEF Kill, Undisturbed, OnTarget
  <2>2. process' = [process EXCEPT ![pid] = Signalled(pid)] /\ UNCHANGED <<marker, visiting, installed>>
    BY <1>5 DEF Kill, Become, machine, browser
  <2>3. ASSUME NEW p \in Pid
        PROVE  /\ ~Running(p)' /\ process'[p] # Other
               /\ process'[p].at = "dying" => process[p].at \in {"serving", "dying"} /\ process'[p].port = process[p].port
    <3>1. CASE p # pid
      BY <1>1, <1>3, <2>1, <2>2, <3>1 DEF Running, Undisturbed, TypeOK
    <3>2. CASE p = pid /\ process[p].at \in {"serving", "dying"}
      <4>1. process[p] \in ServerRecord
        BY <1>1, <3>2, ProcessFields DEF Server
      <4> QED BY <1>1, <2>2, <3>2, <4>1 DEF Signalled, Running, TypeOK, ServerRecord, Other
    <3>3. CASE p = pid /\ process[p].at \notin {"serving", "dying"}
      BY <1>1, <2>2, <3>3 DEF Signalled, Running, TypeOK, Gone, Other
    <3> QED BY <3>1, <3>2, <3>3
  <2>4. CASE cmd[u].op = "stop"
    <3>1. [at |-> "unlink"] \in Doing
      BY DEF Doing
    <3> QED BY <1>2, <1>5, <2>2, <2>3, <2>4, <3>1, NothingRuns DEF Kill, AfterKill, Goto
  <2>5. CASE cmd[u].op # "stop" /\ PidAlive(pid)
    <3> DEFINE state == [cmd[u] EXCEPT !.at = "wait"]
    <3>1. state \in Doing /\ state.at = "wait" /\ state.script = cmd[u].script /\ state.target = cmd[u].target
      BY <2>1 DEF Doing
    <3>2. cmd' = [cmd EXCEPT ![u] = state]
      BY <1>5, <2>5 DEF Kill, AfterKill, Goto
    <3> HIDE DEF state
    <3> QED BY <1>2, <2>1, <2>2, <2>3, <3>1, <3>2, NothingRuns
  <2>6. CASE cmd[u].op # "stop" /\ ~PidAlive(pid)
    <3> DEFINE state == [at |-> "spawn", op |-> cmd[u].op, script |-> cmd[u].script,
                         preferred |-> cmd[u].target, target |-> cmd[u].target]
    <3>1. state \in Doing
      BY <1>4, <2>1
    <3>2. cmd' = [cmd EXCEPT ![u] = state]
      BY <1>5, <2>6 DEF Kill, AfterKill, Goto, Starting
    <3>3. ASSUME NEW p \in Pid, process'[p].at = "dying" PROVE process'[p].port # marker.port
      <4>1. p # pid /\ process'[p] = process[p]
        BY <1>1, <2>1, <2>2, <2>6, <3>3 DEF PidAlive, Signalled, Gone, TypeOK
      <4>2. \A v \in Terminal : ~At(v, "wait") /\ ~At(v, "unlink")
        BY <1>3, <2>1
      <4> QED BY <1>1, <2>1, <3>3, <4>1, <4>2 DEF Undisturbed, DyingApart
    <3> QED BY <1>2, <2>1, <2>2, <2>3, <3>1, <3>2, <3>3, NothingRuns
  <2> QED BY <2>4, <2>5, <2>6
<1>6. CASE Released(u) \/ WaitTimesOut(u)
  <2> DEFINE state == [at |-> "spawn", op |-> cmd[u].op, script |-> cmd[u].script,
                       preferred |-> cmd[u].target, target |-> cmd[u].target]
  <2>1. /\ At(u, "wait") /\ cmd[u].op \in Op /\ cmd[u].script \in Version /\ cmd[u].target \in Port
        /\ marker # NoMarker /\ cmd[u].target = marker.port
    BY <1>1, <1>6, CmdFields DEF Released, WaitTimesOut, Undisturbed, OnTarget
  <2>2. state \in Doing
    BY <1>4, <2>1
  <2>3. cmd' = [cmd EXCEPT ![u] = state] /\ UNCHANGED <<process, marker, visiting, installed>>
    BY <1>6 DEF Released, WaitTimesOut, Starting, Goto, machine, browser
  <2>4. ~Listening(cmd[u].target) \/ cmd[u].target \in strangers
    BY <1>6 DEF Released, WaitTimesOut
  <2>5. \A p \in Pid : process[p].at = "dying" => process[p].port # marker.port
    BY <1>1, <2>1, <2>4 DEF Listening, Serves, OnePerPort
  <2>6. \A p \in Pid : ~Running(p)' /\ process'[p] # Other
    BY <1>1, <1>3, <2>1, <2>3 DEF Running, Undisturbed
  <2> QED BY <1>2, <2>1, <2>2, <2>3, <2>5, <2>6, NothingRuns
<1>7. ASSUME NEW p \in Pid, Spawn(u, p) PROVE Undisturbed' /\ PortKept' /\ NoStalePage'
  <2>1. PICK port \in Port :
          /\ IsFreePort(cmd[u].preferred, port)
          /\ process' = [process EXCEPT ![p] = [at |-> "starting", port |-> port, script |-> cmd[u].script, quiet |-> 0]]
          /\ cmd' = [cmd EXCEPT ![u] = [at |-> "await", op |-> cmd[u].op, script |-> cmd[u].script, pid |-> p, port |-> port,
                   target |-> IF cmd[u].target \in strangers THEN NoPort ELSE cmd[u].target]]
          /\ disturbed' = (disturbed \/ Listening(port))
    BY <1>7 DEF Spawn, Become, Goto
  <2>2. /\ At(u, "spawn") /\ UNCHANGED <<marker, visiting, installed>> /\ ~Listening(port)
        /\ \A q \in Pid : ~Running(q)
    BY <1>3, <1>7, <2>1 DEF Spawn, machine, browser
  <2>3. /\ process'[p].at = "starting" /\ process'[p].port = port /\ process'[p].script = cmd[u].script
        /\ \A q \in Pid : q # p => process'[q] = process[q]
        /\ cmd'[u].at = "await" /\ cmd'[u].pid = p /\ cmd'[u].port = port /\ cmd'[u].script = cmd[u].script
        /\ cmd'[u].target = IF cmd[u].target \in strangers THEN NoPort ELSE cmd[u].target
        /\ \A v \in Terminal : v # u => cmd'[v].at = "idle"
    BY <1>1, <1>3, <2>1 DEF TypeOK
  <2>4. OneCommand' /\ OnTarget'
    BY <2>3 DEF OneCommand, OnTarget
  <2>5. Expected'
    BY <2>2, <2>3 DEF Expected, Running, Awaited
  <2>6. DyingApart'
    <3>1. \A q \in Pid : process[q].at = "dying" =>
            process[q].port # port /\ (marker # NoMarker => process[q].port # marker.port)
      BY <1>1, <1>3, <2>2 DEF Undisturbed, DyingApart, Listening, Serves
    <3> QED BY <2>2, <2>3, <3>1 DEF DyingApart
  <2>7. Newest'
    BY <1>1, <2>2, <2>3 DEF Undisturbed, Newest
  <2>8. PortKept'
    <3>1. ASSUME cmd[u].target \notin strangers, cmd[u].target # NoPort PROVE port = cmd[u].target
      <4>1. marker # NoMarker /\ cmd[u].target = marker.port /\ cmd[u].preferred = cmd[u].target /\ cmd[u].preferred \in Port
        BY <1>1, <2>2, <3>1, CmdFields DEF Undisturbed, OnTarget
      <4>2. \A q \in Pid : ~Serves(q, cmd[u].target)
        BY <1>1, <1>3, <2>2, <4>1 DEF Undisturbed, DyingApart, Serves, Running
      <4>3. ~Listening(cmd[u].preferred)
        BY <3>1, <4>1, <4>2 DEF Listening
      <4> QED BY <2>1, <4>1, <4>3 DEF IsFreePort, Port
    <3> QED BY <2>3, <3>1 DEF PortKept
  <2>9. NoStalePage'
    <3>1. ASSUME NEW q \in Pid, Running(q)' PROVE q = p
      BY <2>2, <2>3, <3>1 DEF Running
    <3>2. \A visit \in visiting : visit.script <= cmd[u].script /\ visit.script \in Version
      BY <1>1, <2>2 DEF Undisturbed, Newest, TypeOK
    <3>3. cmd[u].script \in Version
      BY <1>1, <2>2, CmdFields
    <3> QED BY <2>2, <2>3, <3>1, <3>2, <3>3 DEF NoStalePage, Version
  <2> QED
    <3>1. \A q \in Pid : process'[q] # Other
      BY <1>1, <2>3 DEF Undisturbed, Other
    <3> QED BY <2>4, <2>5, <2>6, <2>7, <2>8, <2>9, <3>1 DEF Undisturbed
<1>8. ASSUME NEW browse \in BOOLEAN, Answered(u, browse) \/ AwaitTimesOut(u, browse)
      PROVE  Undisturbed' /\ PortKept' /\ NoStalePage'
  <2>1. At(u, "await") /\ Record(u, browse)
    BY <1>8 DEF Answered, AwaitTimesOut
  <2>2. /\ process[cmd[u].pid].at # "starting" /\ UNCHANGED <<process, installed>>
        /\ marker' = [pid |-> cmd[u].pid, port |-> cmd[u].port, script |-> cmd[u].script]
        /\ \A v \in Terminal : cmd'[v].at = "idle"
    BY <1>1, <1>3, <2>1 DEF Record, Goto, Idle, machine, TypeOK
  <2>3. \A visit \in visiting' : visit \in visiting \/ (visit.port = cmd[u].port /\ visit.script = cmd[u].script)
    BY <2>1 DEF Record
  <2>4. ASSUME NEW p \in Pid, Running(p)
        PROVE  /\ process[p].at = "serving" /\ p = cmd[u].pid
               /\ cmd[u].port = process[p].port /\ cmd[u].script = process[p].script
    BY <1>3, <2>1, <2>2, <2>4 DEF Running
  <2>5. OneCommand' /\ OnTarget' /\ PortKept'
    BY <2>2 DEF OneCommand, OnTarget, PortKept
  <2>6. Expected'
    BY <2>2, <2>4 DEF Expected, Running, Recorded
  <2>7. DyingApart'
    BY <1>1, <2>1, <2>2 DEF Undisturbed, DyingApart
  <2>8. Newest'
    BY <1>1, <2>1, <2>2, <2>3 DEF Undisturbed, Newest
  <2>9. NoStalePage'
    <3>1. cmd[u].script \in Int
      BY <1>1, <2>1, CmdFields DEF Version
    <3> QED BY <2>2, <2>3, <2>4, <3>1 DEF IndInv, NoStalePage, Running
  <2> QED BY <1>1, <2>2, <2>5, <2>6, <2>7, <2>8, <2>9 DEF Undisturbed
<1>9. CASE Unlink(u)
  <2>1. /\ At(u, "unlink") /\ marker' = NoMarker /\ UNCHANGED <<process, visiting, installed>>
        /\ \A v \in Terminal : cmd'[v].at = "idle"
    BY <1>1, <1>3, <1>9 DEF Unlink, Goto, Idle, machine, browser, TypeOK
  <2>2. \A p \in Pid : ~Running(p)'
    BY <1>3, <2>1 DEF Running
  <2> QED BY <1>1, <2>1, <2>2 DEF Undisturbed, OneCommand, Expected, OnTarget, DyingApart, Newest, PortKept, NoStalePage
<1> QED BY <1>5, <1>6, <1>7, <1>8, <1>9 DEF Step

\* Every step keeps the inductive invariant.
LEMMA Inductive == IndInv /\ [Next]_vars => IndInv'
<1> SUFFICES ASSUME IndInv, [Next]_vars PROVE IndInv'
  OBVIOUS
<1>1. TypeOK /\ TypeOK' /\ OnePerPort'
  BY Typed, Exclusive DEF IndInv
<1>2. (~disturbed' => Undisturbed') /\ PortKept' /\ NoStalePage'
  <2> DEFINE Kept == (~disturbed' => Undisturbed') /\ PortKept' /\ NoStalePage'
  <2>1. ASSUME NEW p \in Pid PROVE process[p].at = "starting" => process[p] \in ServerRecord
    BY <1>1, ProcessFields DEF Server
  <2>2. ASSUME NEW p \in Pid, Bind(p) \/ Expire(p) \/ Die(p) PROVE Kept
    <3>1. ASSUME NEW q \in Pid PROVE GoesOn(q)
      <4>1. CASE q # p
        BY <1>1, <2>2, <4>1 DEF Bind, Expire, Die, Become, GoesOn, TypeOK
      <4>2. CASE q = p /\ ~Bind(p)
        BY <1>1, <2>2, <4>2 DEF Expire, Die, Become, GoesOn, TypeOK
      <4>3. CASE q = p /\ Bind(p) /\ Listening(process[p].port)
        BY <1>1, <4>3 DEF Bind, Become, GoesOn, TypeOK
      <4>4. CASE q = p /\ Bind(p) /\ ~Listening(process[p].port)
        <5>1. process[p].at = "starting" /\ process' = [process EXCEPT ![p] = [process[p] EXCEPT !.at = "serving"]]
          BY <4>4 DEF Bind, Become
        <5> QED BY <1>1, <2>1, <4>4, <5>1 DEF GoesOn, TypeOK, ServerRecord
      <4> QED BY <4>1, <4>2, <4>3, <4>4
    <3>2. UNCHANGED <<installed, visiting, cmd, marker, disturbed>>
      BY <2>2 DEF Bind, Expire, Die, machine, browser
    <3> QED BY <1>1, <3>1, <3>2, Background DEF TypeOK, Version
  <2>3. ASSUME NEW p \in Pid, PidReused(p) PROVE Kept
    BY <2>3 DEF PidReused, PortKept, NoStalePage
  <2>4. ASSUME NEW u \in Terminal, Command(u) \/ Step(u) PROVE Kept
    <3>1. disturbed => disturbed'
      BY <2>4 DEF Command, Reattach, Replace, OpenAfresh, Restart, Stop, Begin,
         Step, Kill, Released, WaitTimesOut, Spawn, Answered, AwaitTimesOut, Record, Unlink
    <3> QED BY <2>4, <3>1, CommandKeeps, StepKeeps DEF PortKept, NoStalePage
  <2>5. ASSUME NEW port \in Port, Requested(port) PROVE \A p \in Pid : GoesOn(p)
    <3>1. ASSUME NEW p \in Pid PROVE process'[p] = process[p] \/
            (process[p] \in ServerRecord /\ process'[p] = [process[p] EXCEPT !.quiet = 0])
      BY <1>1, <2>5, ProcessFields DEF Requested, Server
    <3> QED BY <3>1 DEF GoesOn, ServerRecord
  <2>6. ASSUME NEW visit \in visiting, Load(visit) PROVE Kept
    <3>1. \A p \in Pid : GoesOn(p)
      BY <1>1, <2>5, <2>6 DEF Load, TypeOK
    <3>2. UNCHANGED <<installed, cmd, marker, disturbed>> /\ visiting' \subseteq visiting
      BY <2>6 DEF Load, machine
    <3> QED BY <1>1, <3>1, <3>2, Background DEF TypeOK, Version
  <2>7. ASSUME NEW port \in Port, Poll(port) PROVE Kept
    <3>1. UNCHANGED <<installed, visiting, cmd, marker, disturbed>>
      BY <2>7 DEF Poll, machine, browser
    <3> QED BY <1>1, <2>5, <2>7, <3>1, Background DEF TypeOK, Version, Poll
  <2>8. CASE Tick
    <3>1. ASSUME NEW p \in Pid PROVE process'[p] = process[p] \/
            (process[p] \in ServerRecord /\ process'[p] = [process[p] EXCEPT !.quiet = @ + 1])
      BY <1>1, <2>8, ProcessFields DEF Tick, Server
    <3>2. \A p \in Pid : GoesOn(p)
      BY <3>1 DEF GoesOn, ServerRecord
    <3>3. UNCHANGED <<installed, visiting, cmd, marker, disturbed>>
      BY <2>8 DEF Tick, machine, browser
    <3> QED BY <1>1, <3>2, <3>3, Background DEF TypeOK, Version
  <2>9. CASE UNCHANGED process /\ UNCHANGED <<visiting, cmd, marker, disturbed>> /\ installed <= installed'
    BY <1>1, <2>9, Background DEF GoesOn
  <2>10. ASSUME NEW port \in Port, CloseTab(port) \/ StrangerListens(port) \/ StrangerLeaves(port) PROVE Kept
    BY <1>1, <2>9, <2>10 DEF CloseTab, StrangerListens, StrangerLeaves, machine, browser, TypeOK, Version
  <2>11. CASE Update \/ UNCHANGED vars
    BY <1>1, <2>9, <2>11 DEF Update, vars, machine, browser, TypeOK, Version
  <2> QED BY <2>2, <2>3, <2>4, <2>6, <2>7, <2>8, <2>10, <2>11 DEF Next
<1> QED BY <1>1, <1>2 DEF IndInv

\* The invariant of the server's life: no port has two listeners, and unless the
\* run is disturbed one command at most is under way, what runs is the server the
\* marker or that command names, and the marker, the ports and the versions agree.
THEOREM DashboardInductive == Spec => []IndInv
<1>1. IndInv /\ [Next]_vars => IndInv'
  BY Inductive
<1> QED BY <1>1, InitInv, PTL DEF Spec

\* `open` reattaches instead of starting a duplicate: undisturbed, one server runs
\* at most, and it is the one `stop` and the next `open` find.
THEOREM DashboardOneServer == Spec => []OneServer
<1>1. ASSUME IndInv PROVE OneServer
  <2> SUFFICES ASSUME ~disturbed, NEW p \in Pid, Running(p)
               PROVE  /\ Recorded(p) \/ Awaited(p)
                      /\ \A q \in Pid : Running(q) => p = q
    BY DEF OneServer
  <2>1. Expected /\ OneCommand
    BY <1>1 DEF IndInv, Undisturbed
  <2>2. ASSUME NEW q \in Pid, Running(q) PROVE p = q
    BY <1>1, <2>1, <2>2 DEF Expected, OneCommand, Recorded, Awaited, At
  <2> QED BY <2>1, <2>2 DEF Expected
<1> QED BY <1>1, DashboardInductive, PTL

\* A page that refreshes itself comes back where it was: a restart or an update
\* takes the port of the server it replaces, unless another program took it.
THEOREM DashboardPortKept == Spec => []PortKept
<1>1. IndInv => PortKept
  BY DEF IndInv
<1> QED BY <1>1, DashboardInductive, PTL

\* `open` of an updated plugin never shows the page of an older server.
THEOREM DashboardNoStalePage == Spec => []NoStalePage
<1>1. IndInv => NoStalePage
  BY DEF IndInv
<1> QED BY <1>1, DashboardInductive, PTL

\* A server starts with a fresh clock, and while a tab refreshes itself from it the
\* clock is wound back before it shows two refreshes.
Fresh ==
  \A p \in Pid : /\ process[p].at = "starting" => process[p].quiet = 0
                 /\ process[p].at = "serving" /\ process[p].port \in tabs => process[p].quiet <= 1

\* Every step keeps the clocks of polled servers fresh.
LEMMA FreshInductive ==
  ASSUME TypeOK, Fresh, [Next]_vars
  PROVE  Fresh'
<1>1. ASSUME tabs' \subseteq tabs,
             \A p \in Pid : \/ process'[p] = process[p] \/ process'[p].at \in {"gone", "other", "dying"}
                            \/ process'[p].at \in {"starting", "serving"} /\ process'[p].quiet = 0
      PROVE  Fresh'
  BY <1>1 DEF Fresh
<1>2. ASSUME NEW p \in Pid, Bind(p) PROVE Fresh'
  <2>1. process[p].at = "starting" /\ process[p] \in ServerRecord /\ process[p].quiet = 0
    BY <1>2, ProcessFields DEF Bind, Server, Fresh
  <2> QED BY <1>1, <1>2, <2>1 DEF Bind, Become, Gone, TypeOK, ServerRecord, browser
<1>3. ASSUME NEW p \in Pid, Expire(p) \/ Die(p) \/ PidReused(p) PROVE Fresh'
  BY <1>1, <1>3 DEF Expire, Die, PidReused, Become, Gone, Other, TypeOK, browser
<1>4. ASSUME NEW u \in Terminal, Command(u) PROVE Fresh'
  BY <1>1, <1>4 DEF Command, Reattach, Replace, OpenAfresh, Restart, Stop, Begin
<1>5. ASSUME NEW u \in Terminal, Step(u) PROVE Fresh'
  <2>1. CASE Kill(u)
    <3>1. /\ cmd[u].pid \in Pid /\ tabs' = tabs
          /\ process' = [process EXCEPT ![cmd[u].pid] = Signalled(cmd[u].pid)]
      BY <2>1, CmdFields DEF Kill, Become, browser, At
    <3>2. Signalled(cmd[u].pid).at \in {"gone", "dying"}
      BY <3>1, ProcessFields DEF Signalled, Gone, Server, ServerRecord
    <3> QED BY <1>1, <3>1, <3>2 DEF TypeOK
  <2>2. ASSUME NEW p \in Pid, Spawn(u, p) PROVE Fresh'
    BY <1>1, <2>2 DEF Spawn, Become, TypeOK, browser
  <2>3. CASE UNCHANGED <<process, tabs>>
    BY <1>1, <2>3
  <2> QED BY <1>5, <2>1, <2>2, <2>3 DEF Step, Released, WaitTimesOut, Answered, AwaitTimesOut, Record, Unlink, browser
<1>6. ASSUME NEW port \in Port, Requested(port), tabs' \subseteq tabs \cup {port} PROVE Fresh'
  <2>1. ASSUME NEW p \in Pid
        PROVE  /\ process'[p].at = "starting" => process'[p].quiet = 0
               /\ process'[p].at = "serving" /\ process'[p].port \in tabs' => process'[p].quiet <= 1
    <3>1. CASE process[p].at = "serving" /\ process[p].port = port
      <4>1. process[p] \in ServerRecord /\ process'[p] = [process[p] EXCEPT !.quiet = 0]
        BY <1>6, <3>1, ProcessFields DEF Requested, Server
      <4>2. process'[p].quiet = 0
        BY <4>1 DEF ServerRecord
      <4> QED BY <4>2
    <3>2. CASE ~(process[p].at = "serving" /\ process[p].port = port)
      <4>1. process'[p] = process[p]
        BY <1>6, <3>2 DEF Requested
      <4> QED BY <1>6, <3>2, <4>1 DEF Fresh
    <3> QED BY <3>1, <3>2
  <2> QED BY <2>1 DEF Fresh
<1>7. ASSUME NEW visit \in visiting, Load(visit) PROVE Fresh'
  BY <1>6, <1>7 DEF Load, TypeOK
<1>8. ASSUME NEW port \in Port, Poll(port) PROVE Fresh'
  BY <1>6, <1>8 DEF Poll, browser
<1>9. ASSUME NEW port \in Port, CloseTab(port) \/ StrangerListens(port) \/ StrangerLeaves(port) PROVE Fresh'
  BY <1>1, <1>9 DEF CloseTab, StrangerListens, StrangerLeaves, browser
<1>10. CASE Tick
  <2>1. ASSUME NEW p \in Pid
        PROVE  /\ process'[p].at = "starting" => process'[p].quiet = 0
               /\ process'[p].at = "serving" /\ process'[p].port \in tabs' => process'[p].quiet <= 1
    <3>1. CASE process[p].at = "serving" /\ process[p].quiet < IdleTicks
      <4>1. process[p] \in ServerRecord /\ process'[p] = [process[p] EXCEPT !.quiet = @ + 1]
        BY <1>10, <3>1, ProcessFields DEF Tick, Server
      <4>2. process'[p].at = "serving" /\ process'[p].port = process[p].port /\ process'[p].quiet = process[p].quiet + 1
        BY <3>1, <4>1 DEF ServerRecord
      <4>3. process[p].port \in tabs => process[p].quiet = 0
        BY <1>10, <3>1 DEF Tick
      <4> QED BY <1>10, <4>2, <4>3 DEF Tick, browser
    <3>2. CASE ~(process[p].at = "serving" /\ process[p].quiet < IdleTicks)
      <4>1. process'[p] = process[p] /\ tabs' = tabs
        BY <1>10, <3>2 DEF Tick, browser
      <4> QED BY <4>1 DEF Fresh
    <3> QED BY <3>1, <3>2
  <2> QED BY <2>1 DEF Fresh
<1>11. CASE Update \/ UNCHANGED vars
  BY <1>1, <1>11 DEF Update, vars, browser
<1> QED BY <1>2, <1>3, <1>4, <1>5, <1>7, <1>8, <1>9, <1>10, <1>11 DEF Next

\* The watchdog never ends a server that an open, refreshing tab polls.
THEOREM DashboardNeverUnderATab == Spec => NeverUnderATab
<1>1. Init => Fresh
  BY DEF Init, Fresh, Opened, Gone
<1>2. TypeOK /\ Fresh /\ [Next]_vars => Fresh'
  BY FreshInductive
<1>3. TypeOK /\ Fresh /\ [Next]_vars =>
        [\A p \in Pid : process[p].at = "serving" /\ process[p].port \in tabs =>
                           process'[p].at \in {"serving", "dying"}]_vars
  <2> SUFFICES ASSUME TypeOK, Fresh, Next, NEW p \in Pid, process[p].at = "serving", process[p].port \in tabs
               PROVE  process'[p].at \in {"serving", "dying"}
    OBVIOUS
  <2>1. process[p].quiet <= 1 /\ process[p] \in ServerRecord
    BY ProcessFields DEF Fresh, Server
  <2>2. ASSUME NEW q \in Pid, Bind(q) \/ Expire(q) \/ Die(q) \/ PidReused(q) PROVE process'[p].at \in {"serving", "dying"}
    <3>1. q # p
      BY <2>1, <2>2 DEF Bind, Expire, Die, PidReused, IdleTicks, Gone
    <3> QED BY <2>2, <3>1 DEF Bind, Expire, Die, PidReused, Become, TypeOK
  <2>3. ASSUME NEW u \in Terminal, Command(u) PROVE process'[p].at \in {"serving", "dying"}
    BY <2>3 DEF Command, Reattach, Replace, OpenAfresh, Restart, Stop, Begin
  <2>4. ASSUME NEW u \in Terminal, Step(u) PROVE process'[p].at \in {"serving", "dying"}
    <3>1. CASE Kill(u)
      <4>1. process' = [process EXCEPT ![cmd[u].pid] = Signalled(cmd[u].pid)]
        BY <3>1 DEF Kill, Become
      <4> QED BY <2>1, <4>1 DEF Signalled, ServerRecord, TypeOK
    <3>2. ASSUME NEW q \in Pid, Spawn(u, q) PROVE process'[p].at \in {"serving", "dying"}
      BY <3>2 DEF Spawn, Become, TypeOK, Gone
    <3>3. CASE process' = process
      BY <3>3
    <3> QED BY <2>4, <3>1, <3>2, <3>3 DEF Step, Released, WaitTimesOut, Answered, AwaitTimesOut, Record, Unlink
  <2>5. ASSUME NEW port \in Port, Requested(port) PROVE process'[p].at \in {"serving", "dying"}
    BY <2>1, <2>5 DEF Requested, ServerRecord
  <2>6. CASE Tick
    BY <2>1, <2>6 DEF Tick, ServerRecord
  <2>7. ASSUME NEW visit \in visiting, Load(visit) PROVE process'[p].at \in {"serving", "dying"}
    BY <2>5, <2>7 DEF Load, TypeOK
  <2>8. CASE process' = process
    BY <2>8
  <2> QED BY <2>2, <2>3, <2>4, <2>5, <2>6, <2>7, <2>8 DEF Next, Poll, CloseTab, StrangerListens, StrangerLeaves, Update
<1>4. IndInv => TypeOK
  BY DEF IndInv
<1> QED BY <1>1, <1>2, <1>3, <1>4, DashboardInductive, PTL DEF Spec, NeverUnderATab
=============================================================================
