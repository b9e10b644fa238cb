----------------------------- MODULE AppRuntime -----------------------------
(***************************************************************************)
(* The calls of the window and the tray that start, stop and reconfigure   *)
(* the proxy and its tunnel (app.go), each in a goroutine of its own, with *)
(* the goroutines they leave behind.  A call is the list of the steps it   *)
(* has still to take; a step is one section under a mutex or one call that *)
(* may block.  Nothing locks a whole call.                                 *)
(***************************************************************************)
EXTENDS ProxyServer, Tunnel, Sequences

CONSTANTS
  Callers,      \* the goroutines that call
  MaxCalls,     \* bound: the calls made in all
  DefaultPort,
  KillFails     \* whether the operating system may refuse to kill a process

ASSUME CallsAssumption ==
  /\ DefaultPort \in Ports
  /\ MaxCalls \in Nat
  /\ KillFails \in BOOLEAN

VARIABLES
  port, enabled,    \* the settings: the proxy's port, the tunnel wanted
  todo,             \* the steps a call has still to take
  dest,             \* the port a call has read or was given
  was,              \* UpdateProxySettings: the proxy ran when it was called
  gotServer,        \* the server Stop has taken
  gotProc,          \* the process Stop has read or Start has started
  calls             \* the calls made so far

locals == <<dest, was, gotServer, gotProc>>
vars == <<proxy, tunnel, port, enabled, todo, locals, calls>>

-----------------------------------------------------------------------------
(* The calls.                                                               *)

StopTunnel == <<"seize", "kill", "clear">>
StopServer == <<"detach", "shutdown">>
StartTunnel == <<"look", "spawn", "register", "watch">>
StartIfEnabled == <<"ask", "enabled?", "port">> \o StartTunnel
StartProxy == <<"port", "listen">> \o StartIfEnabled

(* Fault: the tunnel is left running.                                       *)
StopProxyOnly == StopServer
StopProxy == StopTunnel \o StopServer
TunnelOn == <<"ask", "port">> \o StartTunnel \o <<"enable">>
TunnelOff == StopTunnel \o <<"disable">>
Shutdown == StopServer \o StopTunnel
Update == <<"running?", "restart?">>

UpdateRest(ran, restart) ==
  (IF ran /\ restart THEN StopTunnel ELSE <<>>)
    \o (IF ran THEN StopServer ELSE <<>>)
    \o <<"save">>
    \o (IF ran THEN <<"port", "listen">> ELSE <<>>)
    \o (IF ran /\ restart THEN StartIfEnabled ELSE <<>>)

(* Fault: a port that is not positive is stored as it is.                   *)
StoredPortAsGiven(p) == p
StoredPort(p) == IF p > 0 THEN p ELSE DefaultPort

-----------------------------------------------------------------------------
At(c, step) == todo[c] # <<>> /\ Head(todo[c]) = step
Skip(c, n) == todo' = [todo EXCEPT ![c] = SubSeq(@, n + 1, Len(@))]
Return(c) == todo' = [todo EXCEPT ![c] = <<>>]

Begin(c) ==         \* nobody calls once the application closes
  /\ todo[c] = <<>> /\ calls < MaxCalls
  /\ \E call \in {StartProxy, StopProxy, TunnelOn, TunnelOff, Shutdown, Update} :
       /\ todo' = [todo EXCEPT ![c] = call]
       /\ calls' = IF call = Shutdown THEN MaxCalls ELSE calls + 1
  /\ \E p \in Ports \cup {0} : dest' = [dest EXCEPT ![c] = p]
  /\ UNCHANGED <<proxy, tunnel, port, enabled, was, gotServer, gotProc>>

ReadPort(c) ==
  /\ At(c, "port") /\ Skip(c, 1)
  /\ dest' = [dest EXCEPT ![c] = port]
  /\ UNCHANGED <<proxy, tunnel, port, enabled, was, gotServer, gotProc, calls>>

Listen(c) ==
  /\ At(c, "listen") /\ Skip(c, 1)
  /\ StartServer(dest[c], {gotServer[d] : d \in Callers})
  /\ UNCHANGED <<tunnel, port, enabled, locals, calls>>

Detach(c) ==
  /\ At(c, "detach") /\ Skip(c, 1)
  /\ gotServer' = [gotServer EXCEPT ![c] = server]
  /\ DetachServer
  /\ UNCHANGED <<tunnel, port, enabled, dest, was, gotProc, calls>>

(* Requests that outlast the timeout make Shutdown fail, of which only      *)
(* UpdateProxySettings takes notice.                                        *)
ShutDown(c) ==
  /\ At(c, "shutdown")
  /\ ShutdownServer(gotServer[c])
  /\ gotServer' = [gotServer EXCEPT ![c] = NoServer]
  /\ \/ Skip(c, 1)
     \/ Len(todo[c]) > 1 /\ todo[c][2] = "save" /\ Return(c)
  /\ UNCHANGED <<tunnel, port, enabled, dest, was, gotProc, calls>>

-----------------------------------------------------------------------------
AskRunning(c) ==
  /\ At(c, "ask")
  /\ IF running THEN Skip(c, 1) ELSE Return(c)
  /\ UNCHANGED <<proxy, tunnel, port, enabled, locals, calls>>

AskEnabled(c) ==
  /\ At(c, "enabled?")
  /\ IF enabled THEN Skip(c, 1) ELSE Return(c)
  /\ UNCHANGED <<proxy, tunnel, port, enabled, locals, calls>>

Look(c) ==          \* a tunnel that runs is left alone
  /\ At(c, "look")
  /\ Skip(c, IF process # NoProc THEN 4 ELSE 1)
  /\ UNCHANGED <<proxy, tunnel, port, enabled, locals, calls>>

Spawn(c) ==
  /\ At(c, "spawn")
  /\ \/ /\ \E q \in Procs \ {gotProc[d] : d \in Callers} :
             /\ SpawnTunnel(q, dest[c])
             /\ gotProc' = [gotProc EXCEPT ![c] = q]
        /\ Skip(c, 1)
     \/ Return(c) /\ UNCHANGED <<tunnel, gotProc>>
  /\ UNCHANGED <<proxy, port, enabled, dest, was, gotServer, calls>>

Register(c) ==
  /\ At(c, "register") /\ Skip(c, 1)
  /\ RegisterTunnel(gotProc[c])
  /\ UNCHANGED <<proxy, port, enabled, locals, calls>>

Watch(c) ==
  /\ At(c, "watch") /\ Skip(c, 1)
  /\ WatchTunnel(gotProc[c])
  /\ gotProc' = [gotProc EXCEPT ![c] = NoProc]
  /\ UNCHANGED <<proxy, port, enabled, dest, was, gotServer, calls>>

Seize(c) ==
  /\ At(c, "seize")
  /\ gotProc' = [gotProc EXCEPT ![c] = process]
  /\ Skip(c, IF process = NoProc THEN 2 ELSE 1)
  /\ UNCHANGED <<proxy, tunnel, port, enabled, dest, was, gotServer, calls>>

(* A process that cannot be killed stays registered.  The call goes on, but *)
(* for the one that only stops the tunnel.                                  *)
Kill(c) ==
  /\ At(c, "kill")
  /\ \/ KillTunnel(gotProc[c]) /\ Skip(c, 1)
     \/ /\ KillFails /\ proc[gotProc[c]] = "alive"
        /\ IF todo[c][Len(todo[c])] = "disable" THEN Return(c) ELSE Skip(c, 2)
        /\ UNCHANGED tunnel
  /\ gotProc' = [gotProc EXCEPT ![c] = NoProc]
  /\ UNCHANGED <<proxy, port, enabled, dest, was, gotServer, calls>>

Clear(c) ==
  /\ At(c, "clear") /\ Skip(c, 1)
  /\ ClearTunnel
  /\ UNCHANGED <<proxy, port, enabled, locals, calls>>

SetEnabled(c) ==    \* in memory, whether or not the file can be written
  /\ At(c, "enable") \/ At(c, "disable")
  /\ enabled' = At(c, "enable")
  /\ Skip(c, 1)
  /\ UNCHANGED <<proxy, tunnel, port, locals, calls>>

-----------------------------------------------------------------------------
(* UpdateProxySettings.                                                     *)

WasRunning(c) ==
  /\ At(c, "running?") /\ Skip(c, 1)
  /\ was' = [was EXCEPT ![c] = running]
  /\ UNCHANGED <<proxy, tunnel, port, enabled, dest, gotServer, gotProc, calls>>

WasEnabled(c) ==
  /\ At(c, "restart?")
  /\ todo' = [todo EXCEPT ![c] = UpdateRest(was[c], enabled)]
  /\ was' = [was EXCEPT ![c] = FALSE]
  /\ UNCHANGED <<proxy, tunnel, port, enabled, dest, gotServer, gotProc, calls>>

(* The port is stored, unless only the address is changed.  When the file   *)
(* cannot be written, or another of the settings is rejected, the call      *)
(* returns as things are.                                                   *)
SavePort(c) ==
  /\ At(c, "save")
  /\ port' \in {StoredPort(dest[c]), port}
  /\ Skip(c, 1) \/ Return(c)
  /\ UNCHANGED <<proxy, tunnel, enabled, locals, calls>>

-----------------------------------------------------------------------------
Step(c) ==
  \/ ReadPort(c) \/ Listen(c) \/ Detach(c) \/ ShutDown(c)
  \/ AskRunning(c) \/ AskEnabled(c) \/ Look(c) \/ Spawn(c) \/ Register(c) \/ Watch(c)
  \/ Seize(c) \/ Kill(c) \/ Clear(c) \/ SetEnabled(c)
  \/ WasRunning(c) \/ WasEnabled(c) \/ SavePort(c)

Rest == UNCHANGED <<port, enabled, todo, locals, calls>>

Init ==
  /\ ServerInit /\ TunnelInit
  /\ port \in Ports /\ enabled \in BOOLEAN
  /\ todo = [c \in Callers |-> <<>>]
  /\ dest = [c \in Callers |-> 0]
  /\ was = [c \in Callers |-> FALSE]
  /\ gotServer = [c \in Callers |-> NoServer]
  /\ gotProc = [c \in Callers |-> NoProc]
  /\ calls = 0

Next ==
  \/ \E c \in Callers : Begin(c) \/ Step(c)
  \/ (\E s \in Servers : ServerStep(s)) /\ UNCHANGED tunnel /\ Rest
  \/ (\E q \in Procs : TunnelStep(q)) /\ UNCHANGED proxy /\ Rest

Spec == Init /\ [][Next]_vars

(* The scheduler runs the goroutines of the servers.  Nothing is assumed of *)
(* the owner or of the processes.                                           *)
Fairness ==
  \A s \in Servers : WF_vars(ServerStep(s) /\ UNCHANGED tunnel /\ Rest)

FairSpec == Spec /\ Fairness

-----------------------------------------------------------------------------
TypeOK ==
  /\ ServerTypeOK /\ TunnelTypeOK
  /\ port \in Ports /\ enabled \in BOOLEAN
  /\ \A c \in Callers :
       /\ dest[c] \in Ports \cup {0} /\ was[c] \in BOOLEAN
       /\ gotServer[c] \in Servers \cup {NoServer}
       /\ gotProc[c] \in Procs \cup {NoProc}

(* No tunnel process runs that the manager has lost sight of, so that no    *)
(* stop could reach it.                                                     *)
NoOrphanTunnel ==
  \A q \in Procs :
    proc[q] = "alive" => process = q \/ \E c \in Callers : gotProc[c] = q

(* The manager never holds a process nobody waits for or is about to wait   *)
(* for, which would keep Start from starting another one for ever, and      *)
(* never reports a tunnel that runs without holding its process.            *)
TunnelIsWatched ==
  /\ process # NoProc =>
       process \in watched \/ \E c \in Callers : At(c, "watch") /\ gotProc[c] = process
  /\ up => process # NoProc
=============================================================================
