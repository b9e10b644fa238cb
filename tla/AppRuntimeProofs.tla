-------------------------- MODULE AppRuntimeProofs --------------------------
(***************************************************************************)
(* What holds of the calls that start and stop the proxy and its tunnel,   *)
(* for any number of callers, servers, processes and ports.                *)
(***************************************************************************)
EXTENDS AppRuntime, TLAPS

Names == {"seize", "kill", "clear", "detach", "shutdown", "look", "spawn", "register",
          "watch", "ask", "enabled?", "port", "listen", "enable", "disable", "running?", "restart?",
          "save"}

(* What a list of steps says of its step number i, if step j before it is   *)
(* to be looked at.                                                         *)
Orderly(s, i) ==
  /\ s[i] = "look" => /\ i + 3 <= Len(s) /\ s[i + 1] = "spawn" /\ s[i + 2] = "register"
                      /\ s[i + 3] = "watch"
  /\ s[i] = "seize" => i + 2 <= Len(s) /\ s[i + 1] = "kill" /\ s[i + 2] = "clear"
  /\ s[i] = "spawn" => i + 1 <= Len(s) /\ s[i + 1] = "register"
  /\ s[i] = "register" => i + 1 <= Len(s) /\ s[i + 1] = "watch"
  /\ s[i] = "kill" => i + 1 <= Len(s) /\ s[i + 1] = "clear"
Follows(s, i) ==
  /\ s[i] = "watch" => s[i - 1] = "register"
  /\ s[i] = "register" => s[i - 1] = "spawn"
  /\ s[i] = "spawn" => s[i - 1] = "look"
  /\ s[i] = "clear" => s[i - 1] = "kill"
  /\ s[i] = "kill" => s[i - 1] = "seize"

(* The steps that only come after another one.                              *)
Later == {"watch", "register", "spawn", "clear", "kill"}

(* What is left of a call, and a call nothing of which is done.             *)
Left(s) ==
  /\ s \in Seq(Names)
  /\ \A i \in 1..Len(s) : Orderly(s, i)
  /\ \A i \in 2..Len(s) : Follows(s, i)
Whole(s) == Left(s) /\ (s # <<>> => s[1] \notin Later)

LEMMA Skipped ==
  ASSUME NEW S, NEW s \in Seq(S), NEW n \in 0..Len(s)
  PROVE  /\ SubSeq(s, n + 1, Len(s)) \in Seq(S)
         /\ Len(SubSeq(s, n + 1, Len(s))) = Len(s) - n
         /\ \A i \in 1..(Len(s) - n) : SubSeq(s, n + 1, Len(s))[i] = s[i + n]
OBVIOUS

LEMMA SkipLeaves ==
  ASSUME NEW s, Left(s), NEW n \in 1..Len(s)
  PROVE  Left(SubSeq(s, n + 1, Len(s)))
<1> DEFINE t == SubSeq(s, n + 1, Len(s))
<1>1. s \in Seq(Names) /\ n \in 0..Len(s) /\ Len(s) \in Nat
  BY DEF Left
<1>2. /\ t \in Seq(Names) /\ Len(t) = Len(s) - n
      /\ \A i \in 1..Len(t) : t[i] = s[i + n]
  BY <1>1, Skipped
<1> HIDE DEF t
<1>3. ASSUME NEW i \in 1..Len(t) PROVE Orderly(t, i)
  <2>1. i + n \in 1..Len(s) /\ Orderly(s, i + n)
    BY <1>1, <1>2 DEF Left
  <2> QED
    BY <1>1, <1>2, <2>1 DEF Orderly
<1>4. ASSUME NEW i \in 2..Len(t) PROVE Follows(t, i)
  <2>1. i + n \in 2..Len(s) /\ Follows(s, i + n)
    BY <1>1, <1>2 DEF Left
  <2>2. i \in 1..Len(t) /\ i - 1 \in 1..Len(t) /\ i - 1 + n = i + n - 1
    BY <1>1, <1>2
  <2>3. t[i] = s[i + n] /\ t[i - 1] = s[i + n - 1]
    BY <1>2, <2>2
  <2> QED
    BY <2>1, <2>3 DEF Follows
<1> QED
  BY <1>2, <1>3, <1>4 DEF Left, t

LEMMA EmptyIsWhole == Whole(<<>>)
BY DEF Whole, Left

LEMMA Joined ==
  ASSUME NEW s, NEW t, Whole(s), Whole(t)
  PROVE  Whole(s \o t)
<1> DEFINE u == s \o t
<1>1. /\ s \in Seq(Names) /\ t \in Seq(Names) /\ Len(s) \in Nat /\ Len(t) \in Nat
  BY DEF Whole, Left
<1>2. /\ u \in Seq(Names) /\ Len(u) = Len(s) + Len(t)
      /\ \A i \in 1..Len(s) : u[i] = s[i]
      /\ \A i \in 1..Len(t) : u[i + Len(s)] = t[i]
  BY <1>1
<1> HIDE DEF u
<1>3. ASSUME NEW i \in 1..Len(u) PROVE Orderly(u, i)
  <2>1. CASE i <= Len(s)
    <3>1. Orderly(s, i) /\ u[i] = s[i]
      BY <1>2, <2>1 DEF Whole, Left
    <3> QED
      BY <1>1, <1>2, <2>1, <3>1 DEF Orderly
  <2>2. CASE i > Len(s)
    <3>1. i - Len(s) \in 1..Len(t) /\ i - Len(s) + Len(s) = i
      BY <1>1, <1>2, <2>2
    <3>2. Orderly(t, i - Len(s)) /\ u[i] = t[i - Len(s)]
      BY <1>2, <3>1 DEF Whole, Left
    <3>3. \A k \in {1, 2, 3} : i + k <= Len(u) => u[i + k] = t[i - Len(s) + k]
      <4>1. \A k \in {1, 2, 3} : i + k <= Len(u)
              => i - Len(s) + k \in 1..Len(t) /\ i - Len(s) + k + Len(s) = i + k
        BY <1>1, <1>2, <3>1
      <4> QED
        BY <1>2, <4>1
    <3> QED
      BY <1>1, <1>2, <3>1, <3>2, <3>3 DEF Orderly
  <2> QED
    BY <1>1, <2>1, <2>2
<1>4. ASSUME NEW i \in 2..Len(u) PROVE Follows(u, i)
  <2>1. CASE i <= Len(s)
    <3>1. Follows(s, i) /\ u[i] = s[i] /\ u[i - 1] = s[i - 1]
      BY <1>1, <1>2, <2>1 DEF Whole, Left
    <3> QED
      BY <3>1 DEF Follows
  <2>2. CASE i = Len(s) + 1
    <3>1. 1 \in 1..Len(t) /\ u[i] = t[1] /\ t[1] \notin Later
      BY <1>1, <1>2, <2>2 DEF Whole
    <3> QED
      BY <3>1 DEF Follows, Later
  <2>3. CASE i > Len(s) + 1
    <3>1. /\ i - Len(s) \in 2..Len(t) /\ i - Len(s) + Len(s) = i
          /\ i - 1 - Len(s) \in 1..Len(t) /\ i - 1 - Len(s) + Len(s) = i - 1
          /\ i - 1 - Len(s) = i - Len(s) - 1
      BY <1>1, <1>2, <2>3
    <3>2. Follows(t, i - Len(s)) /\ u[i] = t[i - Len(s)] /\ u[i - 1] = t[i - Len(s) - 1]
      BY <1>1, <1>2, <3>1 DEF Whole, Left
    <3> QED
      BY <3>2 DEF Follows
  <2> QED
    BY <1>1, <2>1, <2>2, <2>3
<1>5. u # <<>> => u[1] \notin Later
  <2>1. CASE s # <<>>
    BY <1>1, <1>2, <2>1 DEF Whole
  <2>2. CASE s = <<>>
    BY <1>1, <1>2, <2>2 DEF Whole, u
  <2> QED
    BY <2>1, <2>2
<1> QED
  BY <1>2, <1>3, <1>4, <1>5 DEF Whole, Left, u

LEMMA CallsAreWhole ==
  /\ \A call \in {StartProxy, StopProxy, TunnelOn, TunnelOff, Shutdown, Update} : Whole(call)
  /\ \A ran, restart \in BOOLEAN : Whole(UpdateRest(ran, restart))
<1>1. Whole(StopTunnel)
  BY DEF StopTunnel, Whole, Left, Orderly, Follows, Later, Names
<1>2. Whole(StopServer)
  BY DEF StopServer, Whole, Left, Orderly, Follows, Later, Names
<1>3. Whole(StartTunnel)
  BY DEF StartTunnel, Whole, Left, Orderly, Follows, Later, Names
<1>4. /\ Whole(<<"ask", "enabled?", "port">>) /\ Whole(<<"port", "listen">>)
      /\ Whole(<<"ask", "port">>) /\ Whole(<<"enable">>) /\ Whole(<<"disable">>)
      /\ Whole(<<"save">>) /\ Whole(<<"running?", "restart?">>)
  BY DEF Whole, Left, Orderly, Follows, Later, Names
<1>5. Whole(StartIfEnabled)
  BY <1>3, <1>4, Joined DEF StartIfEnabled
<1>6. /\ Whole(StartProxy) /\ Whole(StopProxy) /\ Whole(TunnelOff) /\ Whole(Shutdown)
      /\ Whole(Update)
  BY <1>1, <1>2, <1>4, <1>5, Joined DEF StartProxy, StopProxy, TunnelOff, Shutdown, Update
<1>7. Whole(TunnelOn)
  BY <1>3, <1>4, Joined DEF TunnelOn
<1>8. ASSUME NEW ran \in BOOLEAN, NEW restart \in BOOLEAN PROVE Whole(UpdateRest(ran, restart))
  <2>1. Whole(IF ran /\ restart THEN StopTunnel ELSE <<>>)
    BY <1>1, EmptyIsWhole
  <2>2. Whole(IF ran THEN StopServer ELSE <<>>)
    BY <1>2, EmptyIsWhole
  <2>3. Whole(IF ran THEN <<"port", "listen">> ELSE <<>>)
    BY <1>4, EmptyIsWhole
  <2>4. Whole(IF ran /\ restart THEN StartIfEnabled ELSE <<>>)
    BY <1>5, EmptyIsWhole
  <2> QED
    BY <1>4, <2>1, <2>2, <2>3, <2>4, Joined DEF UpdateRest
<1> QED
  BY <1>6, <1>7, <1>8

-----------------------------------------------------------------------------
(* The invariant.                                                           *)

(* A call has a process in hand just when it is about to register, to wait  *)
(* for or to kill it, so that the manager holds a process when it says the  *)
(* tunnel runs.                                                             *)
Locals ==
  /\ todo \in [Callers -> Seq(Names)]
  /\ dest \in [Callers -> Ports \cup {0}] /\ was \in [Callers -> BOOLEAN]
  /\ gotServer \in [Callers -> Servers \cup {NoServer}]
  /\ gotProc \in [Callers -> Procs \cup {NoProc}]
  /\ calls \in Nat
CallsInOrder ==
  \A c \in Callers :
    /\ Left(todo[c])
    /\ gotProc[c] # NoProc <=> At(c, "register") \/ At(c, "watch") \/ At(c, "kill")
Held ==
  process # NoProc =>
    process \in watched \/ \E c \in Callers : At(c, "watch") /\ gotProc[c] = process

IInv ==
  /\ ServerTypeOK /\ TunnelTypeOK /\ port \in Ports /\ enabled \in BOOLEAN
  /\ Locals /\ CallsInOrder
  /\ (up => process # NoProc) /\ Held

Proxies == ServerTypeOK
Tunnels == TunnelTypeOK /\ (up => process # NoProc)

LEMMA QuietProxy == ASSUME Proxies, UNCHANGED proxy PROVE Proxies'
BY DEF Proxies, ServerTypeOK, proxy

LEMMA QuietTunnel == ASSUME Tunnels, UNCHANGED tunnel PROVE Tunnels'
BY DEF Tunnels, TunnelTypeOK, tunnel

LEMMA ServerStepKeeps ==
  ASSUME Proxies, NEW s \in Servers, ServerStep(s)
  PROVE  Proxies'
<1>1. CASE Opens(s) \/ DoesNotOpen(s) \/ Serves(s)
  <2>1. PICK label \in {"held", "ended", "open"} : Goto(s, label)
    BY <1>1 DEF Opens, DoesNotOpen, Serves
  <2> QED
    BY <2>1 DEF Goto, Proxies, ServerTypeOK, Lives
<1>2. CASE Forgets(s)
  BY <1>2 DEF Forgets, Proxies, ServerTypeOK, Lives
<1> QED
  BY <1>1, <1>2 DEF ServerStep

LEMMA StartKeeps ==
  ASSUME Proxies, NEW p \in Ports \cup {0}, NEW inHand, StartServer(p, inHand)
  PROVE  Proxies'
<1>1. CASE UNCHANGED proxy
  BY <1>1, QuietProxy
<1>2. CASE ~running /\ \E s \in Servers \ inHand :
             /\ server' = s /\ running' = TRUE
             /\ life' = [life EXCEPT ![s] = "opening"] /\ at' = [at EXCEPT ![s] = p]
             /\ UNCHANGED shut
  <2>1. PICK s \in Servers : /\ server' = s /\ running' = TRUE /\ UNCHANGED shut
                             /\ life' = [life EXCEPT ![s] = "opening"]
                             /\ at' = [at EXCEPT ![s] = p]
    BY <1>2
  <2>2. life' \in [Servers -> Lives] /\ at' \in [Servers -> Ports \cup {0}] /\ life'[s] = "opening"
    BY <2>1 DEF Proxies, ServerTypeOK, Lives
  <2> QED
    BY <2>1, <2>2 DEF Proxies, ServerTypeOK
<1> QED
  BY <1>1, <1>2 DEF StartServer

LEMMA StopKeeps ==
  ASSUME Proxies, DetachServer \/ \E s : ShutdownServer(s)
  PROVE  Proxies'
<1>1. CASE DetachServer
  BY <1>1 DEF DetachServer, Proxies, ServerTypeOK
<1>2. ASSUME NEW s, ShutdownServer(s) PROVE Proxies'
  <2>1. CASE s \in Servers /\ life[s] # "free"
    BY <1>2, <2>1 DEF ShutdownServer, Proxies, ServerTypeOK, Lives
  <2>2. CASE ~(s \in Servers /\ life[s] # "free")
    BY <1>2, <2>2 DEF ShutdownServer, Proxies, ServerTypeOK
  <2> QED
    BY <2>1, <2>2
<1> QED
  BY <1>1, <1>2

LEMMA TunnelStepKeeps ==
  ASSUME Tunnels, NEW q \in Procs, TunnelStep(q)
  PROVE  Tunnels'
<1>1. CASE Dies(q)
  BY <1>1 DEF Dies, Tunnels, TunnelTypeOK, Fates
<1>2. CASE Notices(q)
  BY <1>2 DEF Notices, Tunnels, TunnelTypeOK, Fates
<1> QED
  BY <1>1, <1>2 DEF TunnelStep

LEMMA TunnelCallsKeep ==
  ASSUME Tunnels
  PROVE  /\ \A q \in Procs, p \in Ports \cup {0} : SpawnTunnel(q, p) => Tunnels'
         /\ \A q \in Procs : RegisterTunnel(q) \/ WatchTunnel(q) => Tunnels'
         /\ \A q \in Procs \cup {NoProc} : KillTunnel(q) => Tunnels'
         /\ ClearTunnel => Tunnels'
<1>1. ASSUME NEW q \in Procs, NEW p \in Ports \cup {0}, SpawnTunnel(q, p) PROVE Tunnels'
  <2>1. p \in Nat
    BY ServersAssumption
  <2> QED
    BY <1>1, <2>1 DEF SpawnTunnel, Tunnels, TunnelTypeOK, Fates
<1>2. ASSUME NEW q \in Procs, RegisterTunnel(q) \/ WatchTunnel(q) PROVE Tunnels'
  <2>1. CASE RegisterTunnel(q)
    BY <2>1, ProcsAssumption DEF RegisterTunnel, Tunnels, TunnelTypeOK
  <2>2. CASE WatchTunnel(q)
    BY <2>2 DEF WatchTunnel, Tunnels, TunnelTypeOK
  <2> QED
    BY <1>2, <2>1, <2>2
<1>3. ASSUME NEW q \in Procs \cup {NoProc}, KillTunnel(q) PROVE Tunnels'
  BY <1>3 DEF KillTunnel, Tunnels, TunnelTypeOK, Fates
<1>4. ASSUME ClearTunnel PROVE Tunnels'
  BY <1>4 DEF ClearTunnel, Tunnels, TunnelTypeOK
<1> QED
  BY <1>1, <1>2, <1>3, <1>4

-----------------------------------------------------------------------------
(* The lists of steps.                                                      *)

LEMMA TodoIs ==
  ASSUME Locals, CallsInOrder, NEW c \in Callers, NEW name, At(c, name)
  PROVE  /\ Left(todo[c]) /\ todo[c] \in Seq(Names) /\ Len(todo[c]) \in Nat \ {0}
         /\ todo[c][1] = name /\ Orderly(todo[c], 1)
         /\ \A i \in 2..Len(todo[c]) : Follows(todo[c], i)
         /\ name = "look" => Len(todo[c]) >= 4
         /\ name \in {"seize"} => Len(todo[c]) >= 3
         /\ name = "kill" => Len(todo[c]) >= 2
<1>1. Left(todo[c]) /\ todo[c] \in Seq(Names)
  BY DEF Locals, CallsInOrder
<1>2. Len(todo[c]) \in Nat \ {0} /\ todo[c][1] = name
  BY <1>1 DEF At
<1>3. Orderly(todo[c], 1) /\ \A i \in 2..Len(todo[c]) : Follows(todo[c], i)
  BY <1>1, <1>2 DEF Left
<1> QED
  BY <1>1, <1>2, <1>3 DEF Orderly

(* Where a call is after it has skipped n steps.                            *)
LEMMA SkipIs ==
  ASSUME Locals, CallsInOrder, NEW c \in Callers, NEW name, At(c, name),
         NEW n \in 1..Len(todo[c]), Skip(c, n)
  PROVE  /\ todo' \in [Callers -> Seq(Names)] /\ Left(todo'[c])
         /\ \A d \in Callers : d # c => todo'[d] = todo[d]
         /\ \A later : At(c, later)' <=> (n < Len(todo[c]) /\ todo[c][n + 1] = later)
<1> DEFINE t == SubSeq(todo[c], n + 1, Len(todo[c]))
<1>1. Left(todo[c]) /\ todo[c] \in Seq(Names) /\ Len(todo[c]) \in Nat \ {0} /\ n \in 0..Len(todo[c])
  BY TodoIs
<1>2. /\ t \in Seq(Names) /\ Len(t) = Len(todo[c]) - n /\ Left(t)
      /\ \A i \in 1..Len(t) : t[i] = todo[c][i + n]
  BY <1>1, Skipped, SkipLeaves
<1>3. todo' = [todo EXCEPT ![c] = t]
  BY DEF Skip
<1> HIDE DEF t
<1>4. todo' \in [Callers -> Seq(Names)] /\ todo'[c] = t /\ \A d \in Callers : d # c => todo'[d] = todo[d]
  BY <1>2, <1>3 DEF Locals
<1>5. ASSUME NEW later PROVE At(c, later)' <=> (n < Len(todo[c]) /\ todo[c][n + 1] = later)
  <2>1. At(c, later)' <=> (t # <<>> /\ Head(t) = later)
    BY <1>4 DEF At
  <2>2. t # <<>> => 1 \in 1..Len(t) /\ Head(t) = t[1] /\ t[1] = todo[c][n + 1]
    BY <1>1, <1>2
  <2>3. t # <<>> <=> n < Len(todo[c])
    BY <1>1, <1>2
  <2> QED
    BY <2>1, <2>2, <2>3
<1> QED
  BY <1>2, <1>4, <1>5

(* Where the next step comes only after another one, it was that one.       *)
LEMMA SkipReaches ==
  ASSUME Locals, CallsInOrder, NEW c \in Callers, NEW name, At(c, name),
         NEW n \in 1..Len(todo[c]), Skip(c, n),
         n = 1 \/ (n = 2 /\ name \in {"seize", "kill"}) \/ (n = 4 /\ name = "look")
  PROVE  /\ At(c, "watch")' => n = 1 /\ name = "register"
         /\ At(c, "register")' => n = 1 /\ name = "spawn"
         /\ At(c, "spawn")' => n = 1 /\ name = "look"
         /\ At(c, "clear")' => (n = 1 /\ name = "kill") \/ (n = 2 /\ name = "seize")
         /\ At(c, "kill")' => n = 1 /\ name = "seize"
<1> DEFINE s == todo[c]
<1>1. s[1] = name /\ Len(s) \in Nat /\ Orderly(s, 1)
      /\ \A i \in 2..Len(s) : Follows(s, i)
  BY TodoIs
<1>2. ASSUME NEW later, At(c, later)'
      PROVE  n + 1 \in 2..Len(s) /\ s[n + 1] = later /\ Follows(s, n + 1)
  <2>1. n < Len(s) /\ s[n + 1] = later
    BY <1>2, SkipIs
  <2> QED
    BY <1>1, <2>1
<1>3. n + 1 - 1 = n
  OBVIOUS
<1> QED
  BY <1>1, <1>2, <1>3 DEF Orderly, Follows

LEMMA ReturnIs ==
  ASSUME Locals, NEW c \in Callers, Return(c)
  PROVE  /\ todo' \in [Callers -> Seq(Names)] /\ Left(todo'[c])
         /\ \A d \in Callers : d # c => todo'[d] = todo[d]
         /\ \A later : ~At(c, later)'
<1>1. todo' = [todo EXCEPT ![c] = <<>>]
  BY DEF Return
<1>2. Left(<<>>)
  BY EmptyIsWhole DEF Whole
<1> QED
  BY <1>1, <1>2 DEF Locals, At

(* A step of one call leaves the lists of the others alone.                 *)
LEMMA OrderKept ==
  ASSUME CallsInOrder, NEW c \in Callers,
         Left(todo'[c]), \A d \in Callers : d # c => todo'[d] = todo[d],
         \A d \in Callers : d # c => gotProc'[d] = gotProc[d],
         gotProc'[c] # NoProc <=> At(c, "register")' \/ At(c, "watch")' \/ At(c, "kill")'
  PROVE  CallsInOrder'
<1>1. ASSUME NEW d \in Callers, d # c
      PROVE  /\ Left(todo'[d])
             /\ gotProc'[d] # NoProc <=> At(d, "register")' \/ At(d, "watch")' \/ At(d, "kill")'
  BY <1>1 DEF CallsInOrder, At
<1> QED
  BY <1>1 DEF CallsInOrder

Calls == Locals /\ CallsInOrder

(* The steps that have no process in hand before or after.                  *)
Plain == Names \ {"look", "spawn", "register", "watch", "seize", "kill", "clear"}

LEMMA PlainSkip ==
  ASSUME Calls, NEW c \in Callers, NEW name \in Plain, At(c, name), Skip(c, 1),
         UNCHANGED gotProc
  PROVE  /\ todo' \in [Callers -> Seq(Names)] /\ CallsInOrder'
         /\ \A d \in Callers : d # c => todo'[d] = todo[d]
         /\ \A later \in Later : ~At(c, later)'
<1>1. 1 \in 1..Len(todo[c])
  BY TodoIs DEF Calls
<1>2. /\ todo' \in [Callers -> Seq(Names)] /\ Left(todo'[c])
      /\ \A d \in Callers : d # c => todo'[d] = todo[d]
  BY <1>1, SkipIs DEF Calls
<1>3. \A later \in Later : ~At(c, later)'
  BY <1>1, SkipReaches DEF Calls, Plain, Names, Later
<1>4. gotProc[c] = NoProc
  BY DEF Calls, CallsInOrder, Plain, At
<1> QED
  BY <1>2, <1>3, <1>4, OrderKept DEF Later, Calls

LEMMA PlainReturn ==
  ASSUME Calls, NEW c \in Callers, ~At(c, "register"), ~At(c, "watch"), ~At(c, "kill"),
         Return(c),
         UNCHANGED gotProc
  PROVE  /\ todo' \in [Callers -> Seq(Names)] /\ CallsInOrder'
         /\ \A d \in Callers : d # c => todo'[d] = todo[d]
         /\ \A later : ~At(c, later)'
<1>1. /\ todo' \in [Callers -> Seq(Names)] /\ Left(todo'[c])
      /\ \A d \in Callers : d # c => todo'[d] = todo[d]
      /\ \A later : ~At(c, later)'
  BY ReturnIs DEF Calls
<1>2. gotProc[c] = NoProc
  BY DEF Calls, CallsInOrder
<1> QED
  BY <1>1, <1>2, OrderKept DEF Calls

-----------------------------------------------------------------------------
(* The steps that leave the tunnel alone.                                   *)

(* The invariant but for the watchers, of whom Held speaks.                 *)
Stays ==
  /\ (Proxies /\ Tunnels /\ port \in Ports /\ enabled \in BOOLEAN)'
  /\ (Locals /\ CallsInOrder)'

Frame(c) ==
  /\ UNCHANGED <<tunnel, gotProc>>
  /\ \A d \in Callers : d # c => todo'[d] = todo[d]
  /\ \A later \in Later : ~At(c, later)'

LEMMA BeginKeeps ==
  ASSUME IInv, NEW c \in Callers, Begin(c)
  PROVE  Stays /\ Frame(c)
<1>1. PICK call \in {StartProxy, StopProxy, TunnelOn, TunnelOff, Shutdown, Update},
           p \in Ports \cup {0} :
        /\ todo' = [todo EXCEPT ![c] = call]
        /\ calls' = IF call = Shutdown THEN MaxCalls ELSE calls + 1
        /\ dest' = [dest EXCEPT ![c] = p]
  BY DEF Begin
<1>2. todo[c] = <<>> /\ UNCHANGED <<proxy, tunnel, port, enabled, was, gotServer, gotProc>>
  BY DEF Begin
<1>3. Whole(call)
  BY <1>1, CallsAreWhole
<1>4. call \in Seq(Names) /\ Left(call)
  BY <1>3 DEF Whole, Left
<1> DEFINE s == call
<1>5. todo' \in [Callers -> Seq(Names)] /\ todo'[c] = s
      /\ \A d \in Callers : d # c => todo'[d] = todo[d]
  BY <1>1, <1>4 DEF IInv, Locals
<1>6. \A later \in Later : ~At(c, later)'
  <2>1. s # <<>> => Head(s) = s[1] /\ s[1] \notin Later
    BY <1>3, <1>4 DEF Whole
  <2> QED
    BY <1>5, <2>1 DEF At
<1>7. gotProc[c] = NoProc
  BY <1>2 DEF IInv, CallsInOrder, At
<1>8. CallsInOrder'
  BY <1>2, <1>4, <1>5, <1>6, <1>7, OrderKept DEF IInv, Later
<1>9. Locals'
  BY <1>1, <1>2, <1>5, CallsAssumption DEF IInv, Locals
<1> QED
  BY <1>2, <1>5, <1>6, <1>8, <1>9, QuietProxy, QuietTunnel
  DEF IInv, Proxies, Tunnels, Stays, Frame

LEMMA ProxyStepsKeep ==
  ASSUME IInv, NEW c \in Callers,
         ReadPort(c) \/ Listen(c) \/ Detach(c) \/ ShutDown(c)
  PROVE  Stays /\ Frame(c)
<1> USE DEF Frame
<1>0. Calls /\ Proxies /\ Tunnels
  BY DEF IInv, Calls, Proxies, Tunnels
<1>1. CASE ReadPort(c)
  <2>1. /\ todo' \in [Callers -> Seq(Names)] /\ CallsInOrder'
        /\ \A d \in Callers : d # c => todo'[d] = todo[d]
        /\ \A later \in Later : ~At(c, later)'
    BY <1>0, <1>1, PlainSkip DEF ReadPort, Plain, Names
  <2>2. Locals'
    BY <1>1, <2>1 DEF IInv, Locals, ReadPort
  <2> QED
    BY <1>0, <1>1, <2>1, <2>2, QuietProxy, QuietTunnel
    DEF ReadPort, IInv, Proxies, Tunnels, Stays
<1>2. CASE Listen(c)
  <2>1. /\ todo' \in [Callers -> Seq(Names)] /\ CallsInOrder'
        /\ \A d \in Callers : d # c => todo'[d] = todo[d]
        /\ \A later \in Later : ~At(c, later)'
    BY <1>0, <1>2, PlainSkip DEF Listen, Plain, Names, locals
  <2>2. Locals'
    BY <1>2, <2>1 DEF IInv, Locals, Listen, locals
  <2>3. dest[c] \in Ports \cup {0}
    BY DEF IInv, Locals
  <2>4. Proxies'
    BY <1>0, <1>2, <2>3, StartKeeps DEF Listen
  <2> QED
    BY <1>0, <1>2, <2>1, <2>2, <2>4, QuietTunnel
    DEF Listen, IInv, Proxies, Tunnels, Stays, locals
<1>3. CASE Detach(c)
  <2>1. /\ todo' \in [Callers -> Seq(Names)] /\ CallsInOrder'
        /\ \A d \in Callers : d # c => todo'[d] = todo[d]
        /\ \A later \in Later : ~At(c, later)'
    BY <1>0, <1>3, PlainSkip DEF Detach, Plain, Names
  <2>2. Locals'
    BY <1>3, <2>1 DEF IInv, Locals, Detach, ServerTypeOK
  <2>3. Proxies'
    BY <1>0, <1>3, StopKeeps DEF Detach
  <2> QED
    BY <1>0, <1>3, <2>1, <2>2, <2>3, QuietTunnel DEF Detach, IInv, Proxies, Tunnels, Stays
<1>4. CASE ShutDown(c)
  <2>1. /\ todo' \in [Callers -> Seq(Names)] /\ CallsInOrder'
        /\ \A d \in Callers : d # c => todo'[d] = todo[d]
        /\ \A later \in Later : ~At(c, later)'
    <3>1. At(c, "shutdown") /\ UNCHANGED gotProc
      BY <1>4 DEF ShutDown
    <3>2. CASE Skip(c, 1)
      BY <1>0, <3>1, <3>2, PlainSkip DEF Plain, Names
    <3>3. CASE Return(c)
      BY <1>0, <3>1, <3>3, PlainReturn DEF At
    <3> QED
      BY <1>4, <3>2, <3>3 DEF ShutDown
  <2>2. Locals'
    BY <1>4, <2>1 DEF IInv, Locals, ShutDown
  <2>3. Proxies'
    BY <1>0, <1>4, StopKeeps DEF ShutDown
  <2> QED
    BY <1>0, <1>4, <2>1, <2>2, <2>3, QuietTunnel DEF ShutDown, IInv, Proxies, Tunnels, Stays
<1> QED
  BY <1>1, <1>2, <1>3, <1>4

LEMMA SettingsStepsKeep ==
  ASSUME IInv, NEW c \in Callers,
         \/ AskRunning(c) \/ AskEnabled(c) \/ SetEnabled(c)
         \/ WasRunning(c) \/ WasEnabled(c) \/ SavePort(c)
  PROVE  Stays /\ Frame(c)
<1> DEFINE Moved == /\ todo' \in [Callers -> Seq(Names)] /\ CallsInOrder'
                    /\ \A d \in Callers : d # c => todo'[d] = todo[d]
                    /\ \A later \in Later : ~At(c, later)'
<1>0. Calls /\ Proxies /\ Tunnels
  BY DEF IInv, Calls, Proxies, Tunnels
<1>1. CASE AskRunning(c) \/ AskEnabled(c)
  <2>1. At(c, "ask") \/ At(c, "enabled?")
    BY <1>1 DEF AskRunning, AskEnabled
  <2>2. UNCHANGED <<proxy, tunnel, port, enabled, locals, calls>>
    BY <1>1 DEF AskRunning, AskEnabled
  <2>3. Moved
    <3>1. CASE Skip(c, 1)
      BY <1>0, <2>1, <2>2, <3>1, PlainSkip DEF Plain, Names, locals
    <3>2. CASE Return(c)
      BY <1>0, <2>1, <2>2, <3>2, PlainReturn DEF At, locals
    <3> QED
      BY <1>1, <3>1, <3>2 DEF AskRunning, AskEnabled
  <2>4. Locals'
    BY <2>2, <2>3 DEF IInv, Locals, locals
  <2> QED
    BY <1>0, <2>2, <2>3, <2>4, QuietProxy, QuietTunnel
    DEF IInv, Proxies, Tunnels, Stays, Frame, locals
<1>2. CASE SetEnabled(c)
  <2>1. Moved
    BY <1>0, <1>2, PlainSkip DEF SetEnabled, Plain, Names, locals
  <2>2. Locals'
    BY <1>2, <2>1 DEF IInv, Locals, SetEnabled, locals
  <2>3. enabled' \in BOOLEAN
    BY <1>2 DEF SetEnabled, At
  <2>4. UNCHANGED <<proxy, tunnel, port, gotProc>>
    BY <1>2 DEF SetEnabled, locals
  <2> QED
    BY <1>0, <2>1, <2>2, <2>3, <2>4, QuietProxy, QuietTunnel
    DEF IInv, Proxies, Tunnels, Stays, Frame
<1>3. CASE WasRunning(c)
  <2>1. Moved
    BY <1>0, <1>3, PlainSkip DEF WasRunning, Plain, Names
  <2>2. Locals'
    BY <1>3, <2>1 DEF IInv, Locals, WasRunning, ServerTypeOK
  <2>3. UNCHANGED <<proxy, tunnel, port, enabled, gotProc>>
    BY <1>3 DEF WasRunning
  <2> QED
    BY <1>0, <2>1, <2>2, <2>3, QuietProxy, QuietTunnel DEF IInv, Proxies, Tunnels, Stays, Frame
<1>4. CASE WasEnabled(c)
  <2> DEFINE rest == UpdateRest(was[c], enabled)
  <2>1. UNCHANGED <<proxy, tunnel, port, enabled, gotProc, dest, gotServer, calls>>
    BY <1>4 DEF WasEnabled
  <2>2. was[c] \in BOOLEAN /\ enabled \in BOOLEAN
    BY DEF IInv, Locals
  <2>3. Whole(rest)
    BY <2>2, CallsAreWhole
  <2>4. todo' = [todo EXCEPT ![c] = rest] /\ was' = [was EXCEPT ![c] = FALSE] /\ At(c, "restart?")
    BY <1>4 DEF WasEnabled
  <2> HIDE DEF rest
  <2>5. rest \in Seq(Names) /\ Left(rest)
    BY <2>3 DEF Whole, Left
  <2>6. todo' \in [Callers -> Seq(Names)] /\ todo'[c] = rest
        /\ \A d \in Callers : d # c => todo'[d] = todo[d]
    BY <2>4, <2>5 DEF IInv, Locals
  <2>7. \A later \in Later : ~At(c, later)'
    <3>1. rest # <<>> => Head(rest) = rest[1] /\ rest[1] \notin Later
      BY <2>3, <2>5 DEF Whole
    <3> QED
      BY <2>6, <3>1 DEF At
  <2>8. gotProc[c] = NoProc
    BY <2>4 DEF IInv, CallsInOrder, At
  <2>9. CallsInOrder'
    BY <2>1, <2>5, <2>6, <2>7, <2>8, OrderKept DEF IInv, Later
  <2>10. Locals'
    BY <2>1, <2>4, <2>6 DEF IInv, Locals
  <2> QED
    BY <1>0, <2>1, <2>6, <2>7, <2>9, <2>10, QuietProxy, QuietTunnel
    DEF IInv, Proxies, Tunnels, Stays, Frame
<1>5. CASE SavePort(c)
  <2>1. At(c, "save") /\ UNCHANGED <<proxy, tunnel, enabled, locals, calls>>
    BY <1>5 DEF SavePort
  <2>2. Moved
    <3>1. CASE Skip(c, 1)
      BY <1>0, <2>1, <3>1, PlainSkip DEF Plain, Names, locals
    <3>2. CASE Return(c)
      BY <1>0, <2>1, <3>2, PlainReturn DEF At, locals
    <3> QED
      BY <1>5, <3>1, <3>2 DEF SavePort
  <2>3. Locals'
    BY <2>1, <2>2 DEF IInv, Locals, locals
  <2>4. port' \in Ports
    <3>1. dest[c] \in Ports \cup {0}
      BY DEF IInv, Locals
    <3>2. StoredPort(dest[c]) \in Ports
      BY <3>1, CallsAssumption DEF StoredPort
    <3> QED
      BY <1>5, <3>2 DEF SavePort, IInv
  <2> QED
    BY <1>0, <2>1, <2>2, <2>3, <2>4, QuietProxy, QuietTunnel
    DEF IInv, Proxies, Tunnels, Stays, Frame, locals
<1> QED
  BY <1>1, <1>2, <1>3, <1>4, <1>5

-----------------------------------------------------------------------------
(* The steps that start and stop the tunnel.                                *)

(* A call has taken a step, after which it may be at one of the steps in S, *)
(* if at any that only comes after another.                                 *)
Moved(c, S) ==
  /\ todo' \in [Callers -> Seq(Names)] /\ CallsInOrder'
  /\ \A d \in Callers : d # c => todo'[d] = todo[d] /\ gotProc'[d] = gotProc[d]
  /\ \A later \in Later : At(c, later)' => later \in S

LEMMA LookMoves ==
  ASSUME Calls, NEW c \in Callers, Look(c)
  PROVE  Moved(c, IF process = NoProc THEN {"spawn"} ELSE {})
<1>1. At(c, "look") /\ UNCHANGED gotProc
  BY DEF Look, locals
<1>2. Len(todo[c]) >= 4 /\ Len(todo[c]) \in Nat
  BY <1>1, TodoIs DEF Calls
<1>3. gotProc[c] = NoProc
  BY <1>1 DEF Calls, CallsInOrder, At
<1>4. PICK n \in {1, 4} : Skip(c, n) /\ (n = 1 <=> process = NoProc)
  BY DEF Look
<1>5. n \in 1..Len(todo[c])
  BY <1>2
<1>6. /\ todo' \in [Callers -> Seq(Names)] /\ Left(todo'[c])
      /\ \A d \in Callers : d # c => todo'[d] = todo[d]
  BY <1>1, <1>4, <1>5, SkipIs DEF Calls
<1>7. \A later \in Later : At(c, later)' => n = 1 /\ later = "spawn"
  BY <1>1, <1>4, <1>5, SkipReaches DEF Calls, Later
<1>8. CallsInOrder'
  BY <1>1, <1>3, <1>6, <1>7, OrderKept DEF Calls, Later
<1> QED
  BY <1>1, <1>4, <1>6, <1>7, <1>8 DEF Moved

LEMMA SpawnMoves ==
  ASSUME Calls, NEW c \in Callers, Spawn(c)
  PROVE  \/ /\ Moved(c, {"register"})
            /\ \E q \in Procs : /\ SpawnTunnel(q, dest[c])
                                /\ gotProc' = [gotProc EXCEPT ![c] = q]
         \/ Moved(c, {}) /\ UNCHANGED <<tunnel, gotProc>>
<1>1. At(c, "spawn")
  BY DEF Spawn
<1>2. CASE Return(c) /\ UNCHANGED <<tunnel, gotProc>>
  <2>1. ~At(c, "register") /\ ~At(c, "watch") /\ ~At(c, "kill")
    BY <1>1 DEF At
  <2> QED
    BY <1>2, <2>1, PlainReturn DEF Moved
<1>3. CASE /\ \E q \in Procs \ {gotProc[d] : d \in Callers} :
                /\ SpawnTunnel(q, dest[c])
                /\ gotProc' = [gotProc EXCEPT ![c] = q]
           /\ Skip(c, 1)
  <2>1. PICK q \in Procs : SpawnTunnel(q, dest[c]) /\ gotProc' = [gotProc EXCEPT ![c] = q]
    BY <1>3
  <2>2. Orderly(todo[c], 1) /\ todo[c][1] = "spawn" /\ Len(todo[c]) \in Nat \ {0}
    BY <1>1, TodoIs DEF Calls
  <2>3. 1 \in 1..Len(todo[c]) /\ 1 < Len(todo[c]) /\ todo[c][1 + 1] = "register"
    BY <2>2 DEF Orderly
  <2>4. /\ todo' \in [Callers -> Seq(Names)] /\ Left(todo'[c])
        /\ \A d \in Callers : d # c => todo'[d] = todo[d]
        /\ At(c, "register")'
    BY <1>1, <1>3, <2>3, SkipIs DEF Calls
  <2>5. \A later \in Later : At(c, later)' => later = "register"
    BY <1>1, <1>3, <2>3, SkipReaches DEF Calls, Later
  <2>6. gotProc'[c] # NoProc /\ \A d \in Callers : d # c => gotProc'[d] = gotProc[d]
    BY <2>1, ProcsAssumption DEF Calls, Locals
  <2>7. CallsInOrder'
    BY <2>4, <2>6, OrderKept DEF Calls
  <2> QED
    BY <2>1, <2>4, <2>5, <2>6, <2>7 DEF Moved
<1> QED
  BY <1>2, <1>3 DEF Spawn

LEMMA RegisterMoves ==
  ASSUME Calls, NEW c \in Callers, Register(c)
  PROVE  Moved(c, {"watch"}) /\ At(c, "watch")' /\ gotProc[c] \in Procs
<1>1. At(c, "register") /\ Skip(c, 1) /\ UNCHANGED gotProc
  BY DEF Register, locals
<1>2. Orderly(todo[c], 1) /\ todo[c][1] = "register" /\ Len(todo[c]) \in Nat \ {0}
  BY <1>1, TodoIs DEF Calls
<1>3. 1 \in 1..Len(todo[c]) /\ 1 < Len(todo[c]) /\ todo[c][1 + 1] = "watch"
  BY <1>2 DEF Orderly
<1>4. /\ todo' \in [Callers -> Seq(Names)] /\ Left(todo'[c])
      /\ \A d \in Callers : d # c => todo'[d] = todo[d]
      /\ At(c, "watch")'
  BY <1>1, <1>3, SkipIs DEF Calls
<1>5. \A later \in Later : At(c, later)' => later = "watch"
  BY <1>1, <1>3, SkipReaches DEF Calls, Later
<1>6. gotProc[c] \in Procs /\ gotProc[c] # NoProc
  BY <1>1 DEF Calls, Locals, CallsInOrder
<1>7. CallsInOrder'
  BY <1>1, <1>4, <1>6, OrderKept DEF Calls
<1> QED
  BY <1>1, <1>4, <1>5, <1>6, <1>7 DEF Moved

LEMMA WatchMoves ==
  ASSUME Calls, NEW c \in Callers, Watch(c)
  PROVE  Moved(c, {}) /\ gotProc[c] \in Procs
<1>1. At(c, "watch") /\ Skip(c, 1) /\ gotProc' = [gotProc EXCEPT ![c] = NoProc]
  BY DEF Watch
<1>2. 1 \in 1..Len(todo[c])
  BY <1>1, TodoIs DEF Calls
<1>3. /\ todo' \in [Callers -> Seq(Names)] /\ Left(todo'[c])
      /\ \A d \in Callers : d # c => todo'[d] = todo[d]
  BY <1>1, <1>2, SkipIs DEF Calls
<1>4. \A later \in Later : ~At(c, later)'
  BY <1>1, <1>2, SkipReaches DEF Calls, Later
<1>5. gotProc'[c] = NoProc /\ \A d \in Callers : d # c => gotProc'[d] = gotProc[d]
  BY <1>1 DEF Calls, Locals
<1>6. gotProc[c] \in Procs
  BY <1>1 DEF Calls, Locals, CallsInOrder
<1>7. CallsInOrder'
  BY <1>3, <1>4, <1>5, OrderKept DEF Calls, Later
<1> QED
  BY <1>3, <1>4, <1>5, <1>6, <1>7 DEF Moved

LEMMA SeizeMoves ==
  ASSUME Calls, Tunnels, NEW c \in Callers, Seize(c)
  PROVE  Moved(c, IF process = NoProc THEN {"clear"} ELSE {"kill"})
<1>1. At(c, "seize") /\ gotProc' = [gotProc EXCEPT ![c] = process]
  BY DEF Seize
<1>2. Orderly(todo[c], 1) /\ todo[c][1] = "seize" /\ Len(todo[c]) \in Nat \ {0}
  BY <1>1, TodoIs DEF Calls
<1>3. PICK n \in {1, 2} : Skip(c, n) /\ (n = 2 <=> process = NoProc)
  BY DEF Seize
<1>4. n \in 1..Len(todo[c]) /\ 1 < Len(todo[c]) /\ todo[c][1 + 1] = "kill"
  BY <1>2 DEF Orderly
<1>5. /\ todo' \in [Callers -> Seq(Names)] /\ Left(todo'[c])
      /\ \A d \in Callers : d # c => todo'[d] = todo[d]
      /\ n = 1 => At(c, "kill")'
  BY <1>1, <1>3, <1>4, SkipIs DEF Calls
<1>6. \A later \in Later : At(c, later)' => (n = 2 /\ later = "clear") \/ (n = 1 /\ later = "kill")
  BY <1>1, <1>3, <1>4, SkipReaches DEF Calls, Later
<1>7. gotProc'[c] = process /\ \A d \in Callers : d # c => gotProc'[d] = gotProc[d]
  BY <1>1 DEF Calls, Locals
<1>8. CallsInOrder'
  BY <1>3, <1>5, <1>6, <1>7, OrderKept DEF Calls, Later
<1> QED
  BY <1>3, <1>5, <1>6, <1>7, <1>8 DEF Moved

LEMMA KillMoves ==
  ASSUME Calls, NEW c \in Callers, Kill(c)
  PROVE  /\ gotProc[c] \in Procs
         /\ \/ Moved(c, {"clear"}) /\ KillTunnel(gotProc[c])
            \/ Moved(c, {}) /\ proc[gotProc[c]] = "alive" /\ UNCHANGED tunnel
<1>1. At(c, "kill") /\ gotProc' = [gotProc EXCEPT ![c] = NoProc]
  BY DEF Kill
<1>2. 1 \in 1..Len(todo[c]) /\ 2 \in 1..Len(todo[c])
  BY <1>1, TodoIs DEF Calls
<1>3. gotProc'[c] = NoProc /\ \A d \in Callers : d # c => gotProc'[d] = gotProc[d]
  BY <1>1 DEF Calls, Locals
<1>4. gotProc[c] \in Procs
  BY <1>1 DEF Calls, Locals, CallsInOrder
<1>5. CASE KillTunnel(gotProc[c]) /\ Skip(c, 1)
  <2>1. /\ todo' \in [Callers -> Seq(Names)] /\ Left(todo'[c])
        /\ \A d \in Callers : d # c => todo'[d] = todo[d]
    BY <1>1, <1>2, <1>5, SkipIs DEF Calls
  <2>2. \A later \in Later : At(c, later)' => later = "clear"
    BY <1>1, <1>2, <1>5, SkipReaches DEF Calls, Later
  <2>3. CallsInOrder'
    BY <1>3, <2>1, <2>2, OrderKept DEF Calls, Later
  <2> QED
    BY <1>3, <1>4, <1>5, <2>1, <2>2, <2>3 DEF Moved
<1>6. CASE proc[gotProc[c]] = "alive" /\ UNCHANGED tunnel /\ (Return(c) \/ Skip(c, 2))
  <2>1. /\ todo' \in [Callers -> Seq(Names)] /\ Left(todo'[c])
        /\ \A d \in Callers : d # c => todo'[d] = todo[d]
        /\ \A later \in Later : ~At(c, later)'
    <3>1. CASE Return(c)
      BY <3>1, ReturnIs DEF Calls
    <3>2. CASE Skip(c, 2)
      <4>1. \A later \in Later : ~At(c, later)'
        BY <1>1, <1>2, <3>2, SkipReaches DEF Calls, Later
      <4> QED
        BY <1>1, <1>2, <3>2, <4>1, SkipIs DEF Calls
    <3> QED
      BY <1>6, <3>1, <3>2
  <2>2. CallsInOrder'
    BY <1>3, <2>1, OrderKept DEF Calls, Later
  <2> QED
    BY <1>3, <1>4, <1>6, <2>1, <2>2 DEF Moved
<1> QED
  BY <1>5, <1>6 DEF Kill

LEMMA ClearMoves ==
  ASSUME Calls, NEW c \in Callers, Clear(c)
  PROVE  Moved(c, {})
<1>1. At(c, "clear") /\ Skip(c, 1) /\ UNCHANGED gotProc
  BY DEF Clear, locals
<1>2. 1 \in 1..Len(todo[c])
  BY <1>1, TodoIs DEF Calls
<1>3. /\ todo' \in [Callers -> Seq(Names)] /\ Left(todo'[c])
      /\ \A d \in Callers : d # c => todo'[d] = todo[d]
  BY <1>1, <1>2, SkipIs DEF Calls
<1>4. \A later \in Later : ~At(c, later)'
  BY <1>1, <1>2, SkipReaches DEF Calls, Later
<1>5. gotProc[c] = NoProc
  BY <1>1 DEF Calls, CallsInOrder, At
<1>6. CallsInOrder'
  BY <1>1, <1>3, <1>4, <1>5, OrderKept DEF Calls, Later
<1> QED
  BY <1>1, <1>3, <1>4, <1>6 DEF Moved

LEMMA TunnelStepsKeep ==
  ASSUME IInv, NEW c \in Callers,
         Look(c) \/ Spawn(c) \/ Register(c) \/ Watch(c) \/ Seize(c) \/ Kill(c) \/ Clear(c)
  PROVE  Stays
<1>0. Calls /\ Proxies /\ Tunnels
  BY DEF IInv, Calls, Proxies, Tunnels
<1>1. UNCHANGED <<proxy, port, enabled, dest, was, gotServer, calls>>
  BY DEF Look, Spawn, Register, Watch, Seize, Kill, Clear, locals
<1>2. Proxies'
  BY <1>0, <1>1, QuietProxy
<1>3. \E S : Moved(c, S)
  BY <1>0, LookMoves, SpawnMoves, RegisterMoves, WatchMoves, SeizeMoves, KillMoves, ClearMoves
<1>4. Tunnels' /\ gotProc' \in [Callers -> Procs \cup {NoProc}]
  <2>1. CASE Look(c)
    BY <1>0, <2>1, QuietTunnel DEF Look, Calls, Locals, locals
  <2>2. CASE Spawn(c)
    <3>1. CASE UNCHANGED <<tunnel, gotProc>>
      BY <1>0, <3>1, QuietTunnel DEF Calls, Locals
    <3>2. CASE \E q \in Procs : /\ SpawnTunnel(q, dest[c])
                                /\ gotProc' = [gotProc EXCEPT ![c] = q]
      <4>1. dest[c] \in Ports \cup {0}
        BY <1>0 DEF Calls, Locals
      <4> QED
        BY <1>0, <3>2, <4>1, TunnelCallsKeep DEF Calls, Locals
    <3> QED
      BY <1>0, <2>2, <3>1, <3>2, SpawnMoves
  <2>3. CASE Register(c)
    BY <1>0, <2>3, RegisterMoves, TunnelCallsKeep DEF Register, Calls, Locals, locals
  <2>7. CASE Watch(c)
    BY <1>0, <2>7, WatchMoves, TunnelCallsKeep DEF Watch, Calls, Locals
  <2>4. CASE Seize(c)
    BY <1>0, <2>4, QuietTunnel DEF Seize, Calls, Locals, Tunnels, TunnelTypeOK
  <2>5. CASE Kill(c)
    <3>1. Tunnels'
      BY <1>0, <2>5, KillMoves, TunnelCallsKeep, QuietTunnel
    <3> QED
      BY <1>0, <2>5, <3>1 DEF Kill, Calls, Locals
  <2>6. CASE Clear(c)
    BY <1>0, <2>6, TunnelCallsKeep DEF Clear, Calls, Locals, locals
  <2> QED
    BY <2>1, <2>2, <2>3, <2>4, <2>5, <2>6, <2>7
<1>5. Locals' /\ CallsInOrder'
  BY <1>0, <1>1, <1>3, <1>4 DEF Calls, Locals, Moved
<1> QED
  BY <1>1, <1>2, <1>4, <1>5 DEF IInv, Proxies, Tunnels, Stays

LEMMA BackgroundKeeps ==
  ASSUME IInv,
         \/ UNCHANGED vars
         \/ (\E s \in Servers : ServerStep(s)) /\ UNCHANGED tunnel /\ Rest
         \/ (\E q \in Procs : TunnelStep(q)) /\ UNCHANGED proxy /\ Rest
  PROVE  Stays /\ UNCHANGED <<todo, gotProc>>
<1>0. Proxies /\ Tunnels
  BY DEF IInv, Proxies, Tunnels, Stays
<1>1. UNCHANGED <<port, enabled, todo, locals, calls>>
  BY DEF Rest, vars, locals
<1>2. UNCHANGED proxy \/ \E s \in Servers : ServerStep(s)
  BY DEF vars
<1>3. UNCHANGED tunnel \/ \E q \in Procs : TunnelStep(q)
  BY DEF vars
<1>4. Proxies'
  BY <1>0, <1>2, QuietProxy, ServerStepKeeps
<1>5. Tunnels'
  BY <1>0, <1>3, QuietTunnel, TunnelStepKeeps
<1>6. Locals' /\ CallsInOrder'
  BY <1>1 DEF IInv, Locals, CallsInOrder, At, locals
<1> QED
  BY <1>1, <1>4, <1>5, <1>6 DEF IInv, Proxies, Tunnels, Stays, locals

LEMMA InitHolds == Init => IInv
<1> SUFFICES ASSUME Init PROVE IInv
  OBVIOUS
<1>1. ServerTypeOK
  BY ServersAssumption DEF Init, ServerInit, ServerTypeOK, Lives
<1>2. TunnelTypeOK /\ ~up /\ Held
  BY DEF Init, TunnelInit, TunnelTypeOK, Held, Fates
<1>3. Locals
  BY DEF Init, Locals
<1>4. CallsInOrder
  BY EmptyIsWhole DEF Init, CallsInOrder, Whole, At
<1> QED
  BY <1>1, <1>2, <1>3, <1>4 DEF Init, IInv

(* The next step of a call is one.                                          *)
LEMMA AtOne ==
  ASSUME NEW c, NEW one, NEW other, At(c, one), At(c, other)
  PROVE  one = other
BY DEF At

LEMMA OthersDoNotWatch ==
  ASSUME NEW c \in Callers, Begin(c) \/ Step(c), ~Watch(c)
  PROVE  ~At(c, "watch")
<1>1. Begin(c) => ~At(c, "watch")
  BY DEF Begin, At
<1>2. ReadPort(c) \/ Listen(c) \/ Detach(c) \/ ShutDown(c) => ~At(c, "watch")
  BY AtOne DEF ReadPort, Listen, Detach, ShutDown
<1>3. \/ AskRunning(c) \/ AskEnabled(c) \/ SetEnabled(c)
      \/ WasRunning(c) \/ WasEnabled(c) \/ SavePort(c)
      => ~At(c, "watch")
  BY AtOne DEF AskRunning, AskEnabled, SetEnabled, WasRunning, WasEnabled, SavePort
<1>4. Look(c) \/ Spawn(c) \/ Register(c) \/ Seize(c) \/ Kill(c) \/ Clear(c) => ~At(c, "watch")
  BY AtOne DEF Look, Spawn, Register, Seize, Kill, Clear
<1> QED
  BY <1>1, <1>2, <1>3, <1>4 DEF Step

(* A process is registered by a call that goes on to wait for it, and no    *)
(* other step takes a watcher or the call from it.                          *)
LEMMA CallsHold ==
  ASSUME IInv, NEW c \in Callers, Begin(c) \/ Step(c)
  PROVE  Held'
<1>0. Calls /\ Tunnels /\ Held
  BY DEF IInv, Calls, Tunnels
<1>1. CASE Register(c)
  BY <1>0, <1>1, RegisterMoves DEF Register, RegisterTunnel, Held, locals
<1>2. CASE Watch(c)
  <2>1. /\ Moved(c, {}) /\ process' = process /\ watched' = watched \cup {gotProc[c]}
    BY <1>0, <1>2, WatchMoves DEF Watch, WatchTunnel
  <2> QED
    BY <1>0, <2>1 DEF Moved, Held, At
<1>3. CASE ~Register(c) /\ ~Watch(c)
  <2>1. ~At(c, "watch")
    BY <1>3, OthersDoNotWatch
  <2>2. /\ process' \in {process, NoProc} /\ watched' = watched
        /\ \A d \in Callers : d # c => todo'[d] = todo[d] /\ gotProc'[d] = gotProc[d]
    <3>1. CASE Frame(c)
      BY <3>1 DEF Frame, tunnel
    <3>2. CASE Look(c) \/ Seize(c)
      BY <1>0, <3>2, LookMoves, SeizeMoves DEF Look, Seize, Moved, tunnel
    <3>3. CASE Spawn(c)
      BY <1>0, <3>3, SpawnMoves DEF SpawnTunnel, Moved, tunnel
    <3>4. CASE Kill(c)
      BY <1>0, <3>4, KillMoves DEF KillTunnel, Moved, tunnel
    <3>5. CASE Clear(c)
      BY <1>0, <3>5, ClearMoves DEF Clear, ClearTunnel, Moved
    <3> QED
      BY <1>3, <3>1, <3>2, <3>3, <3>4, <3>5, BeginKeeps, ProxyStepsKeep, SettingsStepsKeep
      DEF Step
  <2> QED
    BY <1>0, <2>1, <2>2 DEF Held, At
<1> QED
  BY <1>1, <1>2, <1>3

LEMMA NextKeeps == IInv /\ [Next]_vars => IInv'
<1> SUFFICES ASSUME IInv, [Next]_vars PROVE IInv'
  OBVIOUS
<1>1. ASSUME NEW c \in Callers, Begin(c) \/ Step(c) PROVE Stays /\ Held'
  BY <1>1, CallsHold, BeginKeeps, ProxyStepsKeep, SettingsStepsKeep, TunnelStepsKeep DEF Step
<1>2. ASSUME \/ UNCHANGED vars
             \/ (\E s \in Servers : ServerStep(s)) /\ UNCHANGED tunnel /\ Rest
             \/ (\E q \in Procs : TunnelStep(q)) /\ UNCHANGED proxy /\ Rest
      PROVE  Stays /\ Held'
  <2>1. Stays /\ UNCHANGED <<todo, gotProc>>
    BY <1>2, BackgroundKeeps
  <2>2. \/ UNCHANGED <<process, watched>>
        \/ \E q \in Procs : /\ watched' = watched \ {q}
                            /\ process' = IF process = q THEN NoProc ELSE process
    BY <1>2 DEF TunnelStep, Dies, Notices, vars, tunnel
  <2>3. Held'
    BY <2>1, <2>2 DEF IInv, Held, At
  <2> QED
    BY <2>1, <2>3
<1>3. Stays /\ Held'
  BY <1>1, <1>2 DEF Next
<1> QED
  BY <1>3 DEF Stays, IInv, Proxies, Tunnels

LEMMA Inductive == Spec => []IInv
BY InitHolds, NextKeeps, PTL DEF Spec

-----------------------------------------------------------------------------
(* Whatever calls come together, every variable stays of its type: among    *)
(* them the port that is stored, which is never 0, and the process that is  *)
(* registered, which is one.                                                *)
THEOREM AppTyped == Spec => []TypeOK
<1>1. IInv => TypeOK
  BY DEF IInv, Locals, TypeOK
<1> QED
  BY <1>1, Inductive, PTL

(* A process the manager holds is always waited for, or about to be, and a tunnel it shows  *)
(* to run is one it holds, whatever calls overlap and whether or not the    *)
(* system kills what it is asked to (cloudflared/manager.go).               *)
THEOREM HeldIsWatched == Spec => []TunnelIsWatched
<1>1. IInv => TunnelIsWatched
  BY DEF IInv, Held, TunnelIsWatched
<1> QED
  BY <1>1, Inductive, PTL

-----------------------------------------------------------------------------
(* One caller.                                                              *)

OneCaller == \A c, d \in Callers : c = d

(* What the call under way knows of the process: none is registered when it *)
(* starts one, the one it kills is the one registered unless that has ended *)
(* meanwhile, and one that runs is not dropped.                             *)
Aware(c) ==
  /\ At(c, "spawn") \/ At(c, "register") => process = NoProc
  /\ At(c, "kill") => /\ process \in {gotProc[c], NoProc}
                      /\ proc[gotProc[c]] = "alive" => process = gotProc[c]
  /\ At(c, "watch") /\ proc[gotProc[c]] = "alive" => process = gotProc[c]
  /\ At(c, "clear") /\ process # NoProc => proc[process] # "alive"
AllAware == NoOrphanTunnel /\ \A c \in Callers : Aware(c)

LEMMA CallsStayAware ==
  ASSUME OneCaller, IInv, AllAware, NEW c \in Callers, Begin(c) \/ Step(c)
  PROVE  AllAware'
<1>0. Calls /\ Tunnels /\ \A d \in Callers : d = c
  BY DEF IInv, Calls, Tunnels, OneCaller
<1>1. \A q \in Procs : proc[q] = "alive" => process = q \/ gotProc[c] = q
  BY <1>0 DEF AllAware, NoOrphanTunnel
<1>2. Aware(c)
  BY DEF AllAware
<1>3. ~At(c, "register") /\ ~At(c, "watch") /\ ~At(c, "kill") => gotProc[c] = NoProc
  BY <1>0 DEF Calls, CallsInOrder
<1>4. SUFFICES /\ \A q \in Procs : proc'[q] = "alive" => process' = q \/ gotProc'[c] = q
               /\ Aware(c)'
  BY <1>0 DEF AllAware, NoOrphanTunnel
<1>5. CASE Frame(c)
  BY <1>1, <1>5 DEF Frame, Aware, Later, tunnel
<1>6. CASE Look(c)
  <2>1. UNCHANGED <<tunnel, gotProc>> /\ Moved(c, IF process = NoProc THEN {"spawn"} ELSE {})
    BY <1>0, <1>6, LookMoves DEF Look, locals
  <2> QED
    BY <1>1, <2>1 DEF Moved, Aware, Later, tunnel
<1>7. CASE Spawn(c)
  <2>1. At(c, "spawn") /\ process = NoProc /\ gotProc[c] = NoProc
    BY <1>2, <1>3, <1>7 DEF Spawn, Aware, At
  <2>2. CASE Moved(c, {}) /\ UNCHANGED <<tunnel, gotProc>>
    BY <1>1, <2>2 DEF Moved, Aware, Later, tunnel
  <2>3. CASE /\ Moved(c, {"register"})
             /\ \E q \in Procs : /\ SpawnTunnel(q, dest[c])
                                 /\ gotProc' = [gotProc EXCEPT ![c] = q]
    <3>1. PICK q \in Procs : SpawnTunnel(q, dest[c]) /\ gotProc' = [gotProc EXCEPT ![c] = q]
      BY <2>3
    <3>2. gotProc'[c] = q /\ process' = NoProc /\ \A r \in Procs : r # q => proc'[r] = proc[r]
      BY <1>0, <2>1, <3>1 DEF SpawnTunnel, Calls, Locals, Tunnels, TunnelTypeOK
    <3>3. \A r \in Procs : proc[r] # "alive"
      BY <1>1, <2>1, ProcsAssumption
    <3> QED
      BY <2>3, <3>2, <3>3 DEF Moved, Aware, Later
  <2> QED
    BY <1>0, <1>7, <2>2, <2>3, SpawnMoves
<1>8. CASE Register(c)
  <2>1. /\ Moved(c, {"watch"}) /\ gotProc[c] \in Procs /\ process' = gotProc[c]
        /\ proc' = proc /\ gotProc' = gotProc
    BY <1>0, <1>8, RegisterMoves DEF Register, RegisterTunnel, locals
  <2>2. process = NoProc
    BY <1>2, <1>8 DEF Register, Aware
  <2> QED
    BY <1>1, <2>1, <2>2, ProcsAssumption DEF Moved, Aware, Later
<1>15. CASE Watch(c)
  <2>1. Moved(c, {}) /\ gotProc[c] \in Procs /\ process' = process /\ proc' = proc
    BY <1>0, <1>15, WatchMoves DEF Watch, WatchTunnel
  <2>2. proc[gotProc[c]] = "alive" => process = gotProc[c]
    BY <1>2, <1>15 DEF Watch, Aware
  <2> QED
    BY <1>1, <2>1, <2>2 DEF Moved, Aware, Later
<1>9. CASE Seize(c)
  <2>1. /\ Moved(c, IF process = NoProc THEN {"clear"} ELSE {"kill"})
        /\ process' = process /\ proc' = proc
    BY <1>0, <1>9, SeizeMoves DEF Seize, tunnel
  <2>2. gotProc'[c] = process
    BY <1>0, <1>9 DEF Seize, Calls, Locals
  <2>3. gotProc[c] = NoProc
    BY <1>3, <1>9 DEF Seize, At
  <2> QED
    BY <1>1, <2>1, <2>2, <2>3, ProcsAssumption DEF Moved, Aware, Later
<1>10. CASE Kill(c)
  <2>1. /\ gotProc[c] \in Procs /\ process \in {gotProc[c], NoProc}
        /\ proc[gotProc[c]] = "alive" => process = gotProc[c]
    BY <1>0, <1>2, <1>10, KillMoves DEF Kill, Aware
  <2>2. CASE Moved(c, {"clear"}) /\ KillTunnel(gotProc[c])
    <3>1. /\ process' = process /\ proc'[gotProc[c]] # "alive"
          /\ \A r \in Procs : r # gotProc[c] => proc'[r] = proc[r]
      BY <1>0, <2>1, <2>2 DEF KillTunnel, Tunnels, TunnelTypeOK
    <3> QED
      BY <1>1, <2>1, <2>2, <3>1 DEF Moved, Aware, Later
  <2>3. CASE Moved(c, {}) /\ proc[gotProc[c]] = "alive" /\ UNCHANGED tunnel
    BY <1>1, <2>1, <2>3 DEF Moved, Aware, Later, tunnel
  <2> QED
    BY <1>0, <1>10, <2>2, <2>3, KillMoves
<1>11. CASE Clear(c)
  <2>1. Moved(c, {}) /\ process' = NoProc /\ proc' = proc /\ gotProc' = gotProc
    BY <1>0, <1>11, ClearMoves DEF Clear, ClearTunnel, locals
  <2>2. gotProc[c] = NoProc /\ (process # NoProc => proc[process] # "alive")
    BY <1>2, <1>3, <1>11 DEF Clear, Aware, At
  <2> QED
    BY <1>1, <2>1, <2>2, ProcsAssumption DEF Moved, Aware, Later
<1>12. Begin(c) => Frame(c)
  BY BeginKeeps
<1>13. ReadPort(c) \/ Listen(c) \/ Detach(c) \/ ShutDown(c) => Frame(c)
  BY ProxyStepsKeep
<1>14. \/ AskRunning(c) \/ AskEnabled(c) \/ SetEnabled(c)
       \/ WasRunning(c) \/ WasEnabled(c) \/ SavePort(c)
       => Frame(c)
  BY SettingsStepsKeep
<1> QED
  BY <1>5, <1>6, <1>7, <1>8, <1>9, <1>10, <1>11, <1>12, <1>13, <1>14, <1>15 DEF Step

LEMMA BackgroundIsAware ==
  ASSUME IInv, AllAware,
         \/ UNCHANGED vars
         \/ (\E s \in Servers : ServerStep(s)) /\ UNCHANGED tunnel /\ Rest
         \/ (\E q \in Procs : TunnelStep(q)) /\ UNCHANGED proxy /\ Rest
  PROVE  AllAware'
<1>1. UNCHANGED <<todo, gotProc>>
  BY BackgroundKeeps
<1>2. Tunnels /\ CallsInOrder /\ Locals
  BY DEF IInv, Tunnels
<1>3. CASE UNCHANGED tunnel
  BY <1>1, <1>3 DEF AllAware, NoOrphanTunnel, Aware, At, tunnel
<1>4. ASSUME NEW q \in Procs, TunnelStep(q) PROVE AllAware'
  <2>1. /\ proc'[q] # "alive" /\ \A r \in Procs : r # q => proc'[r] = proc[r]
        /\ process' = process \/ (process = q /\ process' = NoProc)
    BY <1>2, <1>4 DEF TunnelStep, Dies, Notices, Tunnels, TunnelTypeOK
  <2>2. NoOrphanTunnel'
    BY <1>1, <2>1 DEF AllAware, NoOrphanTunnel
  <2>3. ASSUME NEW c \in Callers PROVE Aware(c)'
    <3>1. Aware(c) /\ (At(c, "kill") \/ At(c, "watch") => gotProc[c] \in Procs)
      BY <1>2 DEF AllAware, CallsInOrder, Locals
    <3>2. process \in Procs \cup {NoProc}
      BY <1>2 DEF Tunnels, TunnelTypeOK
    <3> QED
      BY <1>1, <2>1, <3>1, <3>2 DEF Aware, At
  <2> QED
    BY <2>2, <2>3 DEF AllAware
<1> QED
  BY <1>3, <1>4 DEF vars

(* Where the calls come one after the other, no tunnel process runs that    *)
(* the manager has lost sight of, even if one it was asked to kill goes on  *)
(* (cloudflared/manager.go, Start and Stop, whose own mutex is released     *)
(* between the steps).                                                      *)
THEOREM SerialCallsLoseNone ==
  ASSUME OneCaller
  PROVE  Spec => []NoOrphanTunnel
<1>1. Init => AllAware
  BY DEF Init, TunnelInit, AllAware, NoOrphanTunnel, Aware, At
<1>2. IInv /\ AllAware /\ [Next]_vars => AllAware'
  BY CallsStayAware, BackgroundIsAware DEF Next
<1>3. AllAware => NoOrphanTunnel
  BY DEF AllAware
<1> QED
  BY <1>1, <1>2, <1>3, Inductive, PTL DEF Spec
=============================================================================
