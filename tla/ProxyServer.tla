---------------------------- MODULE ProxyServer ----------------------------
(***************************************************************************)
(* The proxy's HTTP server (internal/proxy/http, Server.Start and Stop):   *)
(* the flag and the pointer the window sees, and the listeners behind      *)
(* them.  Start makes a new http.Server with a goroutine of its own, which *)
(* opens the port later and clears the flag when its server has ended.     *)
(***************************************************************************)
EXTENDS Integers

CONSTANTS
  Servers,      \* the http.Server values, reused when their goroutine is gone
  Ports,        \* the ports the proxy may be configured for
  TakenPorts,   \* the ports another program listens on
  NoServer

ASSUME ServersAssumption ==
  /\ Ports \subseteq Nat \ {0}
  /\ TakenPorts \subseteq Ports
  /\ NoServer \notin Servers

VARIABLES
  server,       \* Server.server
  running,      \* Server.running
  life,         \* where each server's goroutine is
  shut,         \* the servers Shutdown has been called on
  at            \* the port each server was made for

proxy == <<server, running, life, shut, at>>

Lives == {"free", "opening", "held", "open", "ended"}

ServerInit ==
  /\ server = NoServer
  /\ running = FALSE
  /\ life = [s \in Servers |-> "free"]
  /\ shut = {}
  /\ at = [s \in Servers |-> 0]

-----------------------------------------------------------------------------
(* Start and Stop.  Nobody else may hold the server that is made.           *)

StartServer(p, inHand) ==
  \/ running /\ UNCHANGED proxy
  \/ /\ ~running
     /\ \E s \in Servers \ inHand :
          /\ life[s] = "free"
          /\ server' = s
          /\ running' = TRUE
          /\ life' = [life EXCEPT ![s] = "opening"]
          /\ at' = [at EXCEPT ![s] = p]
     /\ UNCHANGED shut

DetachServer ==     \* the part of Stop under the mutex
  /\ server' = NoServer
  /\ running' = FALSE
  /\ UNCHANGED <<life, shut, at>>

(* http.Server.Shutdown closes the listener; one that is still being opened *)
(* is closed by Serve.                                                      *)
ShutdownServer(s) ==
  /\ IF s \in Servers /\ life[s] # "free"
       THEN /\ shut' = shut \cup {s}
            /\ life' = [life EXCEPT ![s] = IF @ = "open" THEN "ended" ELSE @]
       ELSE UNCHANGED <<life, shut>>
  /\ UNCHANGED <<server, running, at>>

-----------------------------------------------------------------------------
(* The goroutine: ListenAndServe and what follows it.                       *)

Goto(s, label) ==
  /\ life' = [life EXCEPT ![s] = label]
  /\ UNCHANGED <<server, running, shut, at>>

PortFree(p) ==
  /\ p \notin TakenPorts
  /\ \A s \in Servers : life[s] \in {"held", "open"} => at[s] # p

Opens(s) == life[s] = "opening" /\ s \notin shut /\ PortFree(at[s]) /\ Goto(s, "held")

DoesNotOpen(s) ==
  /\ life[s] = "opening"
  /\ s \in shut \/ ~PortFree(at[s])
  /\ Goto(s, "ended")

(* Fault: a listener that is shut down before it serves goes on to serve.   *)
ServesAnyway(s) == life[s] = "held" /\ Goto(s, "open")

Serves(s) == life[s] = "held" /\ Goto(s, IF s \in shut THEN "ended" ELSE "open")

Forgets(s) ==       \* whatever server the flag is about by now
  /\ life[s] = "ended"
  /\ running' = FALSE
  /\ life' = [life EXCEPT ![s] = "free"]
  /\ shut' = shut \ {s}
  /\ UNCHANGED <<server, at>>

ServerStep(s) == Opens(s) \/ DoesNotOpen(s) \/ Serves(s) \/ Forgets(s)

-----------------------------------------------------------------------------
ServerTypeOK ==
  /\ server \in Servers \cup {NoServer}
  /\ running \in BOOLEAN
  /\ life \in [Servers -> Lives]
  /\ shut \subseteq Servers
  /\ at \in [Servers -> Ports \cup {0}]

(* A server that was shut down gives its port back.                         *)
PortIsReleased == \A s \in Servers : s \in shut ~> life[s] = "free"
=============================================================================
