------------------------------- MODULE Tunnel -------------------------------
(***************************************************************************)
(* The cloudflared process (internal/cloudflared, Manager.Start and Stop)  *)
(* and the goroutine that waits for each process to end.  The text of the  *)
(* status (version, URL, error) is left out, and with it the flag stopping *)
(* and the channel waitDone: Stop waits for it no longer than five seconds *)
(* and does the same whether it was closed or not.                         *)
(***************************************************************************)
EXTENDS Integers

CONSTANTS
  Procs,        \* the processes, reused when they have been waited for
  NoProc

ASSUME ProcsAssumption == NoProc \notin Procs

VARIABLES
  process,      \* Manager.process
  up,           \* Manager.status.Running
  proc,         \* what became of each process
  watched,      \* the processes a goroutine waits for
  aim           \* the port each process forwards to

tunnel == <<process, up, proc, watched, aim>>

Fates == {"free", "alive", "killed", "dead"}

TunnelInit ==
  /\ process = NoProc
  /\ up = FALSE
  /\ proc = [q \in Procs |-> "free"]
  /\ watched = {}
  /\ aim = [q \in Procs |-> 0]

-----------------------------------------------------------------------------
(* Start, in the sections the mutex makes of it.                            *)

SpawnTunnel(q, p) ==
  /\ proc[q] = "free"
  /\ proc' = [proc EXCEPT ![q] = "alive"]
  /\ aim' = [aim EXCEPT ![q] = p]
  /\ UNCHANGED <<process, up, watched>>

RegisterTunnel(q) ==
  /\ process' = q
  /\ up' = TRUE
  /\ UNCHANGED <<proc, watched, aim>>

WatchTunnel(q) ==   \* the go statement, after the mutex was released
  /\ watched' = watched \cup {q}
  /\ UNCHANGED <<process, up, proc, aim>>

(* Stop.                                                                    *)

KillTunnel(q) ==    \* killing a process that has ended is no error
  /\ proc' = IF proc[q] = "alive" THEN [proc EXCEPT ![q] = "killed"] ELSE proc
  /\ UNCHANGED <<process, up, watched, aim>>

ClearTunnel ==
  /\ process' = NoProc
  /\ up' = FALSE
  /\ UNCHANGED <<proc, watched, aim>>

-----------------------------------------------------------------------------
(* The process and its watcher, waitForExit.                                *)

Dies(q) ==
  /\ proc[q] \in {"alive", "killed"}
  /\ proc' = [proc EXCEPT ![q] = "dead"]
  /\ UNCHANGED <<process, up, watched, aim>>

(* Fault: the watcher takes the registered process to be its own.           *)
NoticesAnyones(q) ==
  /\ proc[q] = "dead" /\ q \in watched
  /\ process' = NoProc
  /\ up' = FALSE
  /\ proc' = [proc EXCEPT ![q] = "free"]
  /\ watched' = watched \ {q}
  /\ UNCHANGED aim

(* Fault: the watcher leaves the process registered.                        *)
NoticesQuietly(q) ==
  /\ proc[q] = "dead" /\ q \in watched
  /\ up' = FALSE
  /\ proc' = [proc EXCEPT ![q] = "free"]
  /\ watched' = watched \ {q}
  /\ UNCHANGED <<process, aim>>

Notices(q) ==
  /\ proc[q] = "dead" /\ q \in watched
  /\ process' = IF process = q THEN NoProc ELSE process
  /\ up' = FALSE
  /\ proc' = [proc EXCEPT ![q] = "free"]
  /\ watched' = watched \ {q}
  /\ UNCHANGED aim

TunnelStep(q) == Dies(q) \/ Notices(q)

-----------------------------------------------------------------------------
TunnelTypeOK ==
  /\ process \in Procs \cup {NoProc}
  /\ up \in BOOLEAN
  /\ proc \in [Procs -> Fates]
  /\ watched \subseteq Procs
  /\ aim \in [Procs -> Nat]
=============================================================================
