----------------------------- MODULE PluginRun -----------------------------
(***************************************************************************)
(* One run of a plugin, as every module of the plugins family sees it: a   *)
(* sequence of requests to a remote that goes on changing between them.    *)
(* The engine (module Engine) only knows that a run returns something; the *)
(* modules that extend this one say what, for each plugin.                 *)
(***************************************************************************)
EXTENDS Kept

CONSTANT MaxPast    \* for each plugin, how many states of the remote a run may see
ASSUME PastAssumption == \A p \in DOMAIN MaxPast : MaxPast[p] \in Nat \ {0}

VARIABLES
  job,      \* the plugin that runs and the configuration that matters to it
  remote,   \* what the remote would answer now
  step,     \* the request that comes next; "done" or "failed" once Run returned
  got,      \* what the run has learnt from the answers so far
  out,      \* what Run returned; Pending until it did
  past      \* history: the states the remote was in since Run was called

runVars == <<job, remote, step, got, out, past>>

Pending == "pending"
Running == step \notin {"done", "failed"}
Returned == step = "done"

(* The remote moves to state r, which no request has to wait for. *)
Move(r) ==
  /\ Running /\ Len(past) < MaxPast[job.plugin] /\ r # remote
  /\ remote' = r
  /\ past' = Append(past, r)
  /\ UNCHANGED <<job, step, got, out>>

(* A request was answered: the run knows g and makes request s next. *)
Proceed(s, g) ==
  /\ step' = s
  /\ got' = g
  /\ UNCHANGED <<job, remote, out, past>>

(* Run returns an error, which the engine shows in place of a result. *)
Abort ==
  /\ step' = "failed"
  /\ UNCHANGED <<job, remote, got, out, past>>

(* Run returns o, having learnt g. *)
Return(o, g) ==
  /\ step' = "done"
  /\ got' = g
  /\ out' = o
  /\ UNCHANGED <<job, remote, past>>
=============================================================================
