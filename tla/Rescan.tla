------------------------------- MODULE Rescan -------------------------------
(***************************************************************************)
(* The registry of plugins and the rescans of the plugins directory.  A    *)
(* rescan holds the manager's lock throughout, but takes the registry's    *)
(* lock for one operation at a time, while requests and runs look plugins  *)
(* up and the files of the directory come, go and change.                  *)
(***************************************************************************)
EXTENDS Integers, Sequences, FiniteSets, SequencesExt

CONSTANTS
  Files,      \* the executables there may be, in the order of their names
  Ids,        \* plugin ids
  Builtins,   \* the ids of the built-in plugins
  Scanners,   \* requests that rescan
  None        \* no file, no plugin

ASSUME RescanAssumption ==
  /\ Builtins \subseteq Ids
  /\ Files \in Seq({Files[k] : k \in DOMAIN Files}) /\ IsInjective(Files)
  /\ None \notin Ids \cup Scanners /\ None \notin {Files[k] : k \in DOMAIN Files}

FileSet == {Files[k] : k \in DOMAIN Files}
Builtin == "builtin"
ASSUME BuiltinAssumption == Builtin \notin FileSet /\ Builtin # None

VARIABLES
  dir,        \* what `describe` of a file would answer: an id; None if it fails or is gone
  plugins,    \* Registry.plugins: for each id nothing, the built-in or the file of the external one
  mu,         \* Manager.mu: the rescan that holds it
  owned,      \* Manager.owned: the file of each external plugin as of the last rescan
  scans,      \* where each rescan is
  steady      \* history: since mu was taken no file changed and none was skipped

vars == <<dir, plugins, mu, owned, scans, steady>>

Nothing == [id \in Ids |-> None]
Idle == [pc |-> "idle", file |-> 1, discovered |-> <<>>, seen |-> Nothing, added |-> 0, removed |-> 0]
External == {id \in Ids : plugins[id] \in FileSet}
Present(m) == {id \in Ids : m[id] # None}

Init ==
  /\ dir \in [FileSet -> Ids \cup {None}]
  /\ plugins = [id \in Ids |-> IF id \in Builtins THEN Builtin ELSE None]
  /\ mu = None
  /\ owned = Nothing
  /\ scans = [s \in Scanners |-> Idle]
  /\ steady = TRUE

-----------------------------------------------------------------------------
(***************************************************************************)
(* The registry's operations, each under its lock.                         *)
(***************************************************************************)
Unregister(id) == plugins' = [plugins EXCEPT ![id] = None]
(* Panics if the id is taken: see RegisterNeverPanics. *)
Register(id, file) == plugins' = [plugins EXCEPT ![id] = file]

(***************************************************************************)
(* Rescan.                                                                 *)
(***************************************************************************)
At(s, pc) == scans[s].pc = pc
Current(s) == Head(scans[s].discovered)
Becomes(s, scan) == scans' = [scans EXCEPT ![s] = scan]
(* The loop over the discovered plugins goes on behind the current one. *)
Onward(scan) == [scan EXCEPT !.pc = "loop", !.discovered = Tail(@)]

\* Mutant: rescans do not exclude each other.
LockShared(s) ==
  /\ scans[s].pc = "idle"
  /\ mu' = s
  /\ Becomes(s, [Idle EXCEPT !.pc = "discover"])
  /\ steady' = TRUE
  /\ UNCHANGED <<dir, plugins, owned>>

Lock(s) ==
  /\ scans[s].pc = "idle" /\ mu = None
  /\ mu' = s
  /\ Becomes(s, [Idle EXCEPT !.pc = "discover"])
  /\ steady' = TRUE
  /\ UNCHANGED <<dir, plugins, owned>>

(* ReadDir fails: no plugin is discovered, with a warning. *)
ReadDirFails(s) ==
  /\ At(s, "discover") /\ scans[s].file = 1
  /\ Becomes(s, [scans[s] EXCEPT !.pc = "loop"])
  /\ steady' = FALSE
  /\ UNCHANGED <<dir, plugins, mu, owned>>

(* discoverDir: one file after the other is asked to describe itself; a file *)
(* that takes too long is skipped like one that fails.                       *)
Describe(s) ==
  /\ At(s, "discover") /\ scans[s].file <= Len(Files)
  /\ LET file == Files[scans[s].file]
         scan == [scans[s] EXCEPT !.file = @ + 1] IN
     \/ /\ dir[file] # None
        /\ Becomes(s, [scan EXCEPT !.discovered = Append(@, [id |-> dir[file], file |-> file])])
        /\ UNCHANGED steady
     \/ /\ Becomes(s, scan)
        /\ steady' = (steady /\ dir[file] = None)
  /\ UNCHANGED <<dir, plugins, mu, owned>>

Discovered(s) ==
  /\ At(s, "discover") /\ scans[s].file > Len(Files)
  /\ Becomes(s, [scans[s] EXCEPT !.pc = "loop"])
  /\ UNCHANGED <<dir, plugins, mu, owned, steady>>

\* Mutant: an id that is taken is skipped, whoever has it.
LookUpFree(s) ==
  /\ At(s, "loop") /\ scans[s].discovered # <<>>
  /\ Becomes(s, IF plugins[Current(s).id] = None
                THEN [scans[s] EXCEPT !.pc = "register", !.added = @ + 1]
                ELSE Onward(scans[s]))
  /\ UNCHANGED <<dir, plugins, mu, owned, steady>>

(* Get: the id is free, a built-in's (skipped) or an external plugin's. *)
LookUp(s) ==
  /\ At(s, "loop") /\ scans[s].discovered # <<>>
  /\ LET holder == plugins[Current(s).id]
         scan == scans[s] IN
     Becomes(s, CASE holder = Builtin -> Onward(scan)
                  [] holder = None -> [scan EXCEPT !.pc = "register", !.added = @ + 1]
                  [] OTHER -> [scan EXCEPT !.pc = "replace"])
  /\ UNCHANGED <<dir, plugins, mu, owned, steady>>

Replace(s) ==
  /\ At(s, "replace")
  /\ Unregister(Current(s).id)
  /\ Becomes(s, [scans[s] EXCEPT !.pc = "register",
                                 !.added = IF owned[Current(s).id] = None THEN @ + 1 ELSE @])
  /\ UNCHANGED <<dir, mu, owned, steady>>

RegisterIt(s) ==
  /\ At(s, "register")
  /\ Register(Current(s).id, Current(s).file)
  /\ Becomes(s, [Onward(scans[s]) EXCEPT !.seen[Current(s).id] = Current(s).file])
  /\ UNCHANGED <<dir, mu, owned, steady>>

(* What the last rescan owned and this one has not seen goes, in any order. *)
Vanished(s) == {id \in Present(owned) : scans[s].seen[id] = None}
Sweep(s) ==
  /\ At(s, "loop") /\ scans[s].discovered = <<>>
  /\ \E id \in Vanished(s) \cap Present(plugins) :
       /\ Unregister(id)
       /\ Becomes(s, [scans[s] EXCEPT !.removed = @ + 1])
  /\ UNCHANGED <<dir, mu, owned, steady>>

\* Mutant: the next rescan compares with an older one.
FinishForgetful(s) ==
  /\ At(s, "loop") /\ scans[s].discovered = <<>>
  /\ Vanished(s) \cap Present(plugins) = {}
  /\ mu' = None
  /\ Becomes(s, Idle)
  /\ UNCHANGED <<dir, plugins, owned, steady>>

Finish(s) ==
  /\ At(s, "loop") /\ scans[s].discovered = <<>>
  /\ Vanished(s) \cap Present(plugins) = {}
  /\ owned' = scans[s].seen
  /\ mu' = None
  /\ Becomes(s, Idle)
  /\ UNCHANGED <<dir, plugins, steady>>

(* Files are installed, replaced and removed by whoever owns the directory. *)
ChangeFile == \E f \in FileSet, id \in Ids \cup {None} :
  /\ dir[f] # id
  /\ dir' = [dir EXCEPT ![f] = id]
  /\ steady' = FALSE
  /\ UNCHANGED <<plugins, mu, owned, scans>>

Next ==
  \/ \E s \in Scanners :
       \/ Lock(s) \/ ReadDirFails(s) \/ Describe(s) \/ Discovered(s)
       \/ LookUp(s) \/ Replace(s) \/ RegisterIt(s) \/ Sweep(s) \/ Finish(s)
  \/ ChangeFile

Spec == Init /\ [][Next]_vars

-----------------------------------------------------------------------------
Scan == [pc : {"idle", "discover", "loop", "replace", "register"}, file : 1 .. Len(Files) + 1,
         discovered : Seq([id : Ids, file : FileSet]), seen : [Ids -> FileSet \cup {None}],
         added : Nat, removed : Nat]

TypeOK ==
  /\ dir \in [FileSet -> Ids \cup {None}]
  /\ plugins \in [Ids -> FileSet \cup {Builtin, None}]
  /\ mu \in Scanners \cup {None}
  /\ owned \in [Ids -> FileSet \cup {None}]
  /\ scans \in [Scanners -> Scan]
  /\ steady \in BOOLEAN

(***************************************************************************)
(* Register panics on an id that is taken, and a panic in a rescan would   *)
(* take the whole process down, since its lookup, its Unregister and its   *)
(* Register are three critical sections of the registry.                   *)
(***************************************************************************)
RegisterNeverPanics ==
  \A s \in Scanners : At(s, "register") => plugins[Current(s).id] = None

(***************************************************************************)
(* "Built-in plugins in the same registry are never touched" (Manager),    *)
(* whatever ids the executables claim.                                     *)
(***************************************************************************)
BuiltinsUntouched == \A id \in Ids : id \in Builtins <=> plugins[id] = Builtin

(***************************************************************************)
(* A plugin the last rescan installed can be looked up at any time, except *)
(* while a rescan replaces it or after one found it gone: lookups fail     *)
(* only there, and between rescans the registry holds exactly what the     *)
(* manager thinks it owns.                                                 *)
(***************************************************************************)
FoundUnlessReplaced ==
  /\ \A id \in Ids \ Builtins : plugins[id] = None => \/ owned[id] = None
                                       \/ \E s \in Scanners :
                                            \/ At(s, "register") /\ Current(s).id = id
                                            \/ At(s, "loop") /\ scans[s].discovered = <<>> /\ id \in Vanished(s)
  /\ mu = None => \A id \in Ids \ Builtins : plugins[id] = owned[id]

(***************************************************************************)
(* A rescan installs what is there: if no file changed and none was        *)
(* skipped during it, every id that is no built-in's ends up with the last *)
(* file, in the order of the names, that describes itself by it ("so       *)
(* id-collision resolution is stable"), and with nothing if there is none; *)
(* and unless two files claim one id, it reports how many plugins came and *)
(* went.                                                                   *)
(***************************************************************************)
Claiming(id) == {k \in DOMAIN Files : dir[Files[k]] = id}
Unique == \A id \in Ids : Cardinality(Claiming(id)) <= 1
InstallsWhatIsThere ==
  \A s \in Scanners : At(s, "loop") /\ scans[s].discovered = <<>> /\ Vanished(s) \cap Present(plugins) = {} /\ steady =>
    /\ \A id \in Ids \ Builtins :
         plugins[id] = IF Claiming(id) = {} THEN None ELSE Files[Max(Claiming(id))]
    /\ Unique => /\ scans[s].added = Cardinality(External \ Present(owned))
                 /\ scans[s].removed = Cardinality(Present(owned) \ External)
=============================================================================
