---------------------------- MODULE ControlProofs ---------------------------
(***************************************************************************)
(* The safety of rescans, for any number of files, plugins and rescans,    *)
(* whatever the files claim to be and however they change meanwhile; of    *)
(* the settings, for any number of tabs, tokens and saves; and of the      *)
(* config document, for any trackers, names and documents.                 *)
(***************************************************************************)
EXTENDS Control, FoldLemmas

\* Only the rescan that holds the manager's lock is at work.
OneRescan == \A s \in Scanners : scans[s].pc = "idle" <=> mu # s

\* Nothing but external plugins is owned, seen or about to be installed, and
\* what is about to be registered has no holder.
OnlyExternal ==
  /\ \A id \in Builtins : owned[id] = None
  /\ \A s \in Scanners :
       /\ \A id \in Builtins : scans[s].seen[id] = None
       /\ scans[s].pc \in {"replace", "register"} => scans[s].discovered # <<>> /\ Current(s) \in [id : Ids \ Builtins, file : FileSet]
       /\ scans[s].pc = "register" => plugins[Current(s).id] = None

\* Where the plugin registered for an id comes from while s rescans.
Busy(s, id) == scans[s].pc = "register" /\ Current(s).id = id
Swept(s, id) == scans[s].pc = "loop" /\ scans[s].discovered = <<>> /\ plugins[id] = None /\ owned[id] # None
Traced(s, id) ==
  /\ scans[s].seen[id] # None => Busy(s, id) \/ plugins[id] = scans[s].seen[id]
  /\ scans[s].seen[id] = None => Busy(s, id) \/ Swept(s, id) \/ plugins[id] = owned[id]

Accounted ==
  /\ mu = None => \A id \in Ids \ Builtins : plugins[id] = owned[id]
  /\ \A s \in Scanners : mu = s => \A id \in Ids \ Builtins : Traced(s, id)

IInv == TypeOK /\ OneRescan /\ BuiltinsUntouched /\ OnlyExternal /\ Accounted

LEMMA Constants ==
  /\ Builtins \subseteq Ids /\ None \notin Ids /\ None \notin Scanners /\ None \notin FileSet
  /\ Builtin \notin FileSet /\ Builtin # None
  /\ Files \in Seq(FileSet) /\ Len(Files) \in Nat
BY RescanAssumption, BuiltinAssumption DEF FileSet

LEMMA IdleScan == Idle \in Scan /\ Nothing \in [Ids -> FileSet \cup {None}]
<1>1. 1 \in 1 .. Len(Files) + 1
  BY Constants
<1> QED
  BY <1>1 DEF Idle, Nothing, Scan

LEMMA InitIInv == Init => IInv
<1> SUFFICES ASSUME Init PROVE IInv
  OBVIOUS
<1>1. TypeOK
  BY Constants, IdleScan DEF Init, TypeOK
<1>2. OneRescan
  BY Constants DEF Init, OneRescan, Idle
<1>3. BuiltinsUntouched
  BY Constants DEF Init, BuiltinsUntouched
<1>4. OnlyExternal
  BY Constants DEF Init, OnlyExternal, Idle, Nothing
<1>5. Accounted
  BY Constants DEF Init, Accounted, Nothing
<1> QED
  BY <1>1, <1>2, <1>3, <1>4, <1>5 DEF IInv

-----------------------------------------------------------------------------
(***************************************************************************)
(* Steps of the rescan s that leave the registry alone.  It is enough to   *)
(* look at s: every other rescan is idle.                                  *)
(***************************************************************************)
LEMMA Alone ==
  ASSUME IInv, NEW s \in Scanners, scans[s].pc # "idle"
  PROVE  mu = s /\ \A r \in Scanners \ {s} : scans[r].pc = "idle"
BY DEF IInv, OneRescan

\* A step of s to a scan that is not idle, of the right type and true to the registry.
LEMMA ScanMoves ==
  ASSUME IInv, NEW s \in Scanners, scans[s].pc # "idle",
         NEW scan \in Scan, scan.pc # "idle", Becomes(s, scan),
         plugins' \in [Ids -> FileSet \cup {Builtin, None}], steady' \in BOOLEAN,
         UNCHANGED <<dir, mu, owned>>,
         \A id \in Builtins : scan.seen[id] = None /\ plugins'[id] = plugins[id],
         \A id \in Ids \ Builtins : plugins'[id] # Builtin /\ Traced(s, id)',
         scan.pc \in {"replace", "register"} =>
           scan.discovered # <<>> /\ Head(scan.discovered) \in [id : Ids \ Builtins, file : FileSet],
         scan.pc = "register" => plugins'[Head(scan.discovered).id] = None
  PROVE  IInv'
<1>1. mu = s /\ \A r \in Scanners \ {s} : scans[r].pc = "idle"
  BY Alone
<1>2. scans'[s] = scan /\ \A r \in Scanners \ {s} : scans'[r] = scans[r]
  BY DEF IInv, TypeOK, Becomes
<1>3. TypeOK'
  BY DEF IInv, TypeOK, Becomes
<1>4. OneRescan'
  BY <1>1, <1>2 DEF IInv, OneRescan
<1>5. BuiltinsUntouched'
  BY Constants DEF IInv, BuiltinsUntouched
<1>6. OnlyExternal'
  <2>1. \A id \in Builtins : owned'[id] = None
    BY DEF IInv, OnlyExternal
  <2>2. ASSUME NEW r \in Scanners \ {s}
        PROVE  /\ \A id \in Builtins : scans'[r].seen[id] = None
               /\ scans'[r].pc = "idle"
    BY <1>1, <1>2 DEF IInv, OnlyExternal
  <2>3. /\ \A id \in Builtins : scans'[s].seen[id] = None
        /\ scans'[s].pc \in {"replace", "register"} =>
             scans'[s].discovered # <<>> /\ Current(s)' \in [id : Ids \ Builtins, file : FileSet]
        /\ scans'[s].pc = "register" => plugins'[Current(s)'.id] = None
    BY <1>2 DEF Current
  <2> QED
    BY <2>1, <2>2, <2>3 DEF OnlyExternal
<1>7. Accounted'
  BY <1>1, Constants DEF Accounted
<1> QED
  BY <1>3, <1>4, <1>5, <1>6, <1>7 DEF IInv

-----------------------------------------------------------------------------
(***************************************************************************)
(* One lemma per action.                                                   *)
(***************************************************************************)
LEMMA LockStep == ASSUME IInv, NEW s \in Scanners, Lock(s) PROVE IInv'
<1> DEFINE scan == [Idle EXCEPT !.pc = "discover"]
<1>1. /\ mu = None /\ mu' = s /\ steady' = TRUE /\ UNCHANGED <<dir, plugins, owned>>
      /\ scans' = [scans EXCEPT ![s] = scan]
  BY DEF Lock, Becomes
<1>2. /\ scan \in Scan /\ scan.pc = "discover" /\ scan.seen = Nothing
  BY IdleScan DEF Idle, Scan
<1>3. scans'[s] = scan /\ \A r \in Scanners \ {s} : scans'[r] = scans[r] /\ scans[r].pc = "idle"
  BY <1>1, Constants DEF IInv, TypeOK, OneRescan
<1>4. TypeOK'
  BY <1>1, <1>2 DEF IInv, TypeOK
<1>5. OneRescan'
  BY <1>1, <1>2, <1>3 DEF OneRescan
<1>6. BuiltinsUntouched'
  BY <1>1 DEF IInv, BuiltinsUntouched
<1>7. OnlyExternal'
  <2>1. \A id \in Builtins : scans'[s].seen[id] = None
    BY <1>2, <1>3, Constants DEF Nothing
  <2>2. scans'[s].pc \notin {"replace", "register"}
    BY <1>2, <1>3
  <2> QED
    BY <1>1, <1>3, <2>1, <2>2 DEF IInv, OnlyExternal
<1>8. Accounted'
  <2>1. ASSUME NEW id \in Ids \ Builtins PROVE Traced(s, id)'
    <3> HIDE DEF scan
    <3>1. scans'[s].seen[id] = None
      BY <1>2, <1>3, Constants DEF Nothing
    <3>2. plugins'[id] = owned'[id]
      BY <1>1 DEF IInv, Accounted
    <3> QED
      BY <3>1, <3>2 DEF Traced
  <2> QED
    BY <1>1, <2>1, Constants DEF Accounted
<1> QED
  BY <1>4, <1>5, <1>6, <1>7, <1>8 DEF IInv

\* What ScanMoves asks of the registry when nothing of it changes and the scan has
\* seen nothing new.
LEMMA TraceKept ==
  ASSUME IInv, NEW s \in Scanners, scans[s].pc # "idle", scans[s].pc # "register",
         NEW scan \in Scan, Becomes(s, scan), scan.seen = scans[s].seen,
         UNCHANGED <<plugins, owned>>,
         scans[s].pc = "loop" /\ scans[s].discovered = <<>> => scan.pc = "loop" /\ scan.discovered = <<>>,
         NEW id \in Ids \ Builtins
  PROVE  Traced(s, id)'
<1>1. mu = s /\ Traced(s, id)
  BY Alone DEF IInv, Accounted
<1>2. scans'[s] = scan
  BY DEF IInv, TypeOK, Becomes
<1> QED
  BY <1>1, <1>2 DEF Traced, Busy, Swept

LEMMA ReadDirFailsStep == ASSUME IInv, NEW s \in Scanners, ReadDirFails(s) PROVE IInv'
<1> DEFINE scan == [scans[s] EXCEPT !.pc = "loop"]
<1>1. /\ scans[s].pc = "discover" /\ Becomes(s, scan)
      /\ steady' = FALSE /\ UNCHANGED <<dir, plugins, mu, owned>>
  BY DEF ReadDirFails, At
<1>2. scans[s] \in Scan
  BY DEF IInv, TypeOK
<1>3. scan \in Scan /\ scan.pc = "loop" /\ scan.seen = scans[s].seen
  BY <1>2 DEF Scan
<1>4. \A id \in Ids \ Builtins : Traced(s, id)'
  <2> HIDE DEF scan
  <2> QED BY <1>1, <1>3, TraceKept
<1> QED
  <2> HIDE DEF scan
  <2>1. \A id \in Builtins : scan.seen[id] = None
    BY <1>3 DEF IInv, OnlyExternal
  <2>2. \A id \in Ids \ Builtins : plugins'[id] # Builtin
    BY <1>1 DEF IInv, BuiltinsUntouched
  <2>3. plugins' \in [Ids -> FileSet \cup {Builtin, None}] /\ steady' \in BOOLEAN
    BY <1>1 DEF IInv, TypeOK
  <2> QED
    BY <1>1, <1>3, <1>4, <2>1, <2>2, <2>3, ScanMoves

\* The registry as ScanMoves wants it, when it stays as it is.
LEMMA RegistryKept ==
  ASSUME IInv, UNCHANGED plugins
  PROVE  /\ plugins' \in [Ids -> FileSet \cup {Builtin, None}]
         /\ \A id \in Ids \ Builtins : plugins'[id] # Builtin
BY DEF IInv, TypeOK, BuiltinsUntouched

LEMMA DescribeStep == ASSUME IInv, NEW s \in Scanners, Describe(s) PROVE IInv'
<1>1. /\ scans[s].pc = "discover" /\ scans[s].file <= Len(Files)
      /\ UNCHANGED <<dir, plugins, mu, owned>>
  BY DEF Describe, At
<1>2. scans[s] \in Scan /\ steady \in BOOLEAN /\ dir \in [FileSet -> Ids \cup {None}]
  BY DEF IInv, TypeOK
<1>3. scans[s].file \in 1 .. Len(Files) /\ scans[s].file + 1 \in 1 .. Len(Files) + 1
  BY <1>1, <1>2, Constants DEF Scan
<1>4. Files[scans[s].file] \in FileSet
  BY <1>3, Constants
<1> DEFINE file == Files[scans[s].file]
           next == [scans[s] EXCEPT !.file = @ + 1]
           found == [next EXCEPT !.discovered = Append(@, [id |-> dir[file], file |-> file])]
<1>5. PICK scan : /\ Becomes(s, scan) /\ steady' \in BOOLEAN
                  /\ scan = next \/ (dir[file] # None /\ scan = found)
  <2>1. CASE dir[file] # None /\ Becomes(s, found) /\ UNCHANGED steady
    BY <1>2, <2>1
  <2>2. CASE Becomes(s, next) /\ steady' = (steady /\ dir[file] = None)
    BY <1>2, <2>2
  <2> QED
    BY <2>1, <2>2 DEF Describe
<1>6. scan \in Scan /\ scan.pc = "discover" /\ scan.seen = scans[s].seen
  <2>1. next \in Scan /\ next.pc = "discover" /\ next.seen = scans[s].seen /\ next.discovered = scans[s].discovered
    BY <1>1, <1>2, <1>3 DEF Scan
  <2>2. ASSUME dir[file] # None PROVE found \in Scan /\ found.pc = "discover" /\ found.seen = scans[s].seen
    <3>1. [id |-> dir[file], file |-> file] \in [id : Ids, file : FileSet]
      BY <1>2, <1>4, <2>2
    <3>2. Append(next.discovered, [id |-> dir[file], file |-> file]) \in Seq([id : Ids, file : FileSet])
      BY <3>1, <2>1 DEF Scan
    <3> HIDE DEF next
    <3> QED
      BY <2>1, <3>2 DEF Scan
  <2> QED
    BY <1>5, <2>1, <2>2
<1>7. \A id \in Ids \ Builtins : Traced(s, id)'
  BY <1>1, <1>5, <1>6, TraceKept
<1>8. \A id \in Builtins : scan.seen[id] = None
  BY <1>6 DEF IInv, OnlyExternal
<1> QED
  <2> HIDE DEF next, found, file
  <2> QED BY <1>1, <1>5, <1>6, <1>7, <1>8, RegistryKept, ScanMoves

LEMMA DiscoveredStep == ASSUME IInv, NEW s \in Scanners, Discovered(s) PROVE IInv'
<1> DEFINE scan == [scans[s] EXCEPT !.pc = "loop"]
<1>1. /\ scans[s].pc = "discover" /\ Becomes(s, scan)
      /\ UNCHANGED <<dir, plugins, mu, owned, steady>>
  BY DEF Discovered, At
<1>2. scans[s] \in Scan /\ steady \in BOOLEAN
  BY DEF IInv, TypeOK
<1>3. scan \in Scan /\ scan.pc = "loop" /\ scan.seen = scans[s].seen
  BY <1>2 DEF Scan
<1>4. \A id \in Builtins : scan.seen[id] = None
  BY <1>3 DEF IInv, OnlyExternal
<1> HIDE DEF scan
<1>5. \A id \in Ids \ Builtins : Traced(s, id)'
  BY <1>1, <1>3, TraceKept
<1> QED
  BY <1>1, <1>2, <1>3, <1>4, <1>5, RegistryKept, ScanMoves

LEMMA LookUpStep == ASSUME IInv, NEW s \in Scanners, LookUp(s) PROVE IInv'
<1>1. /\ scans[s].pc = "loop" /\ scans[s].discovered # <<>>
      /\ UNCHANGED <<dir, plugins, mu, owned, steady>>
  BY DEF LookUp, At
<1>2. scans[s] \in Scan /\ steady \in BOOLEAN
  BY DEF IInv, TypeOK
<1>3. /\ scans[s].discovered \in Seq([id : Ids, file : FileSet])
      /\ Current(s) \in [id : Ids, file : FileSet]
      /\ Tail(scans[s].discovered) \in Seq([id : Ids, file : FileSet])
  <2> DEFINE T == [id : Ids, file : FileSet]
  <2>1. scans[s].discovered \in Seq(T)
    BY <1>2 DEF Scan
  <2> HIDE DEF T
  <2>2. Head(scans[s].discovered) \in T /\ Tail(scans[s].discovered) \in Seq(T)
    BY <1>1, <2>1, HeadTailProperties
  <2> QED
    BY <2>1, <2>2 DEF T, Current
<1> DEFINE onward == Onward(scans[s])
           free == [scans[s] EXCEPT !.pc = "register", !.added = @ + 1]
           taken == [scans[s] EXCEPT !.pc = "replace"]
           id0 == Current(s).id
<1>4. /\ onward \in Scan /\ onward.pc = "loop" /\ onward.seen = scans[s].seen
      /\ free \in Scan /\ free.pc = "register" /\ free.seen = scans[s].seen
      /\ free.discovered = scans[s].discovered
      /\ taken \in Scan /\ taken.pc = "replace" /\ taken.seen = scans[s].seen
      /\ taken.discovered = scans[s].discovered
  <2>1. onward \in Scan /\ onward.pc = "loop" /\ onward.seen = scans[s].seen
    BY <1>2, <1>3 DEF Scan, Onward
  <2>2. /\ free \in Scan /\ free.pc = "register" /\ free.seen = scans[s].seen
        /\ free.discovered = scans[s].discovered
    <3>1. scans[s].added + 1 \in Nat
      BY <1>2 DEF Scan
    <3>2. free = [scans[s] EXCEPT !.pc = "register", !.added = scans[s].added + 1]
      OBVIOUS
    <3> HIDE DEF free
    <3> QED
      BY <1>2, <3>1, <3>2 DEF Scan
  <2>3. /\ taken \in Scan /\ taken.pc = "replace" /\ taken.seen = scans[s].seen
        /\ taken.discovered = scans[s].discovered
    BY <1>2 DEF Scan
  <2> QED
    BY <2>1, <2>2, <2>3
<1>5. \/ plugins[id0] = Builtin /\ Becomes(s, onward)
      \/ plugins[id0] = None /\ Becomes(s, free)
      \/ plugins[id0] # Builtin /\ plugins[id0] # None /\ Becomes(s, taken)
  BY Constants DEF LookUp
<1> HIDE DEF onward, free, taken, id0
<1>6. PICK scan \in Scan :
        /\ Becomes(s, scan) /\ scan.pc \in {"loop", "replace", "register"} /\ scan.seen = scans[s].seen
        /\ scan.pc \in {"replace", "register"} => plugins[id0] # Builtin /\ scan.discovered = scans[s].discovered
        /\ scan.pc = "register" => plugins[id0] = None
  BY <1>4, <1>5, Constants
<1>7. scan.pc \in {"replace", "register"} =>
        scan.discovered # <<>> /\ Head(scan.discovered) \in [id : Ids \ Builtins, file : FileSet]
  <2>1. SUFFICES ASSUME scan.pc \in {"replace", "register"}
                 PROVE  Current(s) \in [id : Ids \ Builtins, file : FileSet]
    BY <1>1, <1>6 DEF Current
  <2>2. id0 \in Ids \ Builtins
    BY <1>3, <1>6, <2>1, Constants DEF id0, IInv, BuiltinsUntouched
  <2> QED
    BY <1>3, <2>2 DEF id0
<1>8. \A id \in Ids \ Builtins : Traced(s, id)'
  BY <1>1, <1>6, TraceKept
<1>9. scan.pc = "register" => plugins'[Head(scan.discovered).id] = None
  BY <1>1, <1>6 DEF id0, Current
<1>10. \A id \in Builtins : scan.seen[id] = None
  BY <1>6 DEF IInv, OnlyExternal
<1> QED
  BY <1>1, <1>2, <1>6, <1>7, <1>8, <1>9, <1>10, RegistryKept, ScanMoves

\* Where a rescan is about to unregister or register an external plugin.
LEMMA CurrentIsExternal ==
  ASSUME IInv, NEW s \in Scanners, scans[s].pc \in {"replace", "register"}
  PROVE  /\ scans[s] \in Scan /\ scans[s].discovered # <<>>
         /\ Current(s) \in [id : Ids \ Builtins, file : FileSet]
         /\ plugins \in [Ids -> FileSet \cup {Builtin, None}] /\ steady \in BOOLEAN
         /\ \A id \in Ids \ Builtins : plugins[id] # Builtin /\ Traced(s, id)
         /\ \A id \in Builtins : scans[s].seen[id] = None
<1>1. mu = s
  BY Alone
<1> QED
  BY <1>1 DEF IInv, TypeOK, OnlyExternal, BuiltinsUntouched, Accounted

LEMMA ReplaceStep == ASSUME IInv, NEW s \in Scanners, Replace(s) PROVE IInv'
<1> DEFINE id0 == Current(s).id
           counted == IF owned[id0] = None THEN scans[s].added + 1 ELSE scans[s].added
           scan == [scans[s] EXCEPT !.pc = "register", !.added = counted]
<1>1. /\ scans[s].pc = "replace" /\ Becomes(s, scan) /\ plugins' = [plugins EXCEPT ![id0] = None]
      /\ UNCHANGED <<dir, mu, owned, steady>>
  BY DEF Replace, At, Unregister
<1>2. /\ scans[s] \in Scan /\ scans[s].discovered # <<>>
      /\ Current(s) \in [id : Ids \ Builtins, file : FileSet]
      /\ plugins \in [Ids -> FileSet \cup {Builtin, None}] /\ steady \in BOOLEAN
      /\ \A id \in Ids \ Builtins : plugins[id] # Builtin /\ Traced(s, id)
      /\ \A id \in Builtins : scans[s].seen[id] = None
  BY <1>1, CurrentIsExternal
<1>3. id0 \in Ids \ Builtins
  BY <1>2
<1>4. /\ scan \in Scan /\ scan.pc = "register" /\ scan.seen = scans[s].seen
      /\ scan.discovered = scans[s].discovered
  <2>1. counted \in Nat
    BY <1>2 DEF Scan
  <2> HIDE DEF counted
  <2> QED
    BY <1>2, <2>1 DEF Scan
<1> HIDE DEF scan
<1>5. scans'[s] = scan
  BY <1>1 DEF IInv, TypeOK, Becomes
<1>6. plugins'[id0] = None /\ \A id \in Ids \ {id0} : plugins'[id] = plugins[id]
  BY <1>1, <1>2, <1>3
<1>7. ASSUME NEW id \in Ids \ Builtins PROVE plugins'[id] # Builtin /\ Traced(s, id)'
  <2>1. CASE id = id0
    <3>1. Busy(s, id)'
      BY <1>4, <1>5, <2>1 DEF Busy, Current
    <3> QED
      BY <1>6, <2>1, <3>1, Constants DEF Traced
  <2>2. CASE id # id0
    <3>1. plugins'[id] = plugins[id] /\ ~Swept(s, id) /\ ~Busy(s, id)
      BY <1>1, <1>6, <2>2 DEF Swept, Busy
    <3> QED
      BY <1>1, <1>2, <1>4, <1>5, <3>1 DEF Traced
  <2> QED
    BY <2>1, <2>2
<1>8. plugins' \in [Ids -> FileSet \cup {Builtin, None}]
  BY <1>1, <1>2
<1>9. Head(scan.discovered) = Current(s)
  BY <1>4 DEF Current
<1>10. \A id \in Builtins : scan.seen[id] = None /\ plugins'[id] = plugins[id]
  BY <1>2, <1>3, <1>4, <1>6, Constants
<1> HIDE DEF id0
<1>11. plugins'[Head(scan.discovered).id] = None
  BY <1>6, <1>9 DEF id0
<1> QED
  BY <1>1, <1>2, <1>4, <1>7, <1>8, <1>9, <1>10, <1>11, ScanMoves

LEMMA RegisterStep == ASSUME IInv, NEW s \in Scanners, RegisterIt(s) PROVE IInv'
<1> DEFINE id0 == Current(s).id
           file0 == Current(s).file
           scan == [Onward(scans[s]) EXCEPT !.seen[id0] = file0]
<1>1. /\ scans[s].pc = "register" /\ Becomes(s, scan) /\ plugins' = [plugins EXCEPT ![id0] = file0]
      /\ UNCHANGED <<dir, mu, owned, steady>>
  BY DEF RegisterIt, At, Register
<1>2. /\ scans[s] \in Scan /\ scans[s].discovered # <<>>
      /\ Current(s) \in [id : Ids \ Builtins, file : FileSet]
      /\ plugins \in [Ids -> FileSet \cup {Builtin, None}] /\ steady \in BOOLEAN
      /\ \A id \in Ids \ Builtins : plugins[id] # Builtin /\ Traced(s, id)
      /\ \A id \in Builtins : scans[s].seen[id] = None
  BY <1>1, CurrentIsExternal
<1>3. id0 \in Ids \ Builtins /\ file0 \in FileSet
  BY <1>2
<1>4. scan \in Scan /\ scan.pc = "loop" /\ scan.seen = [scans[s].seen EXCEPT ![id0] = file0]
  <2> DEFINE T == [id : Ids, file : FileSet]
  <2>1. scans[s].discovered \in Seq(T) /\ scans[s].seen \in [Ids -> FileSet \cup {None}]
    BY <1>2 DEF Scan
  <2> HIDE DEF T
  <2>2. Tail(scans[s].discovered) \in Seq(T)
    BY <1>2, <2>1, HeadTailProperties
  <2> USE DEF T
  <2>3. scan = [scans[s] EXCEPT !.pc = "loop", !.discovered = Tail(scans[s].discovered),
                                !.seen = [scans[s].seen EXCEPT ![id0] = file0]]
    BY <1>2 DEF Onward, Scan
  <2>4. [scans[s].seen EXCEPT ![id0] = file0] \in [Ids -> FileSet \cup {None}]
    BY <1>3, <2>1
  <2> HIDE DEF scan, id0, file0
  <2> QED
    BY <1>2, <2>2, <2>3, <2>4 DEF Scan
<1> HIDE DEF scan
<1>5. scans'[s] = scan
  BY <1>1 DEF IInv, TypeOK, Becomes
<1>6. plugins'[id0] = file0 /\ \A id \in Ids \ {id0} : plugins'[id] = plugins[id]
  BY <1>1, <1>2, <1>3
<1>7. scan.seen[id0] = file0 /\ \A id \in Ids \ {id0} : scan.seen[id] = scans[s].seen[id]
  <2>1. scans[s].seen \in [Ids -> FileSet \cup {None}]
    BY <1>2 DEF Scan
  <2> QED
    BY <1>3, <1>4, <2>1
<1>8. ASSUME NEW id \in Ids \ Builtins PROVE plugins'[id] # Builtin /\ Traced(s, id)'
  <2>1. CASE id = id0
    BY <1>3, <1>5, <1>6, <1>7, <2>1, Constants DEF Traced
  <2>2. CASE id # id0
    <3>1. ~Swept(s, id) /\ ~Busy(s, id)
      BY <1>1, <2>2 DEF Swept, Busy
    <3> QED
      BY <1>1, <1>2, <1>5, <1>6, <1>7, <2>2, <3>1 DEF Traced
  <2> QED
    BY <2>1, <2>2
<1>9. plugins' \in [Ids -> FileSet \cup {Builtin, None}]
  BY <1>1, <1>2, <1>3
<1>10. \A id \in Builtins : scan.seen[id] = None /\ plugins'[id] = plugins[id]
  BY <1>2, <1>3, <1>6, <1>7, Constants
<1> QED
  BY <1>1, <1>2, <1>4, <1>8, <1>9, <1>10, ScanMoves

LEMMA SweepStep == ASSUME IInv, NEW s \in Scanners, Sweep(s) PROVE IInv'
<1> DEFINE scan == [scans[s] EXCEPT !.removed = @ + 1]
<1>1. PICK id0 \in Vanished(s) \cap Present(plugins) :
        plugins' = [plugins EXCEPT ![id0] = None] /\ Becomes(s, scan)
  BY DEF Sweep, Unregister
<1>2. /\ scans[s].pc = "loop" /\ scans[s].discovered = <<>>
      /\ UNCHANGED <<dir, mu, owned, steady>>
  BY DEF Sweep, At
<1>3. /\ id0 \in Ids \ Builtins /\ owned[id0] # None /\ scans[s].seen[id0] = None
  BY DEF Vanished, Present, IInv, OnlyExternal
<1>4. /\ scans[s] \in Scan /\ steady \in BOOLEAN /\ plugins \in [Ids -> FileSet \cup {Builtin, None}]
  BY DEF IInv, TypeOK
<1>5. /\ scan \in Scan /\ scan.pc = "loop" /\ scan.seen = scans[s].seen /\ scan.discovered = <<>>
  <2>1. scans[s].removed + 1 \in Nat
    BY <1>4 DEF Scan
  <2>2. scan = [scans[s] EXCEPT !.removed = scans[s].removed + 1]
    OBVIOUS
  <2> HIDE DEF scan
  <2> QED
    BY <1>2, <1>4, <2>1, <2>2 DEF Scan
<1> HIDE DEF scan
<1>6. scans'[s] = scan /\ mu = s
  BY <1>1, <1>2, Alone DEF IInv, TypeOK, Becomes
<1>7. plugins'[id0] = None /\ \A id \in Ids \ {id0} : plugins'[id] = plugins[id]
  BY <1>1, <1>3, <1>4
<1>8. ASSUME NEW id \in Ids \ Builtins PROVE plugins'[id] # Builtin /\ Traced(s, id)'
  <2>1. plugins[id] # Builtin /\ Traced(s, id) /\ ~Busy(s, id)
    BY <1>2, <1>6 DEF IInv, BuiltinsUntouched, Accounted, Busy
  <2>2. CASE id = id0
    BY <1>2, <1>3, <1>5, <1>6, <1>7, <2>2, Constants DEF Traced, Swept
  <2>3. CASE id # id0
    BY <1>2, <1>5, <1>6, <1>7, <2>1, <2>3 DEF Traced, Swept
  <2> QED
    BY <2>2, <2>3
<1>9. plugins' \in [Ids -> FileSet \cup {Builtin, None}]
  BY <1>1, <1>4
<1>10. \A id \in Builtins : scan.seen[id] = None /\ plugins'[id] = plugins[id]
  BY <1>3, <1>5, <1>7, Constants DEF IInv, OnlyExternal
<1> QED
  BY <1>1, <1>2, <1>4, <1>5, <1>8, <1>9, <1>10, ScanMoves

LEMMA FinishStep == ASSUME IInv, NEW s \in Scanners, Finish(s) PROVE IInv'
<1>1. /\ scans[s].pc = "loop" /\ scans[s].discovered = <<>> /\ Vanished(s) \cap Present(plugins) = {}
      /\ owned' = scans[s].seen /\ mu' = None /\ scans' = [scans EXCEPT ![s] = Idle]
      /\ UNCHANGED <<dir, plugins, steady>>
  BY DEF Finish, At, Becomes
<1>2. scans[s] \in Scan /\ mu = s /\ \A r \in Scanners \ {s} : scans[r].pc = "idle"
  BY <1>1, Alone DEF IInv, TypeOK
<1>3. TypeOK'
  BY <1>1, <1>2, IdleScan DEF IInv, TypeOK, Scan
<1>4. scans'[s] = Idle /\ \A r \in Scanners \ {s} : scans'[r] = scans[r]
  BY <1>1 DEF IInv, TypeOK
<1>5. OneRescan'
  BY <1>1, <1>2, <1>4, Constants DEF OneRescan, Idle
<1>6. BuiltinsUntouched'
  BY <1>1 DEF IInv, BuiltinsUntouched
<1>7. OnlyExternal'
  <2>1. Idle.pc = "idle" /\ Idle.seen = Nothing
    BY DEF Idle
  <2>2. \A id \in Builtins : Nothing[id] = None
    BY Constants DEF Nothing
  <2> QED
    BY <1>1, <1>2, <1>4, <2>1, <2>2 DEF IInv, OnlyExternal
<1>8. ASSUME NEW id \in Ids \ Builtins PROVE plugins[id] = scans[s].seen[id]
  <2>1. Traced(s, id) /\ ~Busy(s, id)
    BY <1>1, <1>2 DEF IInv, Accounted, Busy
  <2>2. scans[s].seen[id] = None => plugins[id] = None
    BY <1>1, <2>1 DEF Traced, Swept, Vanished, Present
  <2> QED
    BY <2>1, <2>2 DEF Traced
<1>9. Accounted'
  BY <1>1, <1>8, Constants DEF Accounted
<1> QED
  BY <1>3, <1>5, <1>6, <1>7, <1>9 DEF IInv

\* Neither a file that changes nor a stuttering step concerns the registry.
LEMMA ElsewhereStep ==
  ASSUME IInv, UNCHANGED <<plugins, mu, owned, scans>>,
         dir' \in [FileSet -> Ids \cup {None}], steady' \in BOOLEAN
  PROVE  IInv'
<1>1. TypeOK' /\ OneRescan' /\ BuiltinsUntouched'
  BY DEF IInv, TypeOK, OneRescan, BuiltinsUntouched
<1>2. OnlyExternal'
  BY DEF IInv, OnlyExternal, Current
<1>3. Accounted'
  BY DEF IInv, Accounted, Traced, Busy, Swept, Current
<1> QED
  BY <1>1, <1>2, <1>3 DEF IInv

LEMMA Inductive == IInv /\ [Next]_vars => IInv'
<1> SUFFICES ASSUME IInv, [Next]_vars PROVE IInv'
  OBVIOUS
<1>1. dir \in [FileSet -> Ids \cup {None}] /\ steady \in BOOLEAN
  BY DEF IInv, TypeOK
<1>2. ASSUME NEW s \in Scanners,
             \/ Lock(s) \/ ReadDirFails(s) \/ Describe(s) \/ Discovered(s)
             \/ LookUp(s) \/ Replace(s) \/ RegisterIt(s) \/ Sweep(s) \/ Finish(s)
      PROVE  IInv'
  BY <1>2, LockStep, ReadDirFailsStep, DescribeStep, DiscoveredStep, LookUpStep, ReplaceStep,
     RegisterStep, SweepStep, FinishStep
<1>3. CASE ChangeFile
  BY <1>1, <1>3, ElsewhereStep DEF ChangeFile
<1>4. CASE UNCHANGED vars
  BY <1>1, <1>4, ElsewhereStep DEF vars
<1> QED
  BY <1>2, <1>3, <1>4 DEF Next

-----------------------------------------------------------------------------
(***************************************************************************)
(* What a rescan found so far, when no file changed and none was skipped:  *)
(* the files up to c are dealt with, the newest of every id among them is  *)
(* the one the rescan has seen, and the discovered plugins are those of    *)
(* the files ks behind c, in the order of the files.                       *)
(***************************************************************************)
Claims(d, id) == {k \in DOMAIN Files : d[Files[k]] = id}
Newest(d, seen, id, c) ==
  IF seen[id] = None THEN \A k \in Claims(d, id) : c < k
  ELSE \E m \in Claims(d, id) : seen[id] = Files[m] /\ m <= c /\ \A k \in Claims(d, id) : k <= c => k <= m
Entry(d, k) == [id |-> d[Files[k]], file |-> Files[k]]
InOrder(d, file, discovered, seen, c, ks) ==
  /\ c \in Nat /\ c < file
  /\ ks \in Seq(DOMAIN Files) /\ Len(discovered) = Len(ks)
  /\ \A i \in 1 .. Len(ks) : c < ks[i] /\ ks[i] < file /\ d[Files[ks[i]]] # None /\ discovered[i] = Entry(d, ks[i])
  /\ \A i, j \in 1 .. Len(ks) : i < j => ks[i] < ks[j]
  /\ \A k \in DOMAIN Files : c < k /\ k < file /\ d[Files[k]] # None => \E i \in 1 .. Len(ks) : ks[i] = k
  /\ \A id \in Ids \ Builtins : Newest(d, seen, id, c)

LEMMA FileNumbers == DOMAIN Files = 1 .. Len(Files) /\ Len(Files) \in Nat /\ DOMAIN Files \subseteq Nat \ {0}
BY Constants

LEMMA OrderStarts ==
  ASSUME NEW d, NEW seen, \A id \in Ids \ Builtins : seen[id] = None
  PROVE  InOrder(d, 1, <<>>, seen, 0, <<>>)
<1>1. \A id \in Ids \ Builtins : Newest(d, seen, id, 0)
  BY FileNumbers DEF Newest, Claims
<1>2. <<>> \in Seq(DOMAIN Files) /\ Len(<<>>) = 0
  OBVIOUS
<1> QED
  BY <1>1, <1>2, FileNumbers DEF InOrder

LEMMA OrderSkips ==
  ASSUME NEW d, NEW file \in 1 .. Len(Files), NEW discovered, NEW seen, NEW c, NEW ks,
         InOrder(d, file, discovered, seen, c, ks), d[Files[file]] = None
  PROVE  InOrder(d, file + 1, discovered, seen, c, ks)
<1>1. \A k \in DOMAIN Files : k < file + 1 => k < file \/ k = file
  BY FileNumbers
<1>2. c < file + 1 /\ \A i \in 1 .. Len(ks) : ks[i] < file + 1
  BY FileNumbers DEF InOrder
<1> QED
  BY <1>1, <1>2 DEF InOrder

LEMMA OrderFinds ==
  ASSUME NEW d, NEW file \in 1 .. Len(Files), NEW T, NEW discovered \in Seq(T), NEW seen, NEW c, NEW ks,
         InOrder(d, file, discovered, seen, c, ks), d[Files[file]] # None, Entry(d, file) \in T
  PROVE  InOrder(d, file + 1, Append(discovered, Entry(d, file)), seen, c, Append(ks, file))
<1> DEFINE e == Entry(d, file)
           found == Append(discovered, e)
           ls == Append(ks, file)
<1>1. ks \in Seq(DOMAIN Files) /\ file \in DOMAIN Files /\ Len(discovered) = Len(ks) /\ Len(ks) \in Nat
      /\ \A i \in 1 .. Len(ks) : ks[i] \in Nat
  BY FileNumbers DEF InOrder
<1>2. /\ ls \in Seq(DOMAIN Files) /\ Len(ls) = Len(ks) + 1
      /\ \A i \in 1 .. Len(ks) : ls[i] = ks[i]
      /\ ls[Len(ks) + 1] = file
  BY <1>1, AppendProperties
<1> HIDE DEF e
<1>3. /\ Len(found) = Len(ks) + 1
      /\ \A i \in 1 .. Len(ks) : found[i] = discovered[i]
      /\ found[Len(ks) + 1] = e
  BY <1>1, AppendProperties DEF e
<1> HIDE DEF found, ls
<1>4. \A i \in 1 .. Len(ls) : i \in 1 .. Len(ks) \/ i = Len(ks) + 1
  BY <1>1, <1>2
<1>5. c \in Nat /\ c < file + 1 /\ file < file + 1 /\ c < file
  BY DEF InOrder
<1>6. \A i \in 1 .. Len(ls) : c < ls[i] /\ ls[i] < file + 1 /\ d[Files[ls[i]]] # None /\ found[i] = Entry(d, ls[i])
  <2> TAKE i \in 1 .. Len(ls)
  <2>1. CASE i \in 1 .. Len(ks)
    BY <1>1, <1>2, <1>3, <2>1 DEF InOrder
  <2>2. CASE i = Len(ks) + 1
    BY <1>2, <1>3, <1>5, <2>2 DEF e
  <2> QED
    BY <1>4, <2>1, <2>2
<1>7. \A i, j \in 1 .. Len(ls) : i < j => ls[i] < ls[j]
  <2> SUFFICES ASSUME NEW i \in 1 .. Len(ls), NEW j \in 1 .. Len(ls), i < j PROVE ls[i] < ls[j]
    OBVIOUS
  <2>1. i \in 1 .. Len(ks)
    BY <1>1, <1>2
  <2>2. CASE j \in 1 .. Len(ks)
    BY <1>2, <2>1, <2>2 DEF InOrder
  <2>3. CASE j = Len(ks) + 1
    BY <1>2, <2>1, <2>3 DEF InOrder
  <2> QED
    BY <1>4, <2>2, <2>3
<1>8. ASSUME NEW k \in DOMAIN Files, c < k, k < file + 1, d[Files[k]] # None PROVE \E i \in 1 .. Len(ls) : ls[i] = k
  <2>1. CASE k = file
    <3>1. Len(ks) + 1 \in 1 .. Len(ls)
      BY <1>1, <1>2
    <3> QED
      BY <1>2, <2>1, <3>1
  <2>2. CASE k < file
    <3>1. PICK i \in 1 .. Len(ks) : ks[i] = k
      BY <1>8, <2>2 DEF InOrder
    <3>2. i \in 1 .. Len(ls)
      BY <1>1, <1>2
    <3> QED
      BY <1>2, <3>1, <3>2
  <2> QED
    BY <1>8, <2>1, <2>2, FileNumbers
<1>9. Len(found) = Len(ls) /\ \A id \in Ids \ Builtins : Newest(d, seen, id, c)
  BY <1>2, <1>3 DEF InOrder
<1>10. InOrder(d, file + 1, found, seen, c, ls)
  BY <1>2, <1>5, <1>6, <1>7, <1>8, <1>9 DEF InOrder
<1> QED
  BY <1>10 DEF found, ls, e

\* The current plugin is dealt with.
LEMMA OrderDrops ==
  ASSUME NEW d, NEW file \in Nat, NEW T, NEW discovered \in Seq(T), discovered # <<>>, NEW seen, NEW c, NEW ks,
         InOrder(d, file, discovered, seen, c, ks),
         NEW seen2, \A id \in Ids \ Builtins : seen2[id] = IF id = Head(discovered).id THEN Head(discovered).file ELSE seen[id]
  PROVE  /\ InOrder(d, file, Tail(discovered), seen2, ks[1], Tail(ks))
         /\ Head(discovered) = Entry(d, ks[1]) /\ ks[1] \in Claims(d, Head(discovered).id) /\ c < ks[1]
<1> DEFINE rest == Tail(discovered)
           ls == Tail(ks)
           k0 == ks[1]
<1>1. ks \in Seq(DOMAIN Files) /\ Len(discovered) = Len(ks) /\ Len(ks) \in Nat \ {0} /\ ks # <<>>
      /\ \A i \in 1 .. Len(ks) : ks[i] \in Nat
  BY FileNumbers DEF InOrder
<1>2. /\ ls \in Seq(DOMAIN Files) /\ Len(ls) = Len(ks) - 1
      /\ \A i \in 1 .. Len(ls) : ls[i] = ks[i + 1]
  BY <1>1, HeadTailProperties
<1>3. /\ Len(rest) = Len(ks) - 1
      /\ \A i \in 1 .. Len(rest) : rest[i] = discovered[i + 1]
      /\ Head(discovered) = discovered[1]
  BY <1>1, HeadTailProperties
<1> HIDE DEF rest, ls
<1>4. 1 \in 1 .. Len(ks) /\ \A i \in 1 .. Len(ls) : i + 1 \in 1 .. Len(ks) /\ 1 < i + 1
  BY <1>1, <1>2
<1>5. k0 \in DOMAIN Files /\ k0 \in Nat /\ c \in Nat /\ c < k0 /\ k0 < file /\ d[Files[k0]] # None /\ discovered[1] = Entry(d, k0)
  BY <1>1, <1>4 DEF InOrder
<1>6. \A i \in 1 .. Len(ks) : i # 1 => k0 < ks[i]
  BY <1>1, <1>4 DEF InOrder
<1> HIDE DEF k0
<1>7. \A i \in 1 .. Len(ls) : k0 < ls[i] /\ ls[i] < file /\ d[Files[ls[i]]] # None /\ rest[i] = Entry(d, ls[i])
  <2> TAKE i \in 1 .. Len(ls)
  <2>1. i + 1 \in 1 .. Len(ks) /\ ls[i] = ks[i + 1] /\ rest[i] = discovered[i + 1] /\ i + 1 # 1
    BY <1>1, <1>2, <1>3, <1>4
  <2> QED
    BY <1>6, <2>1 DEF InOrder
<1>8. \A i, j \in 1 .. Len(ls) : i < j => ls[i] < ls[j]
  <2> SUFFICES ASSUME NEW i \in 1 .. Len(ls), NEW j \in 1 .. Len(ls), i < j PROVE ls[i] < ls[j]
    OBVIOUS
  <2>1. i + 1 \in 1 .. Len(ks) /\ j + 1 \in 1 .. Len(ks) /\ i + 1 < j + 1
    BY <1>1, <1>2
  <2> QED
    BY <1>2, <2>1 DEF InOrder
<1>9. ASSUME NEW k \in DOMAIN Files, c < k, k < k0, d[Files[k]] # None PROVE FALSE
  <2>1. k < file /\ k \in Nat
    BY <1>5, <1>9, FileNumbers, DOMAIN Files \subseteq Nat DEF InOrder
  <2>2. PICK i \in 1 .. Len(ks) : ks[i] = k
    BY <1>9, <2>1 DEF InOrder
  <2> QED
    BY <1>5, <1>6, <1>9, <2>1, <2>2 DEF k0
<1>10. ASSUME NEW k \in DOMAIN Files, k0 < k, k < file, d[Files[k]] # None PROVE \E i \in 1 .. Len(ls) : ls[i] = k
  <2>1. c < k /\ k \in Nat
    BY <1>5, <1>10, FileNumbers
  <2>2. PICK i \in 1 .. Len(ks) : ks[i] = k
    BY <1>10, <2>1 DEF InOrder
  <2>3. i # 1
    BY <1>5, <1>10, <2>1, <2>2 DEF k0
  <2>4. i - 1 \in 1 .. Len(ls) /\ (i - 1) + 1 = i
    BY <1>1, <1>2, <2>3
  <2>5. ls[i - 1] = ks[(i - 1) + 1]
    BY <1>2, <2>4
  <2> QED
    BY <2>2, <2>4, <2>5
<1>11. ASSUME NEW id \in Ids \ Builtins PROVE Newest(d, seen2, id, k0)
  <2>1. Newest(d, seen, id, c) /\ id # None
    BY Constants DEF InOrder
  <2>2. Head(discovered).id = d[Files[k0]] /\ Head(discovered).file = Files[k0]
    BY <1>3, <1>5 DEF Entry
  <2>3. \A k \in Claims(d, id) : k \in Nat /\ k \in DOMAIN Files /\ d[Files[k]] = id /\ d[Files[k]] # None
    BY <2>1, FileNumbers DEF Claims
  <2>4. \A k \in Claims(d, id) : k <= c \/ k = k0 \/ k0 < k
    BY <1>5, <1>9, <2>3
  <2>5. CASE id = Head(discovered).id
    <3>1. seen2[id] = Files[k0] /\ Files[k0] # None
      BY <1>5, <2>2, <2>5, Constants DEF FileSet
    <3>2. k0 \in Claims(d, id) /\ k0 <= k0 /\ \A k \in Claims(d, id) : k <= k0 => k <= k0
      BY <1>5, <2>2, <2>5 DEF Claims
    <3> QED
      BY <3>1, <3>2 DEF Newest
  <2>6. CASE id # Head(discovered).id
    <3>1. k0 \notin Claims(d, id) /\ seen2[id] = seen[id]
      BY <2>2, <2>6 DEF Claims
    <3>2. CASE seen[id] = None
      BY <1>5, <2>1, <2>3, <2>4, <3>1, <3>2 DEF Newest
    <3>3. CASE seen[id] # None
      <4>1. PICK m \in Claims(d, id) : seen[id] = Files[m] /\ m <= c /\ \A k \in Claims(d, id) : k <= c => k <= m
        BY <2>1, <3>3 DEF Newest
      <4>2. m <= k0 /\ \A k \in Claims(d, id) : k <= k0 => k <= m
        BY <1>5, <2>3, <2>4, <3>1, <4>1
      <4> QED
        BY <3>1, <3>3, <4>1, <4>2 DEF Newest
    <3> QED
      BY <3>2, <3>3
  <2> QED
    BY <2>5, <2>6
<1>12. InOrder(d, file, rest, seen2, k0, ls)
  BY <1>1, <1>2, <1>3, <1>5, <1>7, <1>8, <1>10, <1>11 DEF InOrder
<1>13. Head(discovered) = Entry(d, k0) /\ k0 \in Claims(d, Head(discovered).id)
  BY <1>3, <1>5 DEF Entry, Claims
<1> QED
  BY <1>5, <1>12, <1>13 DEF rest, ls, k0

\* All files are dealt with: the last one that claims an id has it.
LEMMA OrderEnds ==
  ASSUME NEW d, NEW seen, NEW c, NEW ks, InOrder(d, Len(Files) + 1, <<>>, seen, c, ks),
         NEW id \in Ids \ Builtins
  PROVE  seen[id] = IF Claims(d, id) = {} THEN None ELSE Files[Max(Claims(d, id))]
<1>1. Len(ks) = 0 /\ Newest(d, seen, id, c) /\ id # None /\ c \in Nat
  BY Constants DEF InOrder
<1>2. \A k \in Claims(d, id) : k \in Nat /\ k \in DOMAIN Files /\ k < Len(Files) + 1 /\ d[Files[k]] # None
  BY <1>1, FileNumbers DEF Claims
<1>3. \A k \in Claims(d, id) : k <= c
  BY <1>1, <1>2 DEF InOrder
<1>4. CASE seen[id] = None
  BY <1>1, <1>2, <1>3, <1>4 DEF Newest
<1>5. CASE seen[id] # None
  <2>1. PICK m \in Claims(d, id) : seen[id] = Files[m] /\ \A k \in Claims(d, id) : k <= m
    BY <1>1, <1>3, <1>5 DEF Newest
  <2>2. \A x \in Claims(d, id) : (\A k \in Claims(d, id) : x >= k) => x = m
    BY <1>2, <2>1
  <2>3. Max(Claims(d, id)) = m
    BY <1>2, <2>1, <2>2 DEF Max
  <2> QED
    BY <2>1, <2>3
<1> QED
  BY <1>4, <1>5

-----------------------------------------------------------------------------
(***************************************************************************)
(* What a rescan counts: the plugins that came, if no two files claim one  *)
(* id, and those that are gone.                                            *)
(***************************************************************************)
New(s) == {id \in Ids : owned[id] = None /\ (scans[s].seen[id] # None \/ Busy(s, id))}
Gone(s) == {id \in Ids : owned[id] # None /\ scans[s].seen[id] = None /\ plugins[id] = None /\ ~Busy(s, id)}
Told(s) ==
  /\ IsFiniteSet(Gone(s)) /\ scans[s].removed = Cardinality(Gone(s))
  /\ steady /\ scans[s].pc # "discover" => scans[s].file = Len(Files) + 1
  /\ steady => \E c, ks : InOrder(dir, scans[s].file, scans[s].discovered, scans[s].seen, c, ks)
  /\ steady /\ Unique => IsFiniteSet(New(s)) /\ scans[s].added = Cardinality(New(s))

CInv == IInv /\ \A s \in Scanners : mu = s => Told(s)

LEMMA OneClaim ==
  ASSUME Unique, NEW id \in Ids, NEW k \in Claims(dir, id), NEW m \in Claims(dir, id)
  PROVE  k = m
<1> DEFINE S == Claims(dir, id)
<1>1. IsFiniteSet(S) /\ Cardinality(S) <= 1 /\ Cardinality(S) \in Nat
  <2>1. S \subseteq 1 .. Len(Files) /\ IsFiniteSet(1 .. Len(Files))
    BY FileNumbers, FS_Interval DEF Claims
  <2>2. IsFiniteSet(S)
    BY <2>1, FS_Subset
  <2>3. S = Claiming(id)
    BY DEF Claims, Claiming
  <2> QED
    BY <2>2, <2>3, FS_CardinalityType DEF Unique
<1> HIDE DEF S
<1>2. SUFFICES ASSUME k # m PROVE FALSE
  OBVIOUS
<1>3. {k, m} \subseteq S
  BY DEF S
<1>4. IsFiniteSet({k}) /\ Cardinality({k}) = 1
  BY FS_Singleton
<1>5. IsFiniteSet({k} \cup {m}) /\ Cardinality({k} \cup {m}) = 2
  BY <1>2, <1>4, FS_AddElement
<1>6. {k} \cup {m} = {k, m}
  OBVIOUS
<1>7. Cardinality({k, m}) <= Cardinality(S)
  BY <1>1, <1>3, FS_Subset
<1> QED
  BY <1>1, <1>5, <1>6, <1>7

\* Only the rescan that holds the lock has anything to tell.
LEMMA ItTells ==
  ASSUME NEW s \in Scanners, mu' = s, Told(s)', IInv'
  PROVE  CInv'
BY DEF CInv

\* The state of a rescan that is at work.
LEMMA AtWork ==
  ASSUME CInv, NEW s \in Scanners, scans[s].pc # "idle"
  PROVE  /\ mu = s /\ Told(s) /\ IInv /\ scans[s] \in Scan /\ scans \in [Scanners -> Scan]
         /\ \A id \in Ids \ Builtins : Traced(s, id)
         /\ \A id \in Builtins : owned[id] = None /\ scans[s].seen[id] = None
         /\ scans[s].seen \in [Ids -> FileSet \cup {None}] /\ owned \in [Ids -> FileSet \cup {None}]
<1>1. mu = s
  BY Alone DEF CInv
<1> QED
  BY <1>1 DEF CInv, IInv, TypeOK, Accounted, OnlyExternal, Scan

\* A step after which the rescan has counted and traced the same.
LEMMA TellsTheSame ==
  ASSUME CInv, NEW s \in Scanners, scans[s].pc # "idle", mu' = s, IInv',
         scans'[s].seen = scans[s].seen, scans'[s].added = scans[s].added, scans'[s].removed = scans[s].removed,
         UNCHANGED <<plugins, owned>>, steady' => steady /\ UNCHANGED dir,
         \A id \in Ids : Busy(s, id)' <=> Busy(s, id),
         steady' /\ scans'[s].pc # "discover" => scans'[s].file = Len(Files) + 1,
         steady' => \E c, ks : InOrder(dir, scans'[s].file, scans'[s].discovered, scans[s].seen, c, ks)
  PROVE  CInv'
<1>1. Told(s)
  BY AtWork
<1>2. Gone(s)' = Gone(s) /\ New(s)' = New(s)
  BY DEF Gone, New
<1>3. steady' /\ Unique' => Unique
  BY DEF Unique, Claiming
<1>4. Told(s)'
  <2>1. IsFiniteSet(Gone(s)') /\ scans'[s].removed = Cardinality(Gone(s)')
    BY <1>1, <1>2 DEF Told
  <2>2. steady' /\ Unique' => IsFiniteSet(New(s)') /\ scans'[s].added = Cardinality(New(s)')
    BY <1>1, <1>2, <1>3 DEF Told
  <2>3. steady' => \E c, ks : InOrder(dir', scans'[s].file, scans'[s].discovered, scans'[s].seen, c, ks)
    OBVIOUS
  <2> QED
    BY <2>1, <2>2, <2>3 DEF Told
<1> QED
  BY <1>4, ItTells

LEMMA LockTells == ASSUME CInv, NEW s \in Scanners, Lock(s) PROVE CInv'
<1>1. /\ mu = None /\ mu' = s /\ steady' = TRUE /\ UNCHANGED <<dir, plugins, owned>>
      /\ scans' = [scans EXCEPT ![s] = [Idle EXCEPT !.pc = "discover"]] /\ IInv /\ IInv'
  BY LockStep DEF Lock, Becomes, CInv
<1>2. /\ scans'[s].pc = "discover" /\ scans'[s].seen = Nothing /\ scans'[s].file = 1
      /\ scans'[s].discovered = <<>> /\ scans'[s].added = 0 /\ scans'[s].removed = 0
  BY <1>1 DEF IInv, TypeOK, Idle
<1>3. \A id \in Ids : ~Busy(s, id)' /\ scans'[s].seen[id] = None
  BY <1>2 DEF Busy, Nothing
<1>4. \A id \in Ids : owned[id] = None \/ plugins[id] # None
  BY <1>1 DEF IInv, Accounted, OnlyExternal
<1>5. Gone(s)' = {} /\ New(s)' = {}
  BY <1>1, <1>3, <1>4 DEF Gone, New
<1>6. InOrder(dir', scans'[s].file, scans'[s].discovered, scans'[s].seen, 0, <<>>)
  BY <1>2, <1>3, OrderStarts
<1>7. Told(s)'
  BY <1>1, <1>2, <1>5, <1>6, FS_EmptySet DEF Told
<1> QED
  BY <1>1, <1>7, ItTells

LEMMA ReadDirFailsTells == ASSUME CInv, NEW s \in Scanners, ReadDirFails(s) PROVE CInv'
<1>1. /\ scans[s].pc = "discover" /\ scans' = [scans EXCEPT ![s] = [scans[s] EXCEPT !.pc = "loop"]]
      /\ steady' = FALSE /\ UNCHANGED <<dir, plugins, mu, owned>> /\ IInv'
  BY ReadDirFailsStep DEF ReadDirFails, At, Becomes, CInv
<1>2. scans[s] \in Scan /\ scans \in [Scanners -> Scan] /\ mu = s
  BY <1>1, AtWork
<1>3. /\ scans'[s].pc = "loop" /\ scans'[s].seen = scans[s].seen
      /\ scans'[s].added = scans[s].added /\ scans'[s].removed = scans[s].removed
  BY <1>1, <1>2 DEF Scan
<1>4. \A id \in Ids : Busy(s, id)' <=> Busy(s, id)
  BY <1>1, <1>3 DEF Busy
<1> QED
  BY <1>1, <1>2, <1>3, <1>4, TellsTheSame

LEMMA DiscoveredTells == ASSUME CInv, NEW s \in Scanners, Discovered(s) PROVE CInv'
<1>1. /\ scans[s].pc = "discover" /\ scans' = [scans EXCEPT ![s] = [scans[s] EXCEPT !.pc = "loop"]]
      /\ scans[s].file > Len(Files) /\ UNCHANGED <<dir, plugins, mu, owned, steady>> /\ IInv'
  BY DiscoveredStep DEF Discovered, At, Becomes, CInv
<1>2. scans[s] \in Scan /\ scans \in [Scanners -> Scan] /\ mu = s /\ Told(s)
  BY <1>1, AtWork
<1>3. /\ scans'[s].pc = "loop" /\ scans'[s].seen = scans[s].seen
      /\ scans'[s].added = scans[s].added /\ scans'[s].removed = scans[s].removed
      /\ scans'[s].file = scans[s].file /\ scans'[s].discovered = scans[s].discovered
      /\ scans[s].file \in 1 .. Len(Files) + 1
  BY <1>1, <1>2 DEF Scan
<1>4. \A id \in Ids : Busy(s, id)' <=> Busy(s, id)
  BY <1>1, <1>3 DEF Busy
<1>5. scans'[s].file = Len(Files) + 1
  BY <1>1, <1>3, FileNumbers
<1>6. steady' => \E c, ks : InOrder(dir, scans'[s].file, scans'[s].discovered, scans[s].seen, c, ks)
  BY <1>1, <1>2, <1>3 DEF Told
<1> QED
  BY <1>1, <1>2, <1>3, <1>4, <1>5, <1>6, TellsTheSame

LEMMA DescribeTells == ASSUME CInv, NEW s \in Scanners, Describe(s) PROVE CInv'
<1> DEFINE file == scans[s].file
           e == Entry(dir, file)
           next == [scans[s] EXCEPT !.file = @ + 1]
           found == [next EXCEPT !.discovered = Append(@, [id |-> dir[Files[file]], file |-> Files[file]])]
<1>1. /\ scans[s].pc = "discover" /\ file <= Len(Files) /\ UNCHANGED <<dir, plugins, mu, owned>> /\ IInv'
      /\ \/ dir[Files[file]] # None /\ scans' = [scans EXCEPT ![s] = found] /\ UNCHANGED steady
         \/ scans' = [scans EXCEPT ![s] = next] /\ steady' = (steady /\ dir[Files[file]] = None)
  BY DescribeStep DEF Describe, At, Becomes, CInv
<1>2. scans[s] \in Scan /\ scans \in [Scanners -> Scan] /\ mu = s /\ Told(s) /\ dir \in [FileSet -> Ids \cup {None}]
      /\ steady \in BOOLEAN
  BY <1>1, AtWork DEF IInv, TypeOK
<1>3. file \in 1 .. Len(Files) /\ Files[file] \in FileSet
  BY <1>1, <1>2, FileNumbers DEF Scan, FileSet
<1>4. /\ next.pc = "discover" /\ next.seen = scans[s].seen /\ next.added = scans[s].added
      /\ next.removed = scans[s].removed /\ next.file = file + 1 /\ next.discovered = scans[s].discovered
  BY <1>1, <1>2 DEF Scan
<1>5. /\ found.pc = "discover" /\ found.seen = scans[s].seen /\ found.added = scans[s].added
      /\ found.removed = scans[s].removed /\ found.file = file + 1 /\ found.discovered = Append(scans[s].discovered, e)
  BY <1>1, <1>2 DEF Scan, Entry
<1>6. scans'[s] = next \/ scans'[s] = found
  BY <1>1, <1>2
<1>7. steady' => /\ steady
                 /\ \E c, ks : InOrder(dir, scans'[s].file, scans'[s].discovered, scans[s].seen, c, ks)
  <2> SUFFICES ASSUME steady' PROVE steady /\ \E c, ks : InOrder(dir, scans'[s].file, scans'[s].discovered, scans[s].seen, c, ks)
    OBVIOUS
  <2>1. steady
    BY <1>1, <1>2
  <2>2. PICK c, ks : InOrder(dir, file, scans[s].discovered, scans[s].seen, c, ks)
    BY <1>2, <2>1 DEF Told
  <2>3. CASE dir[Files[file]] # None /\ scans'[s] = found
    <3> DEFINE T == [id : Ids, file : FileSet]
    <3>1. scans[s].discovered \in Seq(T) /\ e \in T
      BY <1>2, <1>3, <2>3 DEF Scan, Entry
    <3> HIDE DEF T, found, next, e
    <3>2. InOrder(dir, file + 1, Append(scans[s].discovered, e), scans[s].seen, c, Append(ks, file))
      <4>1. e = Entry(dir, file) /\ Entry(dir, file) \in T
        BY <3>1 DEF e
      <4> QED
        BY <1>3, <2>2, <2>3, <3>1, <4>1, OrderFinds
    <3> QED
      BY <1>5, <2>1, <2>3, <3>2
  <2>4. CASE dir[Files[file]] = None /\ scans'[s] = next
    <3> HIDE DEF found, next
    <3>1. InOrder(dir, file + 1, scans[s].discovered, scans[s].seen, c, ks)
      BY <1>3, <2>2, <2>4, OrderSkips
    <3> QED
      BY <1>4, <2>1, <2>4, <3>1
  <2>5. \/ dir[Files[file]] # None /\ scans'[s] = found
        \/ dir[Files[file]] = None /\ scans'[s] = next
    <3> HIDE DEF found, next
    <3> QED
      BY <1>1, <1>2
  <2> QED
    BY <2>3, <2>4, <2>5
<1> HIDE DEF found, next
<1>8. /\ scans'[s].pc = "discover" /\ scans'[s].seen = scans[s].seen /\ scans'[s].added = scans[s].added
      /\ scans'[s].removed = scans[s].removed
  BY <1>4, <1>5, <1>6
<1>9. \A id \in Ids : Busy(s, id)' <=> Busy(s, id)
  BY <1>1, <1>8 DEF Busy
<1> QED
  BY <1>1, <1>2, <1>7, <1>8, <1>9, TellsTheSame

\* The plugin the rescan looks at, when no file changed: seen before only if two files claim its id.
LEMMA CurrentOne ==
  ASSUME CInv, NEW s \in Scanners, scans[s].pc \in {"loop", "replace", "register"}, scans[s].discovered # <<>>, steady,
         NEW seen2, \A id \in Ids \ Builtins : seen2[id] = IF id = Current(s).id THEN Current(s).file ELSE scans[s].seen[id]
  PROVE  /\ \E c, ks : InOrder(dir, scans[s].file, Tail(scans[s].discovered), seen2, c, ks)
         /\ Unique /\ Current(s).id \in Ids \ Builtins => scans[s].seen[Current(s).id] = None
<1>1. Told(s) /\ scans[s] \in Scan
  BY AtWork
<1> DEFINE T == [id : Ids, file : FileSet]
           discovered == scans[s].discovered
           file == scans[s].file
           seen == scans[s].seen
<1>2. discovered \in Seq(T) /\ file \in Nat
  BY <1>1, FileNumbers DEF Scan
<1>3. PICK c, ks : InOrder(dir, file, discovered, seen, c, ks)
  BY <1>1 DEF Told
<1>4. \A id \in Ids \ Builtins : seen2[id] = IF id = Head(discovered).id THEN Head(discovered).file ELSE seen[id]
  BY DEF Current
<1> HIDE DEF T, discovered, file, seen
<1>5. discovered # <<>>
  BY DEF discovered
<1>6. /\ InOrder(dir, file, Tail(discovered), seen2, ks[1], Tail(ks))
      /\ ks[1] \in Claims(dir, Head(discovered).id) /\ c < ks[1]
  BY <1>2, <1>3, <1>4, <1>5, OrderDrops
<1>7. ASSUME Unique, Head(discovered).id \in Ids \ Builtins, seen[Head(discovered).id] # None PROVE FALSE
  <2> DEFINE id0 == Head(discovered).id
  <2>1. Newest(dir, seen, id0, c)
    BY <1>3, <1>7 DEF InOrder
  <2>2. PICK m \in Claims(dir, id0) : m <= c
    BY <1>7, <2>1 DEF Newest
  <2>3. m = ks[1]
    BY <1>6, <1>7, <2>2, OneClaim
  <2>4. m \in Nat /\ c \in Nat
    BY <1>3, <2>2, FileNumbers DEF InOrder, Claims
  <2> QED
    BY <1>6, <2>2, <2>3, <2>4
<1> QED
  BY <1>6, <1>7 DEF discovered, file, seen, Current

LEMMA LookUpTells == ASSUME CInv, NEW s \in Scanners, LookUp(s) PROVE CInv'
<1> DEFINE id0 == Current(s).id
           free == [scans[s] EXCEPT !.pc = "register", !.added = @ + 1]
           taken == [scans[s] EXCEPT !.pc = "replace"]
           onward == Onward(scans[s])
<1>1. /\ scans[s].pc = "loop" /\ scans[s].discovered # <<>> /\ UNCHANGED <<dir, plugins, mu, owned, steady>> /\ IInv'
      /\ \/ plugins[id0] = Builtin /\ scans' = [scans EXCEPT ![s] = onward]
         \/ plugins[id0] = None /\ scans' = [scans EXCEPT ![s] = free]
         \/ plugins[id0] # Builtin /\ plugins[id0] # None /\ scans' = [scans EXCEPT ![s] = taken]
  BY LookUpStep, Constants DEF LookUp, At, Becomes, CInv
<1>2. /\ scans[s] \in Scan /\ scans \in [Scanners -> Scan] /\ mu = s /\ Told(s) /\ IInv
      /\ \A id \in Ids \ Builtins : Traced(s, id)
      /\ \A id \in Builtins : owned[id] = None /\ scans[s].seen[id] = None
  BY <1>1, AtWork
<1>3. id0 \in Ids
  <2> DEFINE T == [id : Ids, file : FileSet]
  <2>1. scans[s].discovered \in Seq(T)
    BY <1>2 DEF Scan
  <2> HIDE DEF T
  <2>2. Head(scans[s].discovered) \in T
    BY <1>1, <2>1, HeadTailProperties
  <2> QED
    BY <2>2 DEF T, Current
<1>4. /\ onward.pc = "loop" /\ onward.seen = scans[s].seen /\ onward.added = scans[s].added
      /\ onward.removed = scans[s].removed /\ onward.file = scans[s].file /\ onward.discovered = Tail(scans[s].discovered)
  BY <1>2 DEF Scan, Onward
<1>5. /\ free.pc = "register" /\ free.seen = scans[s].seen /\ free.added = scans[s].added + 1
      /\ free.removed = scans[s].removed /\ free.file = scans[s].file /\ free.discovered = scans[s].discovered
  BY <1>2 DEF Scan
<1>6. /\ taken.pc = "replace" /\ taken.seen = scans[s].seen /\ taken.added = scans[s].added
      /\ taken.removed = scans[s].removed /\ taken.file = scans[s].file /\ taken.discovered = scans[s].discovered
  BY <1>2 DEF Scan
<1>7. steady => /\ scans[s].file = Len(Files) + 1
                /\ \E c, ks : InOrder(dir, scans[s].file, scans[s].discovered, scans[s].seen, c, ks)
  BY <1>1, <1>2 DEF Told
<1> HIDE DEF onward, free, taken
<1>8. CASE plugins[id0] = Builtin /\ scans' = [scans EXCEPT ![s] = onward]
  <2>1. scans'[s] = onward
    BY <1>2, <1>8
  <2>2. \A id \in Ids : Busy(s, id)' <=> Busy(s, id)
    BY <1>1, <1>4, <2>1 DEF Busy
  <2>3. id0 \in Builtins
    BY <1>2, <1>3, <1>8 DEF IInv, BuiltinsUntouched
  <2>4. steady' => \E c, ks : InOrder(dir, scans'[s].file, scans'[s].discovered, scans[s].seen, c, ks)
    <3> SUFFICES ASSUME steady PROVE \E c, ks : InOrder(dir, scans'[s].file, scans'[s].discovered, scans[s].seen, c, ks)
      BY <1>1
    <3>1. \A id \in Ids \ Builtins : scans[s].seen[id] = IF id = Current(s).id THEN Current(s).file ELSE scans[s].seen[id]
      BY <2>3
    <3>2. \E c, ks : InOrder(dir, scans[s].file, Tail(scans[s].discovered), scans[s].seen, c, ks)
      BY <1>1, <3>1, CurrentOne
    <3> QED
      BY <1>4, <2>1, <3>2
  <2> QED
    BY <1>1, <1>2, <1>4, <1>7, <2>1, <2>2, <2>4, TellsTheSame
<1>9. CASE plugins[id0] # Builtin /\ plugins[id0] # None /\ scans' = [scans EXCEPT ![s] = taken]
  <2>1. scans'[s] = taken
    BY <1>2, <1>9
  <2>2. \A id \in Ids : Busy(s, id)' <=> Busy(s, id)
    BY <1>1, <1>6, <2>1 DEF Busy
  <2> QED
    BY <1>1, <1>2, <1>6, <1>7, <2>1, <2>2, TellsTheSame
<1>10. CASE plugins[id0] = None /\ scans' = [scans EXCEPT ![s] = free]
  <2>1. scans'[s] = free /\ Current(s)' = Current(s)
    BY <1>2, <1>5, <1>10 DEF Current
  <2>2. \A id \in Ids : ~Busy(s, id) /\ (Busy(s, id)' <=> id = id0)
    BY <1>1, <1>5, <2>1 DEF Busy
  <2>3. id0 \in Ids \ Builtins
    BY <1>2, <1>3, <1>10, Constants DEF IInv, BuiltinsUntouched
  <2>4. scans[s].seen[id0] = None => owned[id0] = None
    BY <1>1, <1>2, <1>10, <2>2, <2>3 DEF Traced, Swept
  <2>5. Gone(s)' = Gone(s)
    BY <1>1, <1>5, <1>10, <2>1, <2>2, <2>4 DEF Gone
  <2>6. ASSUME steady', Unique' PROVE IsFiniteSet(New(s)') /\ scans'[s].added = Cardinality(New(s)')
    <3>1. steady /\ Unique /\ Unique' = Unique
      BY <1>1, <2>6 DEF Unique, Claiming
    <3>2. scans[s].seen[id0] = None
      <4> DEFINE seen2 == [id \in Ids |-> IF id = id0 THEN Current(s).file ELSE scans[s].seen[id]]
      <4>1. \A id \in Ids \ Builtins : seen2[id] = IF id = Current(s).id THEN Current(s).file ELSE scans[s].seen[id]
        OBVIOUS
      <4> HIDE DEF seen2
      <4> QED
        BY <1>1, <2>3, <3>1, <4>1, CurrentOne
    <3>3. owned[id0] = None /\ id0 \notin New(s)
      BY <2>2, <2>4, <3>2 DEF New
    <3>4. New(s)' = New(s) \cup {id0}
      BY <1>1, <1>3, <1>5, <2>1, <2>2, <3>3 DEF New
    <3>5. IsFiniteSet(New(s)) /\ scans[s].added = Cardinality(New(s))
      BY <1>2, <3>1 DEF Told
    <3> HIDE DEF id0
    <3> QED
      BY <1>5, <2>1, <3>3, <3>4, <3>5, FS_AddElement
  <2>7. Told(s)'
    <3>1. IsFiniteSet(Gone(s)') /\ scans'[s].removed = Cardinality(Gone(s)')
      BY <1>2, <1>5, <2>1, <2>5 DEF Told
    <3>2. steady' => \E c, ks : InOrder(dir', scans'[s].file, scans'[s].discovered, scans'[s].seen, c, ks)
      BY <1>1, <1>5, <1>7, <2>1
    <3>3. steady' /\ scans'[s].pc # "discover" => scans'[s].file = Len(Files) + 1
      BY <1>1, <1>5, <1>7, <2>1
    <3> QED
      BY <2>6, <3>1, <3>2, <3>3 DEF Told
  <2> QED
    BY <1>1, <1>2, <2>7, ItTells
<1> QED
  BY <1>1, <1>8, <1>9, <1>10

LEMMA ReplaceTells == ASSUME CInv, NEW s \in Scanners, Replace(s) PROVE CInv'
<1> DEFINE id0 == Current(s).id
           counted == IF owned[id0] = None THEN scans[s].added + 1 ELSE scans[s].added
           scan == [scans[s] EXCEPT !.pc = "register", !.added = counted]
<1>1. /\ scans[s].pc = "replace" /\ scans' = [scans EXCEPT ![s] = scan] /\ plugins' = [plugins EXCEPT ![id0] = None]
      /\ UNCHANGED <<dir, mu, owned, steady>> /\ IInv'
  BY ReplaceStep DEF Replace, At, Becomes, Unregister, CInv
<1>2. /\ scans[s] \in Scan /\ scans \in [Scanners -> Scan] /\ mu = s /\ Told(s) /\ IInv
      /\ \A id \in Ids \ Builtins : Traced(s, id)
      /\ scans[s].discovered # <<>> /\ id0 \in Ids \ Builtins /\ plugins \in [Ids -> FileSet \cup {Builtin, None}]
  <2>1. scans[s].discovered # <<>> /\ Current(s) \in [id : Ids \ Builtins, file : FileSet] /\ plugins \in [Ids -> FileSet \cup {Builtin, None}]
    BY <1>1, CurrentIsExternal DEF CInv
  <2> QED
    BY <1>1, <2>1, AtWork
<1>3. /\ scan.pc = "register" /\ scan.seen = scans[s].seen /\ scan.added = counted
      /\ scan.removed = scans[s].removed /\ scan.file = scans[s].file /\ scan.discovered = scans[s].discovered
  BY <1>2 DEF Scan
<1> HIDE DEF scan
<1>4. scans'[s] = scan /\ Current(s)' = Current(s)
  BY <1>1, <1>2, <1>3 DEF Current
<1>5. \A id \in Ids : ~Busy(s, id) /\ (Busy(s, id)' <=> id = id0)
  BY <1>1, <1>3, <1>4 DEF Busy
<1>6. plugins'[id0] = None /\ \A id \in Ids \ {id0} : plugins'[id] = plugins[id]
  BY <1>1, <1>2
<1>7. Gone(s)' = Gone(s)
  <2>1. id0 \notin Gone(s) /\ id0 \notin Gone(s)'
    <3>1. ~Swept(s, id0)
      BY <1>1 DEF Swept
    <3>2. ~(owned[id0] # None /\ scans[s].seen[id0] = None /\ plugins[id0] = None)
      BY <1>2, <1>5, <3>1 DEF Traced
    <3> QED
      BY <1>5, <3>2 DEF Gone
  <2>2. \A id \in Ids \ {id0} : id \in Gone(s)' <=> id \in Gone(s)
    BY <1>1, <1>3, <1>4, <1>5, <1>6 DEF Gone
  <2> QED
    BY <2>1, <2>2 DEF Gone
<1>8. steady => /\ scans[s].file = Len(Files) + 1
                /\ \E c, ks : InOrder(dir, scans[s].file, scans[s].discovered, scans[s].seen, c, ks)
  BY <1>1, <1>2 DEF Told
<1>9. ASSUME steady', Unique' PROVE IsFiniteSet(New(s)') /\ scans'[s].added = Cardinality(New(s)')
  <2>1. steady /\ Unique
    BY <1>1, <1>9 DEF Unique, Claiming
  <2>2. scans[s].seen[id0] = None
    <3> DEFINE seen2 == [id \in Ids |-> IF id = id0 THEN Current(s).file ELSE scans[s].seen[id]]
    <3>1. \A id \in Ids \ Builtins : seen2[id] = IF id = Current(s).id THEN Current(s).file ELSE scans[s].seen[id]
      OBVIOUS
    <3> HIDE DEF seen2
    <3> QED
      BY <1>1, <1>2, <2>1, <3>1, CurrentOne
  <2>3. id0 \notin New(s)
    BY <1>5, <2>2 DEF New
  <2>4. New(s)' = IF owned[id0] = None THEN New(s) \cup {id0} ELSE New(s)
    BY <1>1, <1>2, <1>3, <1>4, <1>5 DEF New
  <2>5. IsFiniteSet(New(s)) /\ scans[s].added = Cardinality(New(s))
    BY <1>2, <2>1 DEF Told
  <2> HIDE DEF id0
  <2> QED
    BY <1>3, <1>4, <2>3, <2>4, <2>5, FS_AddElement
<1>10. Told(s)'
  <2>1. IsFiniteSet(Gone(s)') /\ scans'[s].removed = Cardinality(Gone(s)')
    BY <1>2, <1>3, <1>4, <1>7 DEF Told
  <2>2. steady' => \E c, ks : InOrder(dir', scans'[s].file, scans'[s].discovered, scans'[s].seen, c, ks)
    BY <1>1, <1>3, <1>4, <1>8
  <2>3. steady' /\ scans'[s].pc # "discover" => scans'[s].file = Len(Files) + 1
    BY <1>1, <1>3, <1>4, <1>8
  <2> QED
    BY <1>9, <2>1, <2>2, <2>3 DEF Told
<1> QED
  BY <1>1, <1>2, <1>10, ItTells

LEMMA RegisterTells == ASSUME CInv, NEW s \in Scanners, RegisterIt(s) PROVE CInv'
<1> DEFINE id0 == Current(s).id
           file0 == Current(s).file
           seen2 == [scans[s].seen EXCEPT ![id0] = file0]
           scan == [Onward(scans[s]) EXCEPT !.seen[id0] = file0]
<1>1. /\ scans[s].pc = "register" /\ scans' = [scans EXCEPT ![s] = scan] /\ plugins' = [plugins EXCEPT ![id0] = file0]
      /\ UNCHANGED <<dir, mu, owned, steady>> /\ IInv'
  BY RegisterStep DEF RegisterIt, At, Becomes, Register, CInv
<1>2. /\ scans[s] \in Scan /\ scans \in [Scanners -> Scan] /\ mu = s /\ Told(s) /\ IInv
      /\ scans[s].discovered # <<>> /\ id0 \in Ids \ Builtins /\ file0 \in FileSet /\ file0 # None
      /\ plugins \in [Ids -> FileSet \cup {Builtin, None}] /\ scans[s].seen \in [Ids -> FileSet \cup {None}]
  <2>1. scans[s].discovered # <<>> /\ Current(s) \in [id : Ids \ Builtins, file : FileSet] /\ plugins \in [Ids -> FileSet \cup {Builtin, None}]
    BY <1>1, CurrentIsExternal DEF CInv
  <2> QED
    BY <1>1, <2>1, AtWork, Constants
<1>3. /\ scan.pc = "loop" /\ scan.seen = seen2 /\ scan.added = scans[s].added
      /\ scan.removed = scans[s].removed /\ scan.file = scans[s].file /\ scan.discovered = Tail(scans[s].discovered)
  <2> HIDE DEF id0, file0
  <2> QED
    BY <1>2 DEF Scan, Onward
<1> HIDE DEF scan
<1>4. scans'[s] = scan
  BY <1>1, <1>2
<1>5. \A id \in Ids : (Busy(s, id) <=> id = id0) /\ ~Busy(s, id)'
  BY <1>1, <1>3, <1>4 DEF Busy
<1>6. seen2[id0] = file0 /\ \A id \in Ids \ {id0} : seen2[id] = scans[s].seen[id]
  BY <1>2
<1>7. plugins'[id0] = file0 /\ \A id \in Ids \ {id0} : plugins'[id] = plugins[id]
  BY <1>1, <1>2
<1> HIDE DEF seen2
<1>8. Gone(s)' = Gone(s)
  BY <1>1, <1>2, <1>3, <1>4, <1>5, <1>6, <1>7 DEF Gone
<1>9. New(s)' = New(s)
  BY <1>1, <1>2, <1>3, <1>4, <1>5, <1>6 DEF New
<1>10. steady => /\ scans[s].file = Len(Files) + 1
                 /\ \E c, ks : InOrder(dir, scans[s].file, Tail(scans[s].discovered), seen2, c, ks)
  <2> SUFFICES ASSUME steady PROVE /\ scans[s].file = Len(Files) + 1
                                   /\ \E c, ks : InOrder(dir, scans[s].file, Tail(scans[s].discovered), seen2, c, ks)
    OBVIOUS
  <2>1. \A id \in Ids \ Builtins : seen2[id] = IF id = Current(s).id THEN Current(s).file ELSE scans[s].seen[id]
    BY <1>6
  <2>2. \E c, ks : InOrder(dir, scans[s].file, Tail(scans[s].discovered), seen2, c, ks)
    BY <1>1, <1>2, <2>1, CurrentOne
  <2> QED
    BY <1>1, <1>2, <2>2 DEF Told
<1>11. steady' /\ Unique' => steady /\ Unique
  BY <1>1 DEF Unique, Claiming
<1>12. Told(s)'
  <2>1. IsFiniteSet(Gone(s)') /\ scans'[s].removed = Cardinality(Gone(s)')
    BY <1>2, <1>3, <1>4, <1>8 DEF Told
  <2>2. steady' => \E c, ks : InOrder(dir', scans'[s].file, scans'[s].discovered, scans'[s].seen, c, ks)
    BY <1>1, <1>3, <1>4, <1>10
  <2>3. steady' /\ scans'[s].pc # "discover" => scans'[s].file = Len(Files) + 1
    BY <1>1, <1>3, <1>4, <1>10
  <2>4. steady' /\ Unique' => IsFiniteSet(New(s)') /\ scans'[s].added = Cardinality(New(s)')
    BY <1>2, <1>3, <1>4, <1>9, <1>11 DEF Told
  <2> QED
    BY <2>1, <2>2, <2>3, <2>4 DEF Told
<1> QED
  BY <1>1, <1>2, <1>12, ItTells

LEMMA SweepTells == ASSUME CInv, NEW s \in Scanners, Sweep(s) PROVE CInv'
<1> DEFINE scan == [scans[s] EXCEPT !.removed = @ + 1]
<1>1. PICK id0 \in Vanished(s) \cap Present(plugins) :
        plugins' = [plugins EXCEPT ![id0] = None] /\ scans' = [scans EXCEPT ![s] = scan]
  BY DEF Sweep, Unregister, Becomes
<1>2. /\ scans[s].pc = "loop" /\ scans[s].discovered = <<>> /\ UNCHANGED <<dir, mu, owned, steady>> /\ IInv'
  BY SweepStep DEF Sweep, At, CInv
<1>3. /\ scans[s] \in Scan /\ scans \in [Scanners -> Scan] /\ mu = s /\ Told(s) /\ IInv
      /\ plugins \in [Ids -> FileSet \cup {Builtin, None}]
  BY <1>2, AtWork DEF IInv, TypeOK
<1>4. id0 \in Ids /\ owned[id0] # None /\ scans[s].seen[id0] = None /\ plugins[id0] # None
  BY DEF Vanished, Present
<1>5. /\ scan.pc = "loop" /\ scan.seen = scans[s].seen /\ scan.added = scans[s].added
      /\ scan.removed = scans[s].removed + 1 /\ scan.file = scans[s].file /\ scan.discovered = scans[s].discovered
  BY <1>2, <1>3 DEF Scan
<1> HIDE DEF scan
<1>6. scans'[s] = scan
  BY <1>1, <1>3
<1>7. \A id \in Ids : ~Busy(s, id) /\ ~Busy(s, id)'
  BY <1>2, <1>5, <1>6 DEF Busy
<1>8. plugins'[id0] = None /\ \A id \in Ids \ {id0} : plugins'[id] = plugins[id]
  BY <1>1, <1>3, <1>4
<1>9. id0 \notin Gone(s) /\ Gone(s)' = Gone(s) \cup {id0} /\ New(s)' = New(s)
  <2>1. id0 \notin Gone(s) /\ id0 \in Gone(s)'
    BY <1>2, <1>4, <1>5, <1>6, <1>7, <1>8 DEF Gone
  <2>2. \A id \in Ids \ {id0} : id \in Gone(s)' <=> id \in Gone(s)
    BY <1>2, <1>5, <1>6, <1>7, <1>8 DEF Gone
  <2>3. Gone(s)' = Gone(s) \cup {id0}
    BY <1>4, <2>1, <2>2 DEF Gone
  <2> QED
    BY <1>2, <1>5, <1>6, <1>7, <2>1, <2>3 DEF New
<1>10. IsFiniteSet(Gone(s)') /\ scans'[s].removed = Cardinality(Gone(s)')
  <2>1. IsFiniteSet(Gone(s)) /\ scans[s].removed = Cardinality(Gone(s))
    BY <1>3 DEF Told
  <2> QED
    BY <1>5, <1>6, <1>9, <2>1, FS_AddElement
<1>11. steady' /\ Unique' => steady /\ Unique
  BY <1>2 DEF Unique, Claiming
<1>12. Told(s)'
  <2>1. steady' => \E c, ks : InOrder(dir', scans'[s].file, scans'[s].discovered, scans'[s].seen, c, ks)
    BY <1>2, <1>3, <1>5, <1>6 DEF Told
  <2>2. steady' /\ scans'[s].pc # "discover" => scans'[s].file = Len(Files) + 1
    BY <1>2, <1>3, <1>5, <1>6 DEF Told
  <2>3. steady' /\ Unique' => IsFiniteSet(New(s)') /\ scans'[s].added = Cardinality(New(s)')
    BY <1>3, <1>5, <1>6, <1>9, <1>11 DEF Told
  <2> QED
    BY <1>10, <2>1, <2>2, <2>3 DEF Told
<1> QED
  BY <1>2, <1>3, <1>12, ItTells

LEMMA InitTells == Init => CInv
BY InitIInv, Constants DEF CInv, Init

LEMMA Telling == CInv /\ [Next]_vars => CInv'
<1> SUFFICES ASSUME CInv, [Next]_vars PROVE CInv'
  OBVIOUS
<1>1. IInv /\ IInv'
  BY Inductive DEF CInv
<1>2. ASSUME NEW s \in Scanners, Finish(s) PROVE CInv'
  BY <1>1, <1>2, Constants DEF Finish, CInv
<1>3. CASE ChangeFile
  <2>1. steady' = FALSE /\ UNCHANGED <<plugins, mu, owned, scans>>
    BY <1>3 DEF ChangeFile
  <2>2. ASSUME NEW s \in Scanners, mu' = s PROVE CInv'
    <3>1. scans[s].pc # "idle" /\ mu = s
      BY <1>1, <2>1, <2>2 DEF IInv, OneRescan
    <3>2. \A id \in Ids : Busy(s, id)' <=> Busy(s, id)
      BY <2>1 DEF Busy, Current
    <3> QED
      BY <1>1, <2>1, <3>1, <3>2, TellsTheSame
  <2> QED
    BY <1>1, <2>2 DEF CInv
<1>4. CASE UNCHANGED vars
  <2>1. UNCHANGED <<dir, plugins, mu, owned, scans, steady>>
    BY <1>4 DEF vars
  <2>2. ASSUME NEW s \in Scanners, mu' = s PROVE CInv'
    <3>1. scans[s].pc # "idle" /\ mu = s /\ Told(s)
      BY <1>1, <2>1, <2>2 DEF IInv, OneRescan, CInv
    <3>2. \A id \in Ids : Busy(s, id)' <=> Busy(s, id)
      BY <2>1 DEF Busy, Current
    <3>3. /\ (steady => (scans[s].pc # "discover" => scans[s].file = Len(Files) + 1))
          /\ steady => \E c, ks : InOrder(dir, scans[s].file, scans[s].discovered, scans[s].seen, c, ks)
      BY <3>1 DEF Told
    <3> QED
      BY <1>1, <2>1, <3>1, <3>2, <3>3, TellsTheSame
  <2> QED
    BY <1>1, <2>2 DEF CInv
<1>5. ASSUME NEW s \in Scanners,
             \/ Lock(s) \/ ReadDirFails(s) \/ Describe(s) \/ Discovered(s)
             \/ LookUp(s) \/ Replace(s) \/ RegisterIt(s) \/ Sweep(s)
      PROVE  CInv'
  BY <1>5, LockTells, ReadDirFailsTells, DescribeTells, DiscoveredTells, LookUpTells, ReplaceTells,
     RegisterTells, SweepTells
<1> QED
  BY <1>2, <1>3, <1>4, <1>5 DEF Next

-----------------------------------------------------------------------------
(***************************************************************************)
(* The settings.                                                           *)
(***************************************************************************)
Count == {Unknown} \cup Nat
TabState == [view : {"none", "dashboard", "settings"}, cached : BOOLEAN, cache : Doc, seen : Count,
             waits : SUBSET Requests]
Save == [pc : {"saving", "committed", "leveled", "replied"}, tab : Tabs, put : Doc,
         touches : {"order", "live", "form"}, seen : Count]
SettingsTyped ==
  /\ row \in Doc /\ level \in BOOLEAN /\ env \in Tokens \cup {""}
  /\ launch \in Launch
  /\ tabs \in [Tabs -> TabState]
  /\ saves \in [Requests -> {NoSave} \cup Save]
  /\ commits \in Nat /\ saved \in BOOLEAN /\ overlapped \in BOOLEAN

\* Unless saves overlapped, the one being applied is the row's.
InTurn ==
  /\ \A r \in Requests : UnderWay(r) => saved
  /\ ~overlapped => \A r \in Requests : UnderWay(r) =>
       /\ saves[r].put = row
       /\ saves[r].pc = "leveled" => level = row.debug
       /\ \A q \in Requests \ {r} : ~UnderWay(q)

\* The level follows the toggle alone.
Applied ==
  saved /\ ~overlapped /\ (\A r \in Requests : ~UnderWay(r)) =>
    level = row.debug /\ (row.token # "" => env = row.token)

\* What a save is not about is the same in d and e.
Spared(touches, d, e) ==
  /\ touches = "order" => d.live = e.live /\ d.debug = e.debug /\ d.token = e.token
  /\ touches = "live" => d.order = e.order /\ d.debug = e.debug /\ d.token = e.token
  /\ touches = "form" => d.order = e.order

\* What a tab that knows the last save has and sends.
Truthful(tab) == tab.seen <= commits /\ (tab.seen = commits => tab.cache = row)
Known(s) ==
  /\ s.seen <= commits
  /\ s.seen = commits => IF s.pc = "saving" THEN Spared(s.touches, s.put, row) ELSE s.put = row

SInv ==
  /\ SettingsTyped /\ InTurn /\ Applied
  /\ \A t \in Tabs : Truthful(tabs[t])
  /\ \A r \in Requests : saves[r] = NoSave \/ Known(saves[r])

LEMMA Counts == Unknown \in Int /\ (\A n \in Nat : Unknown <= n /\ Unknown # n) /\ Count \subseteq Int
BY DEF Unknown, Count

LEMMA Resting == NoSave.pc = "idle" /\ \A s \in Save : s # NoSave /\ s.pc # "idle"
<1>1. NoSave.pc = "idle"
  BY DEF NoSave
<1>2. \A s \in Save : s.pc # "idle"
  BY DEF Save
<1> QED
  BY <1>1, <1>2

\* A request that is not at rest is a save.
LEMMA InFlight ==
  ASSUME SInv, NEW r \in Requests, saves[r].pc # "idle"
  PROVE  /\ saves[r] \in Save /\ saves[r].tab \in Tabs /\ saves[r].put \in Doc
         /\ saves[r].touches \in {"order", "live", "form"} /\ saves[r].seen \in Count
         /\ Known(saves[r]) /\ tabs[saves[r].tab] \in TabState /\ Truthful(tabs[saves[r].tab])
<1>1. saves[r] \in {NoSave} \cup Save /\ tabs \in [Tabs -> TabState]
  BY DEF SInv, SettingsTyped
<1>2. saves[r] # NoSave
  BY Resting
<1>3. saves[r] \in Save /\ Known(saves[r])
  BY <1>1, <1>2 DEF SInv
<1>4. /\ saves[r].tab \in Tabs /\ saves[r].put \in Doc /\ saves[r].seen \in Count
      /\ saves[r].touches \in {"order", "live", "form"}
  BY <1>3 DEF Save
<1> QED
  BY <1>1, <1>3, <1>4 DEF SInv

LEMMA InitSInv == SettingsInit => SInv
<1> SUFFICES ASSUME SettingsInit PROVE SInv
  OBVIOUS
<1>1. NewTab \in TabState /\ NewTab.seen = Unknown /\ DefaultSettings \in Doc
  BY DEF NewTab, TabState, DefaultSettings, Doc, Count
<1>2. SettingsTyped
  <2>1. /\ row \in Doc /\ row.debug \in BOOLEAN /\ row.token \in Tokens \cup {""} /\ launch \in Launch
        /\ level = BootLevel(launch, row) /\ env = BootToken(launch, row)
    BY <1>1, SettingsAssumption DEF SettingsInit, Doc
  <2>2. level \in BOOLEAN /\ env \in Tokens \cup {""}
    BY <2>1 DEF BootLevel, BootToken, Launch
  <2> QED
    BY <1>1, <2>1, <2>2 DEF SettingsInit, SettingsTyped
<1>3. InTurn /\ Applied
  <2>1. \A r \in Requests : ~UnderWay(r)
    BY Resting DEF SettingsInit, UnderWay
  <2> QED
    BY <2>1 DEF SettingsInit, InTurn, Applied
<1>4. \A t \in Tabs : Truthful(tabs[t])
  BY <1>1, Counts DEF SettingsInit, Truthful
<1>5. \A r \in Requests : saves[r] = NoSave
  BY DEF SettingsInit
<1> QED
  BY <1>2, <1>3, <1>4, <1>5 DEF SInv

(***************************************************************************)
(* A step of the browser changes one tab, and at most one request, which   *)
(* the server does not work on before or after.                            *)
(***************************************************************************)
LEMMA PageStep ==
  ASSUME SInv, NEW t \in Tabs, NEW tab \in TabState, Tab(t, tab), UNCHANGED <<saves, Server>>, Truthful(tab)
  PROVE  SInv'
<1>1. /\ UNCHANGED <<row, level, env, launch, saves, commits, saved, overlapped>>
      /\ tabs' = [tabs EXCEPT ![t] = tab] /\ tabs \in [Tabs -> TabState]
  BY DEF SInv, SettingsTyped, Tab, Server
<1>2. tabs'[t] = tab /\ \A u \in Tabs \ {t} : tabs'[u] = tabs[u]
  BY <1>1
<1>3. SettingsTyped'
  BY <1>1 DEF SInv, SettingsTyped
<1>4. InTurn' /\ Applied'
  BY <1>1 DEF SInv, InTurn, Applied, UnderWay
<1>5. \A u \in Tabs : Truthful(tabs[u])'
  BY <1>1, <1>2 DEF SInv, Truthful
<1>6. \A r \in Requests : (saves[r] = NoSave \/ Known(saves[r]))'
  BY <1>1 DEF SInv, Known
<1> QED
  BY <1>3, <1>4, <1>5, <1>6 DEF SInv

LEMMA BrowserStep ==
  ASSUME SInv, NEW r \in Requests, ~UnderWay(r),
         NEW s \in {NoSave} \cup Save, saves' = [saves EXCEPT ![r] = s],
         s.pc \in {"idle", "saving"}, s = NoSave \/ Known(s),
         NEW t \in Tabs, NEW tab \in TabState, Tab(t, tab), Truthful(tab), UNCHANGED Server
  PROVE  SInv'
<1>1. /\ UNCHANGED <<row, level, env, launch, commits, saved, overlapped>>
      /\ tabs' = [tabs EXCEPT ![t] = tab] /\ tabs \in [Tabs -> TabState]
      /\ saves \in [Requests -> {NoSave} \cup Save]
  BY DEF SInv, SettingsTyped, Tab, Server
<1>2. /\ tabs'[t] = tab /\ \A u \in Tabs \ {t} : tabs'[u] = tabs[u]
      /\ saves'[r] = s /\ \A q \in Requests \ {r} : saves'[q] = saves[q]
  BY <1>1
<1>3. SettingsTyped'
  BY <1>1 DEF SInv, SettingsTyped
<1>4. \A q \in Requests : /\ UnderWay(q)' <=> UnderWay(q)
                          /\ UnderWay(q) => saves'[q] = saves[q]
  BY <1>2 DEF UnderWay
<1>5. InTurn' /\ Applied'
  BY <1>1, <1>4 DEF SInv, InTurn, Applied
<1>6. \A u \in Tabs : Truthful(tabs[u])'
  BY <1>1, <1>2 DEF SInv, Truthful
<1>7. \A q \in Requests : (saves[q] = NoSave \/ Known(saves[q]))'
  BY <1>1, <1>2 DEF SInv, Known
<1> QED
  BY <1>3, <1>5, <1>6, <1>7 DEF SInv

LEMMA OpenDashboardStep == ASSUME SInv, NEW t \in Tabs, OpenDashboard(t) PROVE SInv'
<1> DEFINE tab == [tabs[t] EXCEPT !.view = "dashboard", !.waits = {}]
           bare == [tab EXCEPT !.cached = TRUE, !.cache = DefaultSettings, !.seen = Unknown]
<1>1. tabs[t] \in TabState /\ Truthful(tabs[t]) /\ row \in Doc /\ commits \in Nat /\ DefaultSettings \in Doc
  BY DEF SInv, SettingsTyped, DefaultSettings, Doc
<1>2. tab \in TabState /\ Fetched(tab) \in TabState /\ bare \in TabState
  BY <1>1 DEF TabState, Fetched, Count
<1>3. Truthful(tab) /\ Truthful(Fetched(tab)) /\ Truthful(bare)
  BY <1>1, Counts DEF TabState, Fetched, Truthful
<1>4. PICK next \in {tab, Fetched(tab), bare} : Tab(t, next) /\ UNCHANGED <<saves, Server>>
  BY DEF OpenDashboard
<1> HIDE DEF tab, bare
<1> QED
  BY <1>2, <1>3, <1>4, PageStep

LEMMA OpenSettingsStep == ASSUME SInv, NEW t \in Tabs, OpenSettings(t) PROVE SInv'
<1> DEFINE form == [Fetched(tabs[t]) EXCEPT !.view = "settings", !.waits = {}]
           none == [tabs[t] EXCEPT !.view = "none", !.waits = {}]
<1>1. tabs[t] \in TabState /\ Truthful(tabs[t]) /\ row \in Doc /\ commits \in Nat
  BY DEF SInv, SettingsTyped
<1>2. form \in TabState /\ none \in TabState
  BY <1>1 DEF TabState, Fetched, Count
<1>3. Truthful(form) /\ Truthful(none)
  BY <1>1, Counts DEF TabState, Fetched, Truthful
<1>4. PICK next \in {form, none} : Tab(t, next) /\ UNCHANGED <<saves, Server>>
  BY DEF OpenSettings
<1> HIDE DEF form, none
<1> QED
  BY <1>2, <1>3, <1>4, PageStep

\* What is sent knows no more than the tab.
LEMMA SendStep ==
  ASSUME SInv, NEW r \in Requests, NEW t \in Tabs, NEW put \in Doc, NEW touches \in {"order", "live", "form"},
         NEW tab \in TabState, Send(r, t, put, touches, tab), Truthful(tab),
         tabs[t].seen = commits => Spared(touches, put, row)
  PROVE  SInv'
<1> DEFINE s == [pc |-> "saving", tab |-> t, put |-> put, touches |-> touches, seen |-> tabs[t].seen]
<1>1. tabs[t] \in TabState /\ Truthful(tabs[t])
  BY DEF SInv, SettingsTyped
<1>2. s \in Save /\ s.pc = "saving" /\ s.put = put /\ s.touches = touches /\ s.seen = tabs[t].seen
  BY <1>1 DEF TabState, Save
<1>3. saves[r] = NoSave /\ saves' = [saves EXCEPT ![r] = s] /\ Tab(t, tab) /\ UNCHANGED Server
  BY DEF Send
<1> HIDE DEF s
<1>4. Known(s)
  BY <1>1, <1>2 DEF Known, Truthful
<1>5. ~UnderWay(r)
  BY <1>3, Resting DEF UnderWay
<1> QED
  BY <1>2, <1>3, <1>4, <1>5, BrowserStep

LEMMA SendCopyStep ==
  ASSUME SInv, NEW r \in Requests, NEW t \in Tabs, NEW copy \in Doc, NEW touches \in {"order", "live"},
         SendCopy(r, t, copy, touches), Spared(touches, copy, tabs[t].cache)
  PROVE  SInv'
<1> DEFINE tab == [tabs[t] EXCEPT !.cache = copy, !.seen = Unknown]
<1>1. tabs[t] \in TabState /\ Truthful(tabs[t]) /\ commits \in Nat
  BY DEF SInv, SettingsTyped
<1>2. tab \in TabState /\ tab.seen = Unknown
  BY <1>1 DEF TabState, Count
<1>3. Send(r, t, copy, touches, tab)
  BY DEF SendCopy
<1> HIDE DEF tab
<1>4. Truthful(tab)
  BY <1>1, <1>2, Counts DEF Truthful
<1>5. tabs[t].seen = commits => Spared(touches, copy, row)
  BY <1>1 DEF Truthful
<1> QED
  BY <1>2, <1>3, <1>4, <1>5, SendStep

LEMMA CopySteps ==
  ASSUME SInv, NEW r \in Requests, NEW t \in Tabs,
         \/ \E on \in BOOLEAN : SwitchLive(r, t, on)
         \/ \E order \in Orders : Drag(r, t, order)
  PROVE  SInv'
<1>1. tabs[t].cache \in Doc
  BY DEF SInv, SettingsTyped, TabState
<1>2. ASSUME NEW on \in BOOLEAN, SwitchLive(r, t, on) PROVE SInv'
  <2> DEFINE copy == [tabs[t].cache EXCEPT !.live = on]
  <2>1. copy \in Doc /\ Spared("live", copy, tabs[t].cache)
    BY <1>1 DEF Doc, Spared
  <2>2. SendCopy(r, t, copy, "live")
    BY <1>2 DEF SwitchLive
  <2> HIDE DEF copy
  <2> QED
    BY <2>1, <2>2, SendCopyStep
<1>3. ASSUME NEW order \in Orders, Drag(r, t, order) PROVE SInv'
  <2> DEFINE copy == [tabs[t].cache EXCEPT !.order = order]
  <2>1. copy \in Doc /\ Spared("order", copy, tabs[t].cache)
    BY <1>1 DEF Doc, Spared
  <2>2. SendCopy(r, t, copy, "order")
    BY <1>3 DEF Drag
  <2> HIDE DEF copy
  <2> QED
    BY <2>1, <2>2, SendCopyStep
<1> QED
  BY <1>2, <1>3

LEMMA SaveFormStep ==
  ASSUME SInv, NEW r \in Requests, NEW t \in Tabs, NEW e \in Entries, SaveForm(r, t, e)
  PROVE  SInv'
<1> DEFINE put == [live |-> e.live, debug |-> e.debug, token |-> e.token, order |-> tabs[t].cache.order]
           tab == [tabs[t] EXCEPT !.waits = {r}]
<1>1. tabs[t] \in TabState /\ tabs[t].cache \in Doc /\ Truthful(tabs[t])
  BY DEF SInv, SettingsTyped, TabState
<1>2. e.live \in BOOLEAN /\ e.debug \in BOOLEAN /\ e.token \in Tokens \cup {""}
  BY SettingsAssumption
<1>3. put \in Doc /\ put.order = tabs[t].cache.order
  BY <1>1, <1>2 DEF Doc
<1>4. tab \in TabState /\ tab.seen = tabs[t].seen /\ tab.cache = tabs[t].cache
  BY <1>1 DEF TabState
<1>5. Send(r, t, put, "form", tab)
  BY DEF SaveForm
<1> HIDE DEF put, tab
<1>6. Truthful(tab) /\ (tabs[t].seen = commits => Spared("form", put, row))
  BY <1>1, <1>3, <1>4 DEF Truthful, Spared
<1> QED
  BY <1>3, <1>4, <1>5, <1>6, SendStep

\* A save ends, whatever its tab makes of it.
LEMMA EndsStep ==
  ASSUME SInv, NEW r \in Requests, saves[r].pc \in {"saving", "replied"}, NEW tab \in TabState,
         Ends(r, tab), Truthful(tab)
  PROVE  SInv'
<1> DEFINE next == [tab EXCEPT !.waits = @ \ {r}]
<1>1. saves[r].tab \in Tabs
  BY InFlight
<1>2. next \in TabState /\ next.seen = tab.seen /\ next.cache = tab.cache
  BY DEF TabState
<1>3. saves' = [saves EXCEPT ![r] = NoSave] /\ Tab(saves[r].tab, next) /\ UNCHANGED Server
  BY DEF Ends
<1> HIDE DEF next
<1>4. Truthful(next) /\ ~UnderWay(r)
  BY <1>2 DEF Truthful, UnderWay
<1>5. NoSave.pc = "idle"
  BY Resting
<1> QED
  BY <1>1, <1>2, <1>3, <1>4, <1>5, BrowserStep

LEMMA RepliedStep == ASSUME SInv, NEW r \in Requests, Replied(r) PROVE SInv'
<1> DEFINE tab == tabs[saves[r].tab]
           ok == [tab EXCEPT !.cache = saves[r].put, !.seen = saves[r].seen]
<1>1. saves[r].pc = "replied" /\ (Ends(r, ok) \/ Ends(r, tab))
  BY DEF Replied
<1>2. /\ tab \in TabState /\ Truthful(tab) /\ saves[r].put \in Doc /\ saves[r].seen \in Count
      /\ Known(saves[r])
  BY <1>1, InFlight
<1>3. ok \in TabState /\ ok.cache = saves[r].put /\ ok.seen = saves[r].seen
  BY <1>2 DEF TabState
<1> HIDE DEF tab, ok
<1>4. Truthful(ok)
  BY <1>1, <1>2, <1>3 DEF Known, Truthful
<1> QED
  BY <1>1, <1>2, <1>3, <1>4, EndsStep

(***************************************************************************)
(* The server's steps.                                                     *)
(***************************************************************************)
LEMMA CommitStep ==
  ASSUME SInv, NEW r \in Requests, saves[r].pc = "saving", Commit(r)
  PROVE  SInv'
<1> DEFINE s == [saves[r] EXCEPT !.pc = "committed", !.seen = commits + 1]
<1>1. /\ tabs \in [Tabs -> TabState] /\ saves \in [Requests -> {NoSave} \cup Save] /\ commits \in Nat
      /\ \A t \in Tabs : Truthful(tabs[t])
      /\ \A q \in Requests : saves[q] = NoSave \/ Known(saves[q])
  BY DEF SInv, SettingsTyped
<1>2. saves[r] \in Save /\ saves[r].put \in Doc
  BY InFlight
<1>3. s \in Save /\ s.pc = "committed" /\ s.seen = commits + 1 /\ s.put = saves[r].put
  <2>1. commits + 1 \in Count
    BY <1>1 DEF Count
  <2> QED
    BY <1>2, <2>1 DEF Save
<1>4. /\ saves' = [saves EXCEPT ![r] = s] /\ row' = saves[r].put /\ commits' = commits + 1 /\ saved' = TRUE
      /\ overlapped' = (\E q \in Requests : UnderWay(q)) /\ UNCHANGED <<level, env, launch, tabs>>
  BY DEF Commit
<1> HIDE DEF s
<1>5. saves'[r] = s /\ \A q \in Requests \ {r} : saves'[q] = saves[q]
  BY <1>1, <1>4
<1>6. SettingsTyped'
  <2>1. saves' \in [Requests -> {NoSave} \cup Save]
    BY <1>1, <1>3, <1>4
  <2>2. commits' \in Nat /\ saved' \in BOOLEAN /\ overlapped' \in BOOLEAN /\ row' \in Doc
    BY <1>1, <1>2, <1>4
  <2> QED
    BY <1>4, <2>1, <2>2 DEF SInv, SettingsTyped
<1>7. InTurn'
  BY <1>3, <1>4, <1>5 DEF InTurn, UnderWay
<1>8. Applied'
  BY <1>3, <1>5 DEF Applied, UnderWay
<1>9. ASSUME NEW c \in Count, c <= commits PROVE c <= commits' /\ c # commits'
  <2>1. c \in Int /\ commits \in Int
    BY <1>1, Counts
  <2> QED
    BY <1>4, <1>9, <2>1
<1>10. ASSUME NEW t \in Tabs PROVE Truthful(tabs[t])'
  <2>1. tabs[t].seen \in Count /\ tabs[t].seen <= commits
    BY <1>1 DEF TabState, Truthful
  <2> QED
    BY <1>4, <1>9, <2>1 DEF Truthful
<1>11. ASSUME NEW q \in Requests PROVE (saves[q] = NoSave \/ Known(saves[q]))'
  <2>1. CASE q = r
    <3>1. s.seen <= commits' /\ s.put = row'
      BY <1>1, <1>3, <1>4
    <3> QED
      BY <1>3, <1>5, <2>1, <3>1 DEF Known
  <2>2. CASE q # r /\ saves[q] # NoSave
    <3>1. saves[q] \in Save /\ Known(saves[q]) /\ saves'[q] = saves[q]
      BY <1>1, <1>5, <2>2
    <3>2. saves[q].seen \in Count /\ saves[q].seen <= commits
      BY <3>1 DEF Save, Known
    <3> QED
      BY <1>9, <3>1, <3>2 DEF Known
  <2>3. CASE q # r /\ saves[q] = NoSave
    BY <1>5, <2>3
  <2> QED
    BY <2>1, <2>2, <2>3
<1> QED
  BY <1>6, <1>7, <1>8, <1>10, <1>11 DEF SInv

LEMMA SaveSettingsStep == ASSUME SInv, NEW r \in Requests, SaveSettings(r) PROVE SInv'
<1>1. saves[r].pc = "saving" /\ (Commit(r) \/ Ends(r, tabs[saves[r].tab]))
  BY DEF SaveSettings
<1>2. tabs[saves[r].tab] \in TabState /\ Truthful(tabs[saves[r].tab])
  BY <1>1, InFlight
<1> QED
  BY <1>1, <1>2, CommitStep, EndsStep

\* Save r goes on to the next of its steps.
LEMMA AppliedTyped ==
  ASSUME SInv, NEW r \in Requests, UnderWay(r), NEW pc \in {"leveled", "replied"},
         saves' = [saves EXCEPT ![r] = [@ EXCEPT !.pc = pc]], UNCHANGED <<row, tabs, commits>>
  PROVE  /\ saves' \in [Requests -> {NoSave} \cup Save]
         /\ saves'[r].pc = pc /\ saves'[r].put = saves[r].put /\ saves[r].put \in Doc
         /\ \A q \in Requests \ {r} : saves'[q] = saves[q]
         /\ \A t \in Tabs : Truthful(tabs[t])'
         /\ \A q \in Requests : (saves[q] = NoSave \/ Known(saves[q]))'
<1> DEFINE s == [saves[r] EXCEPT !.pc = pc]
<1>1. saves \in [Requests -> {NoSave} \cup Save] /\ saves' = [saves EXCEPT ![r] = s]
  BY DEF SInv, SettingsTyped
<1>2. saves[r] \in Save /\ saves[r].put \in Doc /\ Known(saves[r])
  BY InFlight DEF UnderWay
<1>3. s \in Save /\ s.pc = pc /\ s.put = saves[r].put /\ s.seen = saves[r].seen
  BY <1>2 DEF Save
<1> HIDE DEF s
<1>4. saves'[r] = s /\ \A q \in Requests \ {r} : saves'[q] = saves[q]
  BY <1>1
<1>5. saves' \in [Requests -> {NoSave} \cup Save]
  BY <1>1, <1>3
<1>6. Known(saves[r])'
  BY <1>2, <1>3, <1>4 DEF Known, UnderWay
<1>7. \A q \in Requests : (saves[q] = NoSave \/ Known(saves[q]))'
  BY <1>4, <1>6 DEF SInv, Known
<1>8. \A t \in Tabs : Truthful(tabs[t])'
  BY DEF SInv, Truthful
<1> QED
  BY <1>2, <1>3, <1>4, <1>5, <1>7, <1>8

LEMMA ApplyDebugLevelStep == ASSUME SInv, NEW r \in Requests, applyDebugLevel(r) PROVE SInv'
<1>1. /\ saves[r].pc = "committed" /\ level' = saves[r].put.debug
      /\ saves' = [saves EXCEPT ![r] = [@ EXCEPT !.pc = "leveled"]]
      /\ UNCHANGED <<row, env, launch, tabs, commits, saved, overlapped>>
  BY DEF applyDebugLevel
<1>2. /\ saves' \in [Requests -> {NoSave} \cup Save] /\ saves'[r].pc = "leveled" /\ saves'[r].put = saves[r].put
      /\ saves[r].put \in Doc /\ \A q \in Requests \ {r} : saves'[q] = saves[q]
      /\ \A t \in Tabs : Truthful(tabs[t])'
      /\ \A q \in Requests : (saves[q] = NoSave \/ Known(saves[q]))'
  BY <1>1, AppliedTyped DEF UnderWay
<1>3. SettingsTyped'
  BY <1>1, <1>2 DEF SInv, SettingsTyped, Doc
<1>4. InTurn'
  BY <1>1, <1>2 DEF SInv, InTurn, UnderWay
<1>5. Applied'
  BY <1>2 DEF Applied, UnderWay
<1> QED
  BY <1>2, <1>3, <1>4, <1>5 DEF SInv

LEMMA SetenvStep == ASSUME SInv, NEW r \in Requests, Setenv(r) PROVE SInv'
<1>1. /\ saves[r].pc = "leveled" /\ saves' = [saves EXCEPT ![r] = [@ EXCEPT !.pc = "replied"]]
      /\ env' = IF saves[r].put.token # "" THEN saves[r].put.token ELSE env
      /\ UNCHANGED <<row, level, launch, tabs, commits, saved, overlapped>>
  BY DEF Setenv
<1>2. /\ saves' \in [Requests -> {NoSave} \cup Save] /\ saves'[r].pc = "replied" /\ saves'[r].put = saves[r].put
      /\ saves[r].put \in Doc /\ \A q \in Requests \ {r} : saves'[q] = saves[q]
      /\ \A t \in Tabs : Truthful(tabs[t])'
      /\ \A q \in Requests : (saves[q] = NoSave \/ Known(saves[q]))'
  BY <1>1, AppliedTyped DEF UnderWay
<1>3. SettingsTyped'
  BY <1>1, <1>2 DEF SInv, SettingsTyped, Doc
<1>4. InTurn'
  BY <1>1, <1>2 DEF SInv, InTurn, UnderWay
<1>5. Applied'
  BY <1>1, <1>2 DEF SInv, InTurn, Applied, UnderWay
<1> QED
  BY <1>2, <1>3, <1>4, <1>5 DEF SInv

LEMMA RestartStep == ASSUME SInv, Restart PROVE SInv'
<1>1. PICK s \in {row, DefaultSettings} : level' = BootLevel(launch, s) /\ env' = BootToken(launch, s)
  BY DEF Restart
<1>2. /\ saves' = [r \in Requests |-> NoSave] /\ tabs' = [t \in Tabs |-> [tabs[t] EXCEPT !.waits = {}]]
      /\ saved' = FALSE /\ overlapped' = FALSE /\ UNCHANGED <<row, launch, commits>>
  BY DEF Restart
<1>3. tabs \in [Tabs -> TabState] /\ row \in Doc /\ commits \in Nat
  BY DEF SInv, SettingsTyped
<1>4. ASSUME NEW t \in Tabs PROVE tabs'[t] \in TabState /\ Truthful(tabs[t])'
  <2>1. tabs'[t] = [tabs[t] EXCEPT !.waits = {}] /\ tabs[t] \in TabState
    BY <1>2, <1>3
  <2>2. tabs'[t] \in TabState /\ tabs'[t].seen = tabs[t].seen /\ tabs'[t].cache = tabs[t].cache
    BY <2>1 DEF TabState
  <2> QED
    BY <1>2, <2>2 DEF SInv, Truthful
<1>5. SettingsTyped'
  <2>1. s \in Doc /\ launch \in Launch
    <3>1. DefaultSettings \in Doc
      BY DEF DefaultSettings, Doc
    <3> QED
      BY <1>1, <1>3, <3>1 DEF SInv, SettingsTyped
  <2>2. level' \in BOOLEAN /\ env' \in Tokens \cup {""}
    BY <1>1, <2>1 DEF BootLevel, BootToken, Doc, Launch
  <2>3. tabs' \in [Tabs -> TabState]
    BY <1>2, <1>4
  <2> QED
    BY <1>2, <1>3, <2>1, <2>2, <2>3 DEF SettingsTyped
<1>6. InTurn' /\ Applied'
  <2>1. \A r \in Requests : saves'[r].pc = "idle"
    BY <1>2, Resting
  <2> QED
    BY <1>2, <2>1 DEF InTurn, Applied, UnderWay
<1>7. \A r \in Requests : saves'[r] = NoSave
  BY <1>2
<1> QED
  BY <1>4, <1>5, <1>6, <1>7 DEF SInv

LEMMA SettingsInductive == SInv /\ [SettingsNext]_settingsVars => SInv'
<1> SUFFICES ASSUME SInv, [SettingsNext]_settingsVars PROVE SInv'
  OBVIOUS
<1>1. ASSUME NEW t \in Tabs, OpenDashboard(t) \/ OpenSettings(t) PROVE SInv'
  BY <1>1, OpenDashboardStep, OpenSettingsStep
<1>2. ASSUME NEW r \in Requests, SaveSettings(r) \/ applyDebugLevel(r) \/ Setenv(r) \/ Replied(r) PROVE SInv'
  BY <1>2, SaveSettingsStep, ApplyDebugLevelStep, SetenvStep, RepliedStep
<1>3. ASSUME NEW r \in Requests, NEW t \in Tabs,
             (\E on \in BOOLEAN : SwitchLive(r, t, on)) \/ (\E order \in Orders : Drag(r, t, order))
      PROVE  SInv'
  BY <1>3, CopySteps
<1>4. ASSUME NEW r \in Requests, NEW t \in Tabs, NEW e \in Entries, SaveForm(r, t, e) PROVE SInv'
  BY <1>4, SaveFormStep
<1>5. CASE Restart
  BY <1>5, RestartStep
<1>6. CASE UNCHANGED settingsVars
  <2>1. UNCHANGED <<row, level, env, launch, tabs, saves, commits, saved, overlapped>>
    BY <1>6 DEF settingsVars
  <2> QED
    BY <2>1 DEF SInv, SettingsTyped, InTurn, Applied, Truthful, Known, UnderWay
<1> QED
  BY <1>1, <1>2, <1>3, <1>4, <1>5, <1>6 DEF SettingsNext

\* What a save leaves of the row when its tab knew the last one.
SaveKeeps ==
  \A r \in Requests :
    Commits(r) /\ saves[r].seen = commits =>
      CASE saves[r].touches = "order" -> row' = [row EXCEPT !.order = row'.order]
        [] saves[r].touches = "live"  -> row' = [row EXCEPT !.live = row'.live]
        [] saves[r].touches = "form"  -> row'.order = row.order

\* Only one save is committed by a step.
LEMMA CommitKeeps ==
  ASSUME SInv, NEW q \in Requests, saves[q].pc = "saving", Commit(q)
  PROVE  SaveKeeps
<1>1. /\ saves \in [Requests -> {NoSave} \cup Save] /\ row \in Doc /\ row' = saves[q].put
      /\ saves' = [saves EXCEPT ![q] = [@ EXCEPT !.pc = "committed", !.seen = commits + 1]]
  BY DEF SInv, SettingsTyped, Commit
<1>2. ASSUME NEW r \in Requests, Commits(r), saves[r].seen = commits
      PROVE  CASE saves[r].touches = "order" -> row' = [row EXCEPT !.order = row'.order]
               [] saves[r].touches = "live"  -> row' = [row EXCEPT !.live = row'.live]
               [] saves[r].touches = "form"  -> row'.order = row.order
  <2>1. r = q
    BY <1>1, <1>2 DEF Commits
  <2>2. saves[q].touches \in {"order", "live", "form"} /\ row' \in Doc /\ Spared(saves[q].touches, row', row)
    BY <1>1, <1>2, <2>1, InFlight DEF Known
  <2>3. ASSUME NEW d \in Doc, NEW e \in Doc
        PROVE  /\ Spared("order", d, e) => d = [e EXCEPT !.order = d.order]
               /\ Spared("live", d, e) => d = [e EXCEPT !.live = d.live]
               /\ Spared("form", d, e) => d.order = e.order
    BY DEF Doc, Spared
  <2>4. CASE saves[q].touches = "order"
    <3>1. row' = [row EXCEPT !.order = row'.order]
      BY <1>1, <2>2, <2>3, <2>4
    <3> QED
      BY <2>1, <2>4, <3>1
  <2>5. CASE saves[q].touches = "live"
    <3>1. row' = [row EXCEPT !.live = row'.live]
      BY <1>1, <2>2, <2>3, <2>5
    <3> QED
      BY <2>1, <2>5, <3>1
  <2>6. CASE saves[q].touches = "form"
    <3>1. row'.order = row.order
      BY <1>1, <2>2, <2>3, <2>6
    <3> QED
      BY <2>1, <2>6, <3>1
  <2> QED
    BY <2>2, <2>4, <2>5, <2>6
<1> QED
  BY <1>2 DEF SaveKeeps

LEMMA EverySaveKeeps == ASSUME SInv, [SettingsNext]_settingsVars PROVE SaveKeeps
<1>1. ASSUME NEW r \in Requests, SaveSettings(r) PROVE SaveKeeps
  <2>1. CASE Commit(r)
    BY <1>1, <2>1, CommitKeeps DEF SaveSettings
  <2>2. CASE Ends(r, tabs[saves[r].tab])
    <3>1. saves' = [saves EXCEPT ![r] = NoSave] /\ saves \in [Requests -> {NoSave} \cup Save]
      BY <2>2 DEF Ends, SInv, SettingsTyped
    <3>2. \A q \in Requests : saves'[q] = NoSave \/ saves'[q] = saves[q]
      BY <3>1
    <3> QED
      BY <3>2, Resting DEF SaveKeeps, Commits
  <2> QED
    BY <1>1, <2>1, <2>2 DEF SaveSettings
<1>2. ASSUME \A q \in Requests : saves[q].pc = "saving" => saves'[q].pc # "committed"
      PROVE  SaveKeeps
  BY <1>2 DEF SaveKeeps, Commits
<1>3. saves \in [Requests -> {NoSave} \cup Save]
  BY DEF SInv, SettingsTyped
<1>4. ASSUME NEW r \in Requests, NEW s, s.pc # "committed", saves' = [saves EXCEPT ![r] = s] PROVE SaveKeeps
  BY <1>2, <1>3, <1>4
<1>5. ASSUME NEW t \in Tabs, OpenDashboard(t) \/ OpenSettings(t) PROVE SaveKeeps
  BY <1>2, <1>5 DEF OpenDashboard, OpenSettings
<1>6. ASSUME NEW r \in Requests, applyDebugLevel(r) \/ Setenv(r) PROVE SaveKeeps
  <2>1. saves[r] \in Save
    BY <1>6, InFlight DEF applyDebugLevel, Setenv
  <2>2. [saves[r] EXCEPT !.pc = "leveled"].pc = "leveled" /\ [saves[r] EXCEPT !.pc = "replied"].pc = "replied"
    BY <2>1 DEF Save
  <2> QED
    BY <1>4, <1>6, <2>2 DEF applyDebugLevel, Setenv
<1>7. ASSUME NEW r \in Requests, Replied(r) PROVE SaveKeeps
  BY <1>4, <1>7, Resting DEF Replied, Ends
<1>8. ASSUME NEW r \in Requests, NEW t \in Tabs, NEW put, NEW touches, NEW tab, Send(r, t, put, touches, tab)
      PROVE  SaveKeeps
  BY <1>4, <1>8 DEF Send
<1>9. ASSUME NEW r \in Requests, NEW t \in Tabs,
             \/ \E on \in BOOLEAN : SwitchLive(r, t, on)
             \/ \E order \in Orders : Drag(r, t, order)
             \/ \E e \in Entries : SaveForm(r, t, e)
      PROVE  SaveKeeps
  BY <1>8, <1>9 DEF SwitchLive, Drag, SendCopy, SaveForm
<1>10. CASE Restart
  BY <1>2, <1>10, Resting DEF Restart
<1>11. CASE UNCHANGED settingsVars
  BY <1>2, <1>11 DEF settingsVars
<1> QED
  BY <1>1, <1>5, <1>6, <1>7, <1>9, <1>10, <1>11 DEF SettingsNext

-----------------------------------------------------------------------------
(***************************************************************************)
(* The config document.                                                    *)
(***************************************************************************)
WellNamed(n) == n # NoName /\ IsSeq(n.slug)
TrackersOK(l) ==
  /\ IsSeq(l)
  /\ \A i \in DOMAIN l :
       /\ l[i] = [id |-> l[i].id, key |-> l[i].key, name |-> l[i].name]
       /\ l[i].id \in 1 .. MaxId /\ IsSeq(l[i].key) /\ WellNamed(l[i].name)
  /\ \A i, j \in DOMAIN l : l[i].id = l[j].id => i = j
  /\ \A i, j \in DOMAIN l : l[i].key = l[j].key /\ l[i].key # <<>> => i = j
WrittenOK(d) ==
  /\ IsSeq(d)
  /\ \A i \in DOMAIN d :
       /\ d[i] = [plugin |-> d[i].plugin, key |-> d[i].key, name |-> d[i].name]
       /\ IsSeq(d[i].key) /\ IsSeq(d[i].name.slug)
ParsedOK(d) ==
  /\ WrittenOK(d)
  /\ \A i \in DOMAIN d : d[i].plugin # "" /\ d[i].key # <<>> /\ d[i].name # NoName
  /\ \A i, j \in DOMAIN d : d[i].key = d[j].key => i = j
DInv ==
  /\ TrackersOK(listed)
  /\ stage = "written" => WrittenOK(doc)
  /\ stage = "parsed" => ParsedOK(doc)

LEMMA SeqFacts ==
  ASSUME NEW s, IsSeq(s)
  PROVE  /\ Len(s) \in Nat /\ DOMAIN s = 1 .. Len(s)
         /\ \A i \in DOMAIN s : s[i] \in ToSet(s)
BY DEF IsSeq, ToSet

LEMMA AnySeq ==
  ASSUME NEW S, NEW s \in Seq(S)
  PROVE  IsSeq(s)
<1>1. s \in [1 .. Len(s) -> S] /\ Len(s) \in Nat /\ DOMAIN s = 1 .. Len(s)
  OBVIOUS
<1>2. s \in [1 .. Len(s) -> ToSet(s)]
  BY <1>1 DEF ToSet
<1> QED
  BY <1>1, <1>2 DEF IsSeq

\* Two sequences with one more element are one with one more element.
LEMMA AppendOne ==
  ASSUME NEW s, IsSeq(s), NEW e
  PROVE  /\ IsSeq(Append(s, e)) /\ Append(s, e) # <<>> /\ Len(Append(s, e)) = Len(s) + 1
         /\ Append(s, e)[Len(s) + 1] = e /\ \A i \in 1 .. Len(s) : Append(s, e)[i] = s[i]
<1> DEFINE S == ToSet(s) \cup {e}
           t == Append(s, e)
<1>1. s \in Seq(S) /\ e \in S
  BY DEF IsSeq
<1> HIDE DEF S
<1>2. /\ t \in Seq(S) /\ Len(t) = Len(s) + 1 /\ Len(s) \in Nat
      /\ t[Len(s) + 1] = e /\ \A i \in 1 .. Len(s) : t[i] = s[i]
  BY <1>1, AppendProperties
<1> HIDE DEF t
<1>3. IsSeq(t) /\ t # <<>>
  BY <1>2, AnySeq
<1> QED
  BY <1>2, <1>3 DEF t

LEMMA AppendSame ==
  ASSUME NEW s, IsSeq(s), NEW e, NEW t, IsSeq(t), NEW f, Append(s, e) = Append(t, f)
  PROVE  e = f
<1>1. Len(s) \in Nat /\ Len(t) \in Nat
  BY SeqFacts
<1>2. Len(s) + 1 = Len(t) + 1
  BY AppendOne
<1>3. Len(s) = Len(t)
  BY <1>1, <1>2
<1> QED
  BY <1>3, AppendOne

LEMMA BaseKeys ==
  ASSUME NEW t, IsSeq(t.key), IsSeq(t.name.slug)
  PROVE  /\ IsSeq(BaseKey(t)) /\ BaseKey(t) # <<>>
         /\ IsSeq(Append(BaseKey(t), t.id)) /\ Append(BaseKey(t), t.id) # <<>>
<1>1. IsSeq(<<TrackerWord, t.id>>) /\ <<TrackerWord, t.id>> # <<>>
  <2>1. <<TrackerWord, t.id>> \in Seq({TrackerWord, t.id})
    OBVIOUS
  <2> QED
    BY <2>1, AnySeq
<1>2. IsSeq(BaseKey(t)) /\ BaseKey(t) # <<>>
  BY <1>1 DEF BaseKey, slugify
<1> QED
  BY <1>2, AppendOne

(***************************************************************************)
(* Marshal, one tracker after the other.                                   *)
(***************************************************************************)
Exported(t, keys) == [plugin |-> "p", name |-> t.name,
                      key |-> IF BaseKey(t) \in keys THEN Append(BaseKey(t), t.id) ELSE BaseKey(t)]
Marshals(R, V, l) ==
  /\ R \in [0 .. Len(l) -> Seq(V)]
  /\ R[0] = <<>>
  /\ \A k \in 1 .. Len(l) : R[k] = Append(R[k - 1], Exported(l[k], Keys(R[k - 1])))
  /\ Marshal(l) = R[Len(l)]

LEMMA MarshalRun ==
  ASSUME NEW l, IsSeq(l)
  PROVE  \E R, V : Marshals(R, V, l)
<1> DEFINE n == Len(l)
           E == {Exported(l[i], {}) : i \in 1 .. n} \cup {Exported(l[i], {BaseKey(l[i])}) : i \in 1 .. n}
           V == Seq(E)
           empty == <<>>
           g == [p \in (1 .. n) \X V |-> Append(p[2], Exported(l[p[1]], Keys(p[2])))]
           Eq(F) == F = [t \in SUBSET DOMAIN l |->
                           IF t = {} THEN <<>>
                           ELSE Append(F[t \ {Max(t)}],
                                       [plugin |-> "p", name |-> l[Max(t)].name,
                                        key |-> IF BaseKey(l[Max(t)]) \in Keys(F[t \ {Max(t)}])
                                                THEN Append(BaseKey(l[Max(t)]), l[Max(t)].id) ELSE BaseKey(l[Max(t)])])]
           fold == CHOOSE F : Eq(F)
<1>1. n \in Nat /\ DOMAIN l = 1 .. n /\ empty \in V
  BY SeqFacts
<1>0. \A k \in 1 .. n : \A keys : Exported(l[k], keys) \in E
  BY DEF Exported
<1> HIDE DEF n, E
<1>2. ASSUME NEW k \in 1 .. n, NEW v \in V
      PROVE  g[<<k, v>>] = Append(v, Exported(l[k], Keys(v))) /\ g[<<k, v>>] \in V
  <2>1. <<k, v>> \in (1 .. n) \X V /\ Exported(l[k], Keys(v)) \in E
    BY <1>0
  <2> QED
    BY <2>1
<1>3. g \in [(1 .. n) \X V -> V]
  <2>1. \A p \in (1 .. n) \X V : p[1] \in 1 .. n /\ p[2] \in V /\ Exported(l[p[1]], Keys(p[2])) \in E
    BY <1>0
  <2> QED
    BY <2>1
<1> HIDE DEF V, g
<1>4. PICK F : FoldOf(F, n, V, empty, g)
  <2> HIDE DEF empty
  <2> QED
    BY <1>1, <1>3, FoldExists
<1>5. ASSUME NEW t \in SUBSET (1 .. n), t # {} PROVE Max(t) \in 1 .. n /\ t \ {Max(t)} \in SUBSET (1 .. n)
  <2>1. t \in SUBSET Int /\ n \in Int /\ \A x \in t : x <= n
    BY <1>1
  <2>2. Max(t) \in t
    BY <1>5, <2>1, MaxUpTo
  <2> QED
    BY <2>2
<1>6. Eq(F)
  <2>1. ASSUME NEW t \in SUBSET (1 .. n), t # {}
        PROVE  F[t] = Append(F[t \ {Max(t)}], Exported(l[Max(t)], Keys(F[t \ {Max(t)}])))
    BY <1>2, <1>4, <1>5, <2>1 DEF FoldOf
  <2>2. F[{}] = <<>> /\ F \in [SUBSET (1 .. n) -> V]
    BY <1>4 DEF FoldOf
  <2>3. F = [t \in SUBSET (1 .. n) |->
               IF t = {} THEN <<>> ELSE Append(F[t \ {Max(t)}], Exported(l[Max(t)], Keys(F[t \ {Max(t)}])))]
    BY <2>1, <2>2
  <2> QED
    BY <1>1, <2>3 DEF Exported
<1>7. Eq(fold)
  <2> HIDE DEF Eq
  <2> QED BY <1>6
<1>8. Folds(fold, n, V, empty, g)
  <2> DEFINE f == fold
  <2>1. Eq(f)
    BY <1>7
  <2> HIDE DEF f, fold
  <2>2. f[{}] = <<>>
    BY <1>1, <2>1
  <2>3. ASSUME NEW t \in SUBSET (1 .. n), t # {}, f[t \ {Max(t)}] \in V
        PROVE  f[t] = g[<<Max(t), f[t \ {Max(t)}]>>]
    <3>1. f[t] = Append(f[t \ {Max(t)}], Exported(l[Max(t)], Keys(f[t \ {Max(t)}])))
      BY <1>1, <2>1, <2>3 DEF Exported
    <3> QED
      BY <1>2, <1>5, <2>3, <3>1
  <2> QED
    BY <2>2, <2>3 DEF f, Folds
<1>9. Marshal(l) = fold[1 .. n]
  BY <1>1 DEF Marshal, FoldLeft, MapThenFoldSet
<1> HIDE DEF fold
<1> DEFINE R == [k \in 0 .. n |-> fold[1 .. k]]
<1>10. RunOf(R, n, V, empty, g)
  <2> HIDE DEF empty
  <2> QED
    BY <1>1, <1>3, <1>8, FoldRun
<1>11. Marshal(l) = R[n]
  BY <1>1, <1>9
<1> HIDE DEF R
<1>12. ASSUME NEW k \in 1 .. n PROVE R[k] = Append(R[k - 1], Exported(l[k], Keys(R[k - 1])))
  <2>1. k - 1 \in 0 .. n
    BY <1>1
  <2>2. R[k] = g[<<k, R[k - 1]>>] /\ R[k - 1] \in V
    BY <1>10, <2>1 DEF RunOf
  <2> QED
    BY <1>2, <2>2
<1>13. Marshals(R, E, l)
  BY <1>10, <1>11, <1>12 DEF n, V, RunOf, Marshals
<1> QED
  BY <1>13

\* What Marshal writes of the i-th tracker depends on the keys it has written before.
KeysBefore(out, i) == {out[j].key : j \in 1 .. i - 1}
LEMMA MarshalIs ==
  ASSUME NEW l, IsSeq(l)
  PROVE  /\ IsSeq(Marshal(l)) /\ Len(Marshal(l)) = Len(l)
         /\ \A i \in 1 .. Len(l) : Marshal(l)[i] = Exported(l[i], KeysBefore(Marshal(l), i))
<1>0. PICK R, V : Marshals(R, V, l)
  BY MarshalRun
<1> DEFINE n == Len(l)
           Same(k) == /\ Len(R[k]) = k
                      /\ \A i \in 1 .. k : R[k][i] = Exported(l[i], Keys(R[i - 1])) /\ R[k][i] = R[i][i]
           S == {k \in 0 .. n : Same(k)}
<1>1. n \in Nat /\ R \in [0 .. n -> Seq(V)] /\ R[0] = <<>> /\ Marshal(l) = R[n]
      /\ \A k \in 1 .. n : R[k] = Append(R[k - 1], Exported(l[k], Keys(R[k - 1])))
  BY <1>0, SeqFacts DEF Marshals
<1> HIDE DEF n
<1>2. 0 \in S
  BY <1>1
<1>3. ASSUME NEW k \in 1 .. n, k - 1 \in S PROVE k \in S
  <2> DEFINE e == Exported(l[k], Keys(R[k - 1]))
             s == R[k - 1]
  <2>1. s \in Seq(V) /\ Len(s) = k - 1 /\ R[k] = Append(s, e) /\ k - 1 \in 0 .. n
    BY <1>1, <1>3
  <2>2. IsSeq(s)
    BY <2>1, AnySeq
  <2> HIDE DEF s, e
  <2>3. Len(R[k]) = (k - 1) + 1 /\ R[k][(k - 1) + 1] = e /\ \A i \in 1 .. k - 1 : R[k][i] = s[i]
    BY <2>1, <2>2, AppendOne
  <2>4. Len(R[k]) = k /\ R[k][k] = e
    BY <2>3
  <2>5. ASSUME NEW i \in 1 .. k PROVE R[k][i] = Exported(l[i], Keys(R[i - 1])) /\ R[k][i] = R[i][i]
    <3>1. CASE i = k
      BY <2>4, <3>1 DEF e
    <3>2. CASE i # k
      <4>1. i \in 1 .. k - 1
        BY <3>2
      <4>2. R[k][i] = s[i]
        BY <2>3, <4>1
      <4>3. s[i] = Exported(l[i], Keys(R[i - 1])) /\ s[i] = R[i][i]
        BY <1>3, <4>1 DEF s
      <4> QED
        BY <4>2, <4>3
    <3> QED
      BY <3>1, <3>2
  <2>6. Same(k)
    BY <2>4, <2>5
  <2> HIDE DEF Same
  <2> QED
    BY <2>6
<1>4. 0 .. n \subseteq S
  <2> HIDE DEF S
  <2> QED BY <1>1, <1>2, <1>3, InductUpTo
<1>5. \A k \in 0 .. n : Same(k)
  BY <1>4
<1>6. Len(Marshal(l)) = n /\ IsSeq(Marshal(l))
  <2>1. n \in 0 .. n
    BY <1>1
  <2>2. R[n] \in Seq(V)
    BY <1>1, <2>1
  <2> QED
    BY <1>1, <1>5, <2>1, <2>2, AnySeq
<1>7. ASSUME NEW i \in 1 .. n PROVE Marshal(l)[i] = Exported(l[i], KeysBefore(Marshal(l), i))
  <2>1. n \in 0 .. n /\ i - 1 \in 0 .. n /\ i \in 0 .. n
    BY <1>1
  <2>2. Marshal(l)[i] = Exported(l[i], Keys(R[i - 1]))
    BY <1>1, <1>5, <2>1
  <2>3. \A j \in 1 .. i - 1 : R[i - 1][j] = R[j][j] /\ Marshal(l)[j] = R[j][j]
    <3> TAKE j \in 1 .. i - 1
    <3>1. j \in 1 .. n
      BY <1>1
    <3> QED
      BY <1>1, <1>5, <2>1, <3>1
  <2>4. DOMAIN R[i - 1] = 1 .. i - 1
    <3>1. R[i - 1] \in Seq(V) /\ Len(R[i - 1]) = i - 1
      BY <1>1, <1>5, <2>1
    <3> QED
      BY <3>1
  <2>5. Keys(R[i - 1]) = KeysBefore(Marshal(l), i)
    BY <2>3, <2>4 DEF Keys, KeysBefore
  <2> QED
    BY <2>2, <2>5
<1> QED
  BY <1>6, <1>7 DEF n

LEMMA ExportedFields ==
  ASSUME NEW t, NEW keys, NEW e, e = Exported(t, keys)
  PROVE  /\ e.plugin = "p" /\ e.name = t.name
         /\ e.key = IF BaseKey(t) \in keys THEN Append(BaseKey(t), t.id) ELSE BaseKey(t)
         /\ e = [plugin |-> e.plugin, key |-> e.key, name |-> e.name]
<1> DEFINE k == IF BaseKey(t) \in keys THEN Append(BaseKey(t), t.id) ELSE BaseKey(t)
<1>1. e = [plugin |-> "p", name |-> t.name, key |-> k]
  BY DEF Exported
<1> HIDE DEF k
<1>2. e.plugin = "p" /\ e.name = t.name /\ e.key = k /\ e = [plugin |-> e.plugin, key |-> e.key, name |-> e.name]
  BY <1>1
<1> QED
  BY <1>2 DEF k

\* Keys as Marshal writes them are never empty, and unique unless there is a trap.
LEMMA MarshalWrites ==
  ASSUME TrackersOK(listed)
  PROVE  /\ WrittenOK(Marshal(listed)) /\ Len(Marshal(listed)) = Len(listed)
         /\ \A i \in 1 .. Len(listed) :
              /\ Marshal(listed)[i].plugin = "p" /\ Marshal(listed)[i].name = listed[i].name
              /\ Marshal(listed)[i].key # <<>> /\ IsSeq(Marshal(listed)[i].key)
              /\ Marshal(listed)[i].key = IF BaseKey(listed[i]) \in KeysBefore(Marshal(listed), i)
                                          THEN Append(BaseKey(listed[i]), listed[i].id) ELSE BaseKey(listed[i])
<1> DEFINE out == Marshal(listed)
<1>1. IsSeq(listed) /\ DOMAIN listed = 1 .. Len(listed)
  BY SeqFacts DEF TrackersOK
<1>2. /\ IsSeq(out) /\ Len(out) = Len(listed)
      /\ \A i \in 1 .. Len(listed) : out[i] = Exported(listed[i], KeysBefore(out, i))
  BY <1>1, MarshalIs
<1> HIDE DEF out
<1>3. DOMAIN out = 1 .. Len(listed)
  BY <1>2, SeqFacts
<1>4. \A i \in 1 .. Len(listed) :
        /\ out[i].plugin = "p" /\ out[i].name = listed[i].name
        /\ out[i].key = IF BaseKey(listed[i]) \in KeysBefore(out, i)
                        THEN Append(BaseKey(listed[i]), listed[i].id) ELSE BaseKey(listed[i])
        /\ out[i] = [plugin |-> out[i].plugin, key |-> out[i].key, name |-> out[i].name]
  BY <1>2, ExportedFields
<1>5. \A i \in 1 .. Len(listed) : out[i].key # <<>> /\ IsSeq(out[i].key) /\ IsSeq(out[i].name.slug)
  <2> TAKE i \in 1 .. Len(listed)
  <2>1. IsSeq(listed[i].key) /\ IsSeq(listed[i].name.slug)
    BY <1>1 DEF TrackersOK, WellNamed
  <2>2. /\ IsSeq(BaseKey(listed[i])) /\ BaseKey(listed[i]) # <<>>
        /\ IsSeq(Append(BaseKey(listed[i]), listed[i].id)) /\ Append(BaseKey(listed[i]), listed[i].id) # <<>>
    BY <2>1, BaseKeys
  <2>3. out[i].name = listed[i].name /\ out[i].key \in {BaseKey(listed[i]), Append(BaseKey(listed[i]), listed[i].id)}
    BY <1>4
  <2> QED
    BY <2>1, <2>2, <2>3
<1>6. WrittenOK(out)
  BY <1>2, <1>3, <1>4, <1>5 DEF WrittenOK
<1> QED
  BY <1>2, <1>4, <1>5, <1>6 DEF out

LEMMA KeysDiffer ==
  ASSUME TrackersOK(listed), NoTrap
  PROVE  \A i, j \in 1 .. Len(listed) : Marshal(listed)[i].key = Marshal(listed)[j].key => i = j
<1> DEFINE out == Marshal(listed)
           base(i) == BaseKey(listed[i])
<1>1. DOMAIN listed = 1 .. Len(listed) /\ Len(listed) \in Nat
  BY SeqFacts DEF TrackersOK
<1>2. \A i \in 1 .. Len(listed) :
        out[i].key = IF base(i) \in KeysBefore(out, i) THEN Append(base(i), listed[i].id) ELSE base(i)
  BY MarshalWrites
<1> HIDE DEF out
<1>3. ASSUME NEW i \in 1 .. Len(listed), NEW j \in 1 .. Len(listed), i < j PROVE out[i].key # out[j].key
  <2>1. i \in 1 .. j - 1
    BY <1>3
  <2>2. CASE base(j) \notin KeysBefore(out, j)
    BY <1>2, <2>1, <2>2 DEF KeysBefore
  <2>3. CASE base(j) \in KeysBefore(out, j) /\ base(i) \in KeysBefore(out, i)
    <3>1. out[i].key = Append(base(i), listed[i].id) /\ out[j].key = Append(base(j), listed[j].id)
      BY <1>2, <2>3
    <3>2. IsSeq(base(i)) /\ IsSeq(base(j))
      BY <1>1, BaseKeys DEF TrackersOK, WellNamed
    <3>3. listed[i].id # listed[j].id
      BY <1>1, <1>3 DEF TrackersOK
    <3> HIDE DEF base
    <3> QED
      BY <3>1, <3>2, <3>3, AppendSame
  <2>4. CASE base(j) \in KeysBefore(out, j) /\ base(i) \notin KeysBefore(out, i)
    <3>1. out[i].key = base(i) /\ out[j].key = Append(base(j), listed[j].id)
      BY <1>2, <2>4
    <3> QED
      BY <1>1, <3>1 DEF NoTrap
  <2> QED
    BY <2>2, <2>3, <2>4
<1>4. \A i, j \in 1 .. Len(listed) : i < j \/ j < i \/ i = j
  BY <1>1
<1> QED
  BY <1>3, <1>4 DEF out

(***************************************************************************)
(* Parse.                                                                  *)
(***************************************************************************)
FullKey(e) == IF e.key # <<>> THEN e.key ELSE slugify(e.name)
Full(e) == [plugin |-> e.plugin, key |-> FullKey(e), name |-> IF e.name = NoName THEN Named(FullKey(e)) ELSE e.name]

LEMMA Refilled ==
  ASSUME NEW e, NEW p, NEW k, NEW n, e = [plugin |-> p, key |-> k, name |-> n], NEW x, NEW y,
         NEW h, h = [e EXCEPT !.key = x, !.name = y]
  PROVE  h = [plugin |-> p, key |-> x, name |-> y]
OBVIOUS

LEMMA NormalizeIs ==
  ASSUME NEW d, WrittenOK(d)
  PROVE  /\ normalize(d).doc = [i \in DOMAIN d |-> Full(d[i])]
         /\ normalize(d).ok <=> /\ \A i \in DOMAIN d : d[i].plugin # "" /\ FullKey(d[i]) # <<>>
                                /\ \A i, j \in DOMAIN d : FullKey(d[i]) = FullKey(d[j]) => i = j
         /\ normalize(d) = [doc |-> normalize(d).doc, ok |-> normalize(d).ok] /\ normalize(d).ok \in BOOLEAN
<1> DEFINE key(i) == IF d[i].key # <<>> THEN d[i].key ELSE slugify(d[i].name)
           full == [i \in DOMAIN d |-> [d[i] EXCEPT !.key = key(i), !.name = IF @ = NoName THEN Named(key(i)) ELSE @]]
<1>1. ASSUME NEW i \in DOMAIN d PROVE full[i] = Full(d[i])
  <2>1. d[i] = [plugin |-> d[i].plugin, key |-> d[i].key, name |-> d[i].name]
    BY DEF WrittenOK
  <2> DEFINE k0 == key(i)
             n0 == IF d[i].name = NoName THEN Named(k0) ELSE d[i].name
  <2>3. full[i] = [d[i] EXCEPT !.key = k0, !.name = n0]
    OBVIOUS
  <2>4. Full(d[i]) = [plugin |-> d[i].plugin, key |-> k0, name |-> n0]
    BY DEF Full, FullKey
  <2> HIDE DEF full, k0, n0
  <2>5. [d[i] EXCEPT !.key = k0, !.name = n0] = [plugin |-> d[i].plugin, key |-> k0, name |-> n0]
    <3>1. PICK h : h = [d[i] EXCEPT !.key = k0, !.name = n0]
      OBVIOUS
    <3>2. h = [plugin |-> d[i].plugin, key |-> k0, name |-> n0]
      BY <2>1, <3>1, Refilled
    <3> QED
      BY <3>1, <3>2
  <2> QED
    BY <2>3, <2>4, <2>5
<1>2. full = [i \in DOMAIN d |-> Full(d[i])]
  BY <1>1
<1>3. normalize(d) = [doc |-> full,
                      ok  |-> /\ \A i \in DOMAIN full : full[i].plugin # "" /\ full[i].key # <<>>
                              /\ \A i, j \in DOMAIN full : full[i].key = full[j].key => i = j]
  BY Zenon DEF normalize
<1> HIDE DEF full
<1>4. \A i \in DOMAIN d : full[i].plugin = d[i].plugin /\ full[i].key = FullKey(d[i])
  BY <1>2 DEF Full
<1>5. DOMAIN full = DOMAIN d
  BY <1>2
<1> DEFINE ok == /\ \A i \in DOMAIN full : full[i].plugin # "" /\ full[i].key # <<>>
                 /\ \A i, j \in DOMAIN full : full[i].key = full[j].key => i = j
<1>6. ok <=> /\ \A i \in DOMAIN d : d[i].plugin # "" /\ FullKey(d[i]) # <<>>
             /\ \A i, j \in DOMAIN d : FullKey(d[i]) = FullKey(d[j]) => i = j
  <2>1. (\A i \in DOMAIN full : full[i].plugin # "" /\ full[i].key # <<>>)
          <=> (\A i \in DOMAIN d : d[i].plugin # "" /\ FullKey(d[i]) # <<>>)
    BY <1>4, <1>5, Zenon
  <2>2. (\A i, j \in DOMAIN full : full[i].key = full[j].key => i = j)
          <=> (\A i, j \in DOMAIN d : FullKey(d[i]) = FullKey(d[j]) => i = j)
    BY <1>4, <1>5, Zenon
  <2> QED
    BY <2>1, <2>2
<1>7. ok \in BOOLEAN
  OBVIOUS
<1>8. normalize(d) = [doc |-> full, ok |-> ok]
  BY <1>3
<1> HIDE DEF ok
<1>9. normalize(d).doc = full /\ normalize(d).ok = ok
  BY <1>8
<1> QED
  BY <1>2, <1>6, <1>7, <1>8, <1>9, Zenon

LEMMA ParseGives ==
  ASSUME NEW d, WrittenOK(d), normalize(d).ok
  PROVE  ParsedOK(normalize(d).doc)
<1> DEFINE f == normalize(d).doc
<1>1. /\ f = [i \in DOMAIN d |-> Full(d[i])]
      /\ \A i \in DOMAIN d : d[i].plugin # "" /\ FullKey(d[i]) # <<>>
      /\ \A i, j \in DOMAIN d : FullKey(d[i]) = FullKey(d[j]) => i = j
  BY NormalizeIs
<1> HIDE DEF f
<1>2. DOMAIN d = 1 .. Len(d) /\ Len(d) \in Nat
  BY SeqFacts DEF WrittenOK
<1>3. f \in Seq({Full(d[i]) : i \in DOMAIN d})
  <2> DEFINE V == {Full(d[i]) : i \in DOMAIN d}
  <2>1. \A i \in 1 .. Len(d) : Full(d[i]) \in V
    BY <1>2
  <2> HIDE DEF V
  <2>2. [i \in 1 .. Len(d) |-> Full(d[i])] \in Seq(V)
    BY <1>2, <2>1
  <2> QED
    BY <1>1, <1>2, <2>2 DEF V
<1>4. IsSeq(f) /\ DOMAIN f = DOMAIN d
  BY <1>1, <1>3, AnySeq
<1>5. ASSUME NEW i \in DOMAIN d
      PROVE  /\ f[i].plugin = d[i].plugin /\ f[i].key = FullKey(d[i])
             /\ f[i] = [plugin |-> f[i].plugin, key |-> f[i].key, name |-> f[i].name]
             /\ IsSeq(f[i].key) /\ IsSeq(f[i].name.slug) /\ f[i].name # NoName
  <2>1. f[i] = Full(d[i])
    BY <1>1
  <2>2. IsSeq(FullKey(d[i])) /\ IsSeq(d[i].name.slug)
    BY DEF FullKey, WrittenOK, slugify
  <2>3. Named(FullKey(d[i])) # NoName /\ Named(FullKey(d[i])).slug = FullKey(d[i])
    BY DEF Named, NoName
  <2> QED
    BY <2>1, <2>2, <2>3 DEF Full
<1>6. WrittenOK(f)
  BY <1>4, <1>5 DEF WrittenOK
<1> DEFINE D == DOMAIN d
<1> HIDE DEF D
<1>7. \A i \in D : f[i].plugin # "" /\ f[i].key # <<>> /\ f[i].name # NoName
  <2> TAKE i \in D
  <2>1. i \in DOMAIN d
    BY DEF D
  <2>2. f[i].plugin = d[i].plugin /\ f[i].key = FullKey(d[i]) /\ f[i].name # NoName
    BY <1>5, <2>1
  <2>3. d[i].plugin # "" /\ FullKey(d[i]) # <<>>
    BY <1>1, <2>1
  <2> QED
    BY <2>2, <2>3
<1>8. \A i, j \in D : f[i].key = f[j].key => i = j
  <2> SUFFICES ASSUME NEW i \in DOMAIN d, NEW j \in DOMAIN d, f[i].key = f[j].key PROVE i = j
    BY DEF D
  <2>1. f[i].key = FullKey(d[i]) /\ f[j].key = FullKey(d[j])
    BY <1>5
  <2>2. FullKey(d[i]) = FullKey(d[j]) => i = j
    BY <1>1, Zenon
  <2> QED
    BY <2>1, <2>2
<1> QED
  BY <1>4, <1>6, <1>7, <1>8 DEF ParsedOK, f, D

\* The export is read back as it was written.
LEMMA Reparses ==
  ASSUME TrackersOK(listed)
  PROVE  ExportReparses
<1> DEFINE out == Marshal(listed)
<1>1. WrittenOK(out) /\ Len(out) = Len(listed) /\ IsSeq(out) /\ DOMAIN out = 1 .. Len(listed)
  BY MarshalWrites, SeqFacts DEF WrittenOK
<1>2. \A i \in DOMAIN out : /\ out[i].plugin = "p" /\ out[i].key # <<>> /\ out[i].name # NoName
                            /\ out[i] = [plugin |-> out[i].plugin, key |-> out[i].key, name |-> out[i].name]
  BY <1>1, MarshalWrites, SeqFacts DEF WrittenOK, TrackersOK, WellNamed
<1> HIDE DEF out
<1>3. ASSUME NoTrap PROVE normalize(out) = [doc |-> out, ok |-> TRUE]
  <2>1. \A i \in DOMAIN out : FullKey(out[i]) = out[i].key /\ Full(out[i]) = out[i]
    BY <1>2 DEF FullKey, Full
  <2>2. out = [i \in DOMAIN out |-> out[i]]
    BY <1>1 DEF IsSeq
  <2>3. normalize(out).doc = out
    <3>1. normalize(out).doc = [i \in DOMAIN out |-> Full(out[i])]
      BY <1>1, NormalizeIs
    <3>2. [i \in DOMAIN out |-> Full(out[i])] = [i \in DOMAIN out |-> out[i]]
      BY <2>1
    <3> QED
      BY <2>2, <3>1, <3>2
  <2>4. \A i, j \in DOMAIN out : out[i].key = out[j].key => i = j
    BY <1>1, <1>3, KeysDiffer DEF out
  <2>5. normalize(out).ok
    <3>1. \A i \in DOMAIN out : out[i].plugin # "" /\ FullKey(out[i]) # <<>>
      BY <1>2, <2>1
    <3>2. \A i, j \in DOMAIN out : FullKey(out[i]) = FullKey(out[j]) => i = j
      BY <2>1, <2>4
    <3>3. normalize(out).ok <=> /\ \A i \in DOMAIN out : out[i].plugin # "" /\ FullKey(out[i]) # <<>>
                                /\ \A i, j \in DOMAIN out : FullKey(out[i]) = FullKey(out[j]) => i = j
      BY <1>1, NormalizeIs
    <3> QED
      BY <3>1, <3>2, <3>3
  <2> QED
    BY <1>1, <2>3, <2>5, NormalizeIs
<1> QED
  BY <1>1, <1>3 DEF ExportReparses, out

LEMMA ManagedKeep ==
  ASSUME TrackersOK(listed)
  PROVE  ManagedKeepKeys
<1> SUFFICES ASSUME NoTrap, NEW i \in DOMAIN listed, listed[i].key # <<>>, Marshal(listed)[i].key # listed[i].key
             PROVE  Taken(i)
  BY DEF ManagedKeepKeys
<1> DEFINE out == Marshal(listed)
<1>1. DOMAIN listed = 1 .. Len(listed) /\ Len(listed) \in Nat
  BY SeqFacts DEF TrackersOK
<1>2. BaseKey(listed[i]) = listed[i].key
  BY DEF BaseKey
<1>3. \A j \in 1 .. Len(listed) :
        out[j].key = IF BaseKey(listed[j]) \in KeysBefore(out, j) THEN Append(BaseKey(listed[j]), listed[j].id) ELSE BaseKey(listed[j])
  BY MarshalWrites
<1> HIDE DEF out
<1>4. listed[i].key \in KeysBefore(out, i)
  BY <1>1, <1>2, <1>3 DEF out
<1>5. PICK j \in 1 .. i - 1 : out[j].key = listed[i].key
  BY <1>4 DEF KeysBefore
<1>6. j \in 1 .. Len(listed) /\ j # i
  BY <1>1
<1>7. CASE listed[j].key = <<>>
  BY <1>5, <1>7 DEF Taken, out
<1>8. CASE listed[j].key # <<>>
  <2>1. BaseKey(listed[j]) = listed[j].key /\ listed[j].key # listed[i].key
    BY <1>1, <1>6, <1>8 DEF BaseKey, TrackersOK
  <2>2. out[j].key = Append(BaseKey(listed[j]), listed[j].id)
    BY <1>3, <1>5, <1>6, <2>1
  <2>3. BaseKey(listed[i]) = Append(BaseKey(listed[j]), listed[j].id)
    BY <1>2, <1>5, <2>2
  <2> QED
    BY <1>1, <1>6, <2>3 DEF NoTrap
<1> QED
  BY <1>7, <1>8

(***************************************************************************)
(* Import.  The trackers after it are the old ones at the positions h and  *)
(* one for each entry of the document at the positions g.                  *)
(***************************************************************************)
Updated(t, d) == [id |-> t.id, key |-> t.key,
                  name |-> IF t.key = <<>> THEN t.name ELSE d[CHOOSE i \in DOMAIN d : d[i].key = t.key].name]
Free == Max({listed[i].id : i \in DOMAIN listed} \cup {0})
Stays(t, d) == t.key = <<>> \/ t.key \in Keys(d)
Imported(l2, d, m, h, q, g) ==
  /\ m \in Nat /\ q \in Nat /\ IsSeq(l2) /\ Len(l2) = m + q
  /\ Picks(h, m, Len(listed), listed, {t \in ToSet(listed) : Stays(t, d)})
  /\ Picks(g, q, Len(d), d, {e \in ToSet(d) : e.key \notin Keys(listed)})
  /\ \A i \in 1 .. m : l2[i] = Updated(listed[h[i]], d)
  /\ \A i \in 1 .. q : l2[m + i] = [id |-> Free + i, key |-> d[g[i]].key, name |-> d[g[i]].name]

LEMMA Tuple ==
  ASSUME NEW n \in Nat, NEW f, f = [i \in 1 .. n |-> f[i]]
  PROVE  IsSeq(f) /\ Len(f) = n
<1>1. ToSet(f) = {f[i] : i \in 1 .. n}
  BY DEF ToSet
<1>2. f \in [1 .. n -> ToSet(f)]
  BY <1>1
<1> HIDE DEF ToSet
<1> QED
  BY <1>2 DEF IsSeq

LEMMA Behind ==
  ASSUME NEW s, IsSeq(s), NEW t, IsSeq(t)
  PROVE  /\ IsSeq(s \o t) /\ Len(s \o t) = Len(s) + Len(t)
         /\ \A i \in 1 .. Len(s) : (s \o t)[i] = s[i]
         /\ \A i \in 1 .. Len(t) : (s \o t)[Len(s) + i] = t[i]
<1> DEFINE S == ToSet(s) \cup ToSet(t)
           u == s \o t
<1>1. s \in Seq(S) /\ t \in Seq(S)
  BY DEF IsSeq
<1> HIDE DEF S
<1>2. /\ u \in Seq(S) /\ Len(u) = Len(s) + Len(t) /\ Len(s) \in Nat /\ Len(t) \in Nat
      /\ \A i \in 1 .. Len(s) + Len(t) : u[i] = IF i <= Len(s) THEN s[i] ELSE t[i - Len(s)]
  BY <1>1, ConcatProperties
<1> HIDE DEF u
<1>3. IsSeq(u)
  BY <1>2, AnySeq
<1>4. \A i \in 1 .. Len(s) : u[i] = s[i]
  BY <1>2
<1>5. ASSUME NEW i \in 1 .. Len(t) PROVE u[Len(s) + i] = t[i]
  <2>1. Len(s) + i \in 1 .. Len(s) + Len(t) /\ ~(Len(s) + i <= Len(s)) /\ (Len(s) + i) - Len(s) = i
    BY <1>2
  <2> QED
    BY <1>2, <2>1
<1> QED
  BY <1>2, <1>3, <1>4, <1>5 DEF u

LEMMA FileIs ==
  ASSUME TrackersOK(listed), NEW d, ParsedOK(d)
  PROVE  \E m, h, q, g : Imported(FileTrackers(d), d, m, h, q, g)
<1> DEFINE A == {t \in ToSet(listed) : Stays(t, d)}
           B == {e \in ToSet(d) : e.key \notin Keys(listed)}
           kept == Kept(listed, A)
           new == Kept(d, B)
           m == Len(kept)
           q == Len(new)
           entry(key) == d[CHOOSE i \in DOMAIN d : d[i].key = key]
           old(t) == IF t.key = <<>> THEN t ELSE [t EXCEPT !.name = entry(t.key).name]
           front == [i \in DOMAIN kept |-> IF kept[i].key = <<>> THEN kept[i] ELSE [kept[i] EXCEPT !.name = entry(kept[i].key).name]]
           back == [i \in DOMAIN new |-> [id |-> Free + i, key |-> new[i].key, name |-> new[i].name]]
<1>1. FileTrackers(d) = front \o back
  BY Zenon DEF FileTrackers, Free, Stays
<1>2. IsSeq(listed) /\ IsSeq(d)
  BY DEF TrackersOK, ParsedOK, WrittenOK
<1>3. listed \in Seq(ToSet(listed)) /\ d \in Seq(ToSet(d))
  BY <1>2 DEF IsSeq
<1> HIDE DEF A, B
<1>4. /\ kept \in Seq(ToSet(listed))
      /\ \E h : Picks(h, m, Len(listed), listed, A) /\ \A i \in 1 .. m : kept[i] = listed[h[i]]
  BY <1>3, KeptPicks
<1>5. /\ new \in Seq(ToSet(d))
      /\ \E g : Picks(g, q, Len(d), d, B) /\ \A i \in 1 .. q : new[i] = d[g[i]]
  BY <1>3, KeptPicks
<1> HIDE DEF kept, new
<1>6. PICK h : Picks(h, m, Len(listed), listed, A) /\ \A i \in 1 .. m : kept[i] = listed[h[i]]
  BY <1>4
<1>7. PICK g : Picks(g, q, Len(d), d, B) /\ \A i \in 1 .. q : new[i] = d[g[i]]
  BY <1>5
<1>8. m \in Nat /\ q \in Nat /\ DOMAIN kept = 1 .. m /\ DOMAIN new = 1 .. q
  BY <1>4, <1>5
<1>9. IsSeq(front) /\ Len(front) = m
  BY <1>8, Tuple
<1>10. IsSeq(back) /\ Len(back) = q
  BY <1>8, Tuple
<1>11. ASSUME NEW i \in 1 .. m PROVE front[i] = Updated(listed[h[i]], d)
  <2> DEFINE t == listed[h[i]]
  <2>1. h[i] \in 1 .. Len(listed)
    BY <1>6 DEF Picks
  <2>2. t = [id |-> t.id, key |-> t.key, name |-> t.name]
    BY <1>2, <2>1, SeqFacts DEF TrackersOK
  <2>0. kept[i] = t /\ i \in DOMAIN kept
    BY <1>6, <1>8
  <2> HIDE DEF t
  <2>3. front[i] = IF t.key = <<>> THEN t ELSE [t EXCEPT !.name = entry(t.key).name]
    BY <2>0
  <2> HIDE DEF front
  <2>4. CASE t.key = <<>>
    BY <2>2, <2>3, <2>4 DEF Updated, t
  <2>5. CASE t.key # <<>>
    <3> DEFINE n == entry(t.key).name
    <3>1. n = d[CHOOSE j \in DOMAIN d : d[j].key = t.key].name
      OBVIOUS
    <3>2. front[i] = [t EXCEPT !.name = n]
      BY <2>3, <2>5
    <3>3. Updated(t, d) = [id |-> t.id, key |-> t.key, name |-> n]
      BY <2>5, <3>1 DEF Updated
    <3> HIDE DEF n, entry
    <3> QED
      BY <2>2, <3>2, <3>3 DEF t
  <2> QED
    BY <2>4, <2>5
<1>12. \A i \in 1 .. q : back[i] = [id |-> Free + i, key |-> d[g[i]].key, name |-> d[g[i]].name]
  BY <1>7, <1>8
<1> DEFINE l2 == front \o back
<1> HIDE DEF front, back
<1>13. /\ IsSeq(l2) /\ Len(l2) = m + q
       /\ \A i \in 1 .. m : l2[i] = front[i]
       /\ \A i \in 1 .. q : l2[m + i] = back[i]
  <2>1. /\ IsSeq(l2) /\ Len(l2) = Len(front) + Len(back)
        /\ \A i \in 1 .. Len(front) : l2[i] = front[i]
        /\ \A i \in 1 .. Len(back) : l2[Len(front) + i] = back[i]
    <3>1. PICK s, t : s = front /\ t = back
      OBVIOUS
    <3>2. IsSeq(s) /\ IsSeq(t)
      BY <1>9, <1>10, <3>1
    <3>3. /\ IsSeq(s \o t) /\ Len(s \o t) = Len(s) + Len(t)
          /\ \A i \in 1 .. Len(s) : (s \o t)[i] = s[i]
          /\ \A i \in 1 .. Len(t) : (s \o t)[Len(s) + i] = t[i]
      BY <3>2, Behind
    <3> QED
      BY <3>1, <3>3, Zenon
  <2> HIDE DEF l2
  <2> QED
    BY <1>9, <1>10, <2>1
<1> HIDE DEF l2
<1>14. Imported(l2, d, m, h, q, g)
  BY <1>6, <1>7, <1>8, <1>11, <1>12, <1>13 DEF Imported, A, B
<1> QED
  BY <1>1, <1>14 DEF l2

\* Where an imported tracker comes from.
LEMMA Origins ==
  ASSUME TrackersOK(listed), NEW d, ParsedOK(d), NEW l2, NEW m, NEW h, NEW q, NEW g, Imported(l2, d, m, h, q, g)
  PROVE  /\ DOMAIN l2 = 1 .. m + q
         /\ \A i \in 1 .. m + q : i \in 1 .. m \/ (i - m \in 1 .. q /\ i = m + (i - m))
         /\ \A i \in 1 .. m : /\ h[i] \in DOMAIN listed /\ Stays(listed[h[i]], d)
                              /\ l2[i].id = listed[h[i]].id /\ l2[i].key = listed[h[i]].key
                              /\ l2[i] = Updated(listed[h[i]], d)
         /\ \A i \in 1 .. q : /\ g[i] \in DOMAIN d /\ d[g[i]].key \notin Keys(listed)
                              /\ l2[m + i].id = Free + i /\ l2[m + i].key = d[g[i]].key /\ l2[m + i].name = d[g[i]].name
                              /\ l2[m + i] = [id |-> Free + i, key |-> d[g[i]].key, name |-> d[g[i]].name]
         /\ \A i, j \in 1 .. m : h[i] = h[j] => i = j
         /\ \A i, j \in 1 .. q : g[i] = g[j] => i = j
<1>1. m \in Nat /\ q \in Nat /\ DOMAIN l2 = 1 .. m + q
  BY SeqFacts DEF Imported
<1>2. /\ h \in [1 .. m -> 1 .. Len(listed)] /\ \A i, j \in 1 .. m : i < j => h[i] < h[j]
      /\ \A k \in 1 .. Len(listed) : listed[k] \in {t \in ToSet(listed) : Stays(t, d)} <=> \E j \in 1 .. m : h[j] = k
  BY Zenon DEF Imported, Picks
<1>3. /\ g \in [1 .. q -> 1 .. Len(d)] /\ \A i, j \in 1 .. q : i < j => g[i] < g[j]
      /\ \A k \in 1 .. Len(d) : d[k] \in {e \in ToSet(d) : e.key \notin Keys(listed)} <=> \E j \in 1 .. q : g[j] = k
  BY Zenon DEF Imported, Picks
<1>4. DOMAIN listed = 1 .. Len(listed) /\ DOMAIN d = 1 .. Len(d) /\ Len(listed) \in Nat /\ Len(d) \in Nat
  BY SeqFacts DEF TrackersOK, ParsedOK, WrittenOK
<1>5. ASSUME NEW i \in 1 .. m
      PROVE  /\ h[i] \in DOMAIN listed /\ Stays(listed[h[i]], d)
             /\ l2[i].id = listed[h[i]].id /\ l2[i].key = listed[h[i]].key
             /\ l2[i] = Updated(listed[h[i]], d)
  <2>1. h[i] \in 1 .. Len(listed)
    BY <1>2
  <2>2. listed[h[i]] \in {t \in ToSet(listed) : Stays(t, d)}
    BY <1>2, <2>1
  <2>3. l2[i] = Updated(listed[h[i]], d)
    BY DEF Imported
  <2> QED
    BY <1>4, <2>1, <2>2, <2>3 DEF Updated
<1>6. ASSUME NEW i \in 1 .. q
      PROVE  /\ g[i] \in DOMAIN d /\ d[g[i]].key \notin Keys(listed)
             /\ l2[m + i].id = Free + i /\ l2[m + i].key = d[g[i]].key /\ l2[m + i].name = d[g[i]].name
             /\ l2[m + i] = [id |-> Free + i, key |-> d[g[i]].key, name |-> d[g[i]].name]
  <2>1. g[i] \in 1 .. Len(d)
    BY <1>3
  <2>2. d[g[i]] \in {e \in ToSet(d) : e.key \notin Keys(listed)}
    BY <1>3, <2>1
  <2>3. l2[m + i] = [id |-> Free + i, key |-> d[g[i]].key, name |-> d[g[i]].name]
    BY DEF Imported
  <2> QED
    BY <1>4, <2>1, <2>2, <2>3
<1>7. ASSUME NEW i \in 1 .. m, NEW j \in 1 .. m, h[i] = h[j] PROVE i = j
  <2>1. h[i] \in Nat /\ h[j] \in Nat
    BY <1>2, <1>4
  <2>2. i < j \/ j < i \/ i = j
    BY <1>1
  <2> QED
    BY <1>2, <1>7, <2>1, <2>2
<1>8. ASSUME NEW i \in 1 .. q, NEW j \in 1 .. q, g[i] = g[j] PROVE i = j
  <2>1. g[i] \in Nat /\ g[j] \in Nat
    BY <1>3, <1>4
  <2>2. i < j \/ j < i \/ i = j
    BY <1>1
  <2> QED
    BY <1>3, <1>8, <2>1, <2>2
<1>9. \A i \in 1 .. m + q : i \in 1 .. m \/ (i - m \in 1 .. q /\ i = m + (i - m))
  BY <1>1
<1> QED
  BY <1>1, <1>5, <1>6, <1>7, <1>8, <1>9

LEMMA FreeIds ==
  ASSUME TrackersOK(listed)
  PROVE  Free \in Nat /\ \A i \in DOMAIN listed : listed[i].id <= Free
<1> DEFINE T == {listed[i].id : i \in DOMAIN listed} \cup {0}
<1>1. \A i \in DOMAIN listed : listed[i].id \in 1 .. MaxId
  BY DEF TrackersOK
<1>2. T \in SUBSET Nat /\ T # {} /\ \A x \in T : x <= MaxId
  BY <1>1, DocumentAssumption
<1>3. \A i \in DOMAIN listed : listed[i].id \in T
  OBVIOUS
<1> HIDE DEF T
<1>4. Max(T) \in T /\ \A x \in T : x <= Max(T)
  <2>1. T \in SUBSET Int /\ MaxId \in Int
    BY <1>2, DocumentAssumption
  <2> QED
    BY <1>2, <2>1, MaxUpTo
<1> QED
  BY <1>2, <1>3, <1>4 DEF T, Free

\* Two of the old, two of the new, or one of each.
LEMMA ImportDistinct ==
  ASSUME TrackersOK(listed), NEW d, ParsedOK(d), NEW l2, NEW m, NEW h, NEW q, NEW g, Imported(l2, d, m, h, q, g)
  PROVE  \A i, j \in DOMAIN l2 : /\ l2[i].id = l2[j].id => i = j
                                 /\ l2[i].key = l2[j].key /\ l2[i].key # <<>> => i = j
<1>1. /\ DOMAIN l2 = 1 .. m + q
      /\ \A i \in 1 .. m + q : i \in 1 .. m \/ (i - m \in 1 .. q /\ i = m + (i - m))
      /\ \A i \in 1 .. m : /\ h[i] \in DOMAIN listed /\ Stays(listed[h[i]], d)
                           /\ l2[i].id = listed[h[i]].id /\ l2[i].key = listed[h[i]].key
                           /\ l2[i] = Updated(listed[h[i]], d)
      /\ \A i \in 1 .. q : /\ g[i] \in DOMAIN d /\ d[g[i]].key \notin Keys(listed)
                           /\ l2[m + i].id = Free + i /\ l2[m + i].key = d[g[i]].key /\ l2[m + i].name = d[g[i]].name
                           /\ l2[m + i] = [id |-> Free + i, key |-> d[g[i]].key, name |-> d[g[i]].name]
      /\ \A i, j \in 1 .. m : h[i] = h[j] => i = j
      /\ \A i, j \in 1 .. q : g[i] = g[j] => i = j
  BY Origins
<1>2. Free \in Nat /\ \A i \in DOMAIN listed : listed[i].id <= Free
  BY FreeIds
<1>3. m \in Nat /\ q \in Nat /\ IsSeq(l2)
  BY DEF Imported
<1>5. ASSUME NEW i \in 1 .. m, NEW j \in 1 .. m
      PROVE  /\ l2[i].id = l2[j].id => i = j
             /\ l2[i].key = l2[j].key /\ l2[i].key # <<>> => i = j
  BY <1>1 DEF TrackersOK
<1>6. ASSUME NEW i \in 1 .. q, NEW j \in 1 .. q
      PROVE  /\ l2[m + i].id = l2[m + j].id => i = j
             /\ l2[m + i].key = l2[m + j].key => i = j
  <2>1. l2[m + i].id = Free + i /\ l2[m + j].id = Free + j
    BY <1>1
  <2>2. /\ g[i] \in DOMAIN d /\ l2[m + i].key = d[g[i]].key
        /\ g[j] \in DOMAIN d /\ l2[m + j].key = d[g[j]].key
    BY <1>1
  <2>3. l2[m + i].id = l2[m + j].id => i = j
    BY <1>2, <1>3, <2>1
  <2>4. g[i] = g[j] => i = j
    BY <1>1
  <2>5. d[g[i]].key = d[g[j]].key => g[i] = g[j]
    BY <2>2 DEF ParsedOK
  <2> QED
    BY <2>2, <2>3, <2>4, <2>5
<1>7. ASSUME NEW i \in 1 .. m, NEW j \in 1 .. q
      PROVE  l2[i].id # l2[m + j].id /\ l2[i].key # l2[m + j].key
  <2>0. /\ h[i] \in DOMAIN listed /\ l2[i].id = listed[h[i]].id /\ l2[i].key = listed[h[i]].key
        /\ l2[m + j].id = Free + j /\ l2[m + j].key = d[g[j]].key /\ d[g[j]].key \notin Keys(listed)
    BY <1>1
  <2>1. listed[h[i]].id <= Free /\ listed[h[i]].id \in 1 .. MaxId /\ listed[h[i]].key \in Keys(listed)
    BY <1>2, <2>0 DEF TrackersOK, Keys
  <2>2. l2[i].id # l2[m + j].id
    BY <1>2, <2>0, <2>1, DocumentAssumption
  <2> QED
    BY <2>0, <2>1, <2>2
<1>8. ASSUME NEW i \in 1 .. m + q, NEW j \in 1 .. m + q
      PROVE  /\ l2[i].id = l2[j].id => i = j
             /\ l2[i].key = l2[j].key /\ l2[i].key # <<>> => i = j
  <2>1. CASE i \in 1 .. m /\ j \in 1 .. m
    BY <1>5, <2>1
  <2>2. CASE i \in 1 .. m /\ (j - m \in 1 .. q /\ j = m + (j - m))
    BY <1>7, <2>2
  <2>3. CASE (i - m \in 1 .. q /\ i = m + (i - m)) /\ j \in 1 .. m
    BY <1>7, <2>3
  <2>4. CASE (i - m \in 1 .. q /\ i = m + (i - m)) /\ (j - m \in 1 .. q /\ j = m + (j - m))
    <3> DEFINE k == i - m
               x == j - m
    <3>1. k \in 1 .. q /\ i = m + k /\ x \in 1 .. q /\ j = m + x
      BY <2>4
    <3> HIDE DEF k, x
    <3>2. /\ l2[m + k].id = l2[m + x].id => k = x
          /\ l2[m + k].key = l2[m + x].key => k = x
      BY <1>6, <3>1
    <3> QED
      BY <3>1, <3>2
  <2> QED
    BY <1>1, <2>1, <2>2, <2>3, <2>4
<1> QED
  BY <1>1, <1>8

LEMMA AllTrackersOK ==
  ASSUME NEW l, IsSeq(l),
         \A i \in DOMAIN l : /\ l[i] = [id |-> l[i].id, key |-> l[i].key, name |-> l[i].name]
                             /\ l[i].id \in 1 .. MaxId /\ IsSeq(l[i].key) /\ WellNamed(l[i].name),
         \A i, j \in DOMAIN l : /\ l[i].id = l[j].id => i = j
                                /\ l[i].key = l[j].key /\ l[i].key # <<>> => i = j
  PROVE  TrackersOK(l)
BY DEF TrackersOK

LEMMA ImportKeeps ==
  ASSUME TrackersOK(listed), NEW d, ParsedOK(d), NEW l2, NEW m, NEW h, NEW q, NEW g, Imported(l2, d, m, h, q, g),
         \A i \in DOMAIN l2 : l2[i].id <= MaxId
  PROVE  TrackersOK(l2)
<1>1. /\ DOMAIN l2 = 1 .. m + q
      /\ \A i \in 1 .. m + q : i \in 1 .. m \/ (i - m \in 1 .. q /\ i = m + (i - m))
      /\ \A i \in 1 .. m : /\ h[i] \in DOMAIN listed /\ Stays(listed[h[i]], d)
                           /\ l2[i].id = listed[h[i]].id /\ l2[i].key = listed[h[i]].key
                           /\ l2[i] = Updated(listed[h[i]], d)
      /\ \A i \in 1 .. q : /\ g[i] \in DOMAIN d /\ d[g[i]].key \notin Keys(listed)
                           /\ l2[m + i].id = Free + i /\ l2[m + i].key = d[g[i]].key /\ l2[m + i].name = d[g[i]].name
                           /\ l2[m + i] = [id |-> Free + i, key |-> d[g[i]].key, name |-> d[g[i]].name]
      /\ \A i, j \in 1 .. m : h[i] = h[j] => i = j
      /\ \A i, j \in 1 .. q : g[i] = g[j] => i = j
  BY Origins
<1>2. Free \in Nat /\ \A i \in DOMAIN listed : listed[i].id <= Free
  BY FreeIds
<1>3. m \in Nat /\ q \in Nat /\ IsSeq(l2)
  BY DEF Imported
<1>4. ASSUME NEW i \in 1 .. m + q
      PROVE  /\ l2[i] = [id |-> l2[i].id, key |-> l2[i].key, name |-> l2[i].name]
             /\ l2[i].id \in 1 .. MaxId /\ IsSeq(l2[i].key) /\ WellNamed(l2[i].name)
  <2>1. CASE i \in 1 .. m
    <3> DEFINE t == listed[h[i]]
    <3>1. /\ h[i] \in DOMAIN listed /\ Stays(t, d) /\ l2[i].id = t.id /\ l2[i].key = t.key /\ l2[i] = Updated(t, d)
      BY <1>1, <2>1
    <3>2. t.id \in 1 .. MaxId /\ IsSeq(t.key) /\ WellNamed(t.name)
      BY <3>1 DEF TrackersOK
    <3> HIDE DEF t
    <3>3. l2[i] = [id |-> l2[i].id, key |-> l2[i].key, name |-> l2[i].name]
      BY <3>1 DEF Updated
    <3>4. WellNamed(l2[i].name)
      <4>1. CASE t.key = <<>>
        BY <3>1, <3>2, <4>1 DEF Updated
      <4>2. CASE t.key # <<>>
        <5>1. \E x \in DOMAIN d : d[x].key = t.key
          BY <3>1, <4>2 DEF Stays, Keys
        <5>2. PICK x \in DOMAIN d : x = CHOOSE y \in DOMAIN d : d[y].key = t.key
          BY <5>1
        <5>3. l2[i].name = d[x].name
          BY <3>1, <4>2, <5>2 DEF Updated
        <5> QED
          BY <5>3 DEF ParsedOK, WrittenOK, WellNamed
      <4> QED
        BY <4>1, <4>2
    <3> QED
      BY <3>1, <3>2, <3>3, <3>4
  <2>2. CASE i - m \in 1 .. q /\ i = m + (i - m)
    <3> DEFINE k == i - m
    <3>1. k \in 1 .. q /\ i = m + k
      BY <2>2
    <3> HIDE DEF k
    <3>2. /\ g[k] \in DOMAIN d /\ l2[i].id = Free + k /\ l2[i].key = d[g[k]].key /\ l2[i].name = d[g[k]].name
          /\ l2[i] = [id |-> Free + k, key |-> d[g[k]].key, name |-> d[g[k]].name]
      BY <1>1, <3>1
    <3>3. IsSeq(l2[i].key) /\ WellNamed(l2[i].name)
      BY <3>2 DEF ParsedOK, WrittenOK, WellNamed
    <3>4. l2[i].id \in 1 .. MaxId
      <4>1. l2[i].id <= MaxId
        BY <1>1
      <4> QED
        BY <1>2, <3>1, <3>2, <4>1, DocumentAssumption
    <3> QED
      BY <3>2, <3>3, <3>4
  <2> QED
    BY <1>1, <2>1, <2>2
<1>8. \A i, j \in DOMAIN l2 : /\ l2[i].id = l2[j].id => i = j
                              /\ l2[i].key = l2[j].key /\ l2[i].key # <<>> => i = j
  BY ImportDistinct
<1>9. \A i \in DOMAIN l2 :
        /\ l2[i] = [id |-> l2[i].id, key |-> l2[i].key, name |-> l2[i].name]
        /\ l2[i].id \in 1 .. MaxId /\ IsSeq(l2[i].key) /\ WellNamed(l2[i].name)
  <2> TAKE i \in DOMAIN l2
  <2>1. i \in 1 .. m + q
    BY <1>1
  <2> QED
    BY <1>4, <2>1
<1> QED
  BY <1>3, <1>8, <1>9, AllTrackersOK


(***************************************************************************)
(* Every step of the document part keeps the invariant.                    *)
(***************************************************************************)
LEMMA InitDInv == DocumentInit => DInv
<1> SUFFICES ASSUME DocumentInit PROVE DInv
  OBVIOUS
<1>1. CASE listed = <<>>
  <2>1. listed \in Seq({}) /\ DOMAIN listed = {}
    BY <1>1
  <2> QED
    BY <2>1, AnySeq DEF DocumentInit, DInv, TrackersOK
<1>2. ASSUME NEW n \in Names, listed = <<[id |-> 1, key |-> <<>>, name |-> n]>> PROVE DInv
  <2> DEFINE e == [id |-> 1, key |-> <<>>, name |-> n]
  <2>1. listed \in Seq({e}) /\ DOMAIN listed = {1} /\ listed[1] = e
    BY <1>2
  <2>2. e = [id |-> e.id, key |-> e.key, name |-> e.name] /\ e.id = 1 /\ e.key = <<>> /\ e.name = n
    OBVIOUS
  <2> HIDE DEF e
  <2>3. WellNamed(n) /\ 1 \in 1 .. MaxId
    BY DocumentAssumption DEF WellNamed
  <2>4. <<>> \in Seq({})
    OBVIOUS
  <2>5. IsSeq(listed) /\ IsSeq(<<>>)
    BY <2>1, <2>4, AnySeq
  <2>6. TrackersOK(listed)
    BY <2>1, <2>2, <2>3, <2>5 DEF TrackersOK
  <2> QED
    BY <2>6 DEF DocumentInit, DInv
<1> QED
  BY <1>1, <1>2 DEF DocumentInit

LEMMA CreateStep == ASSUME DInv, NEW n \in Names, Create(n) PROVE DInv'
<1> DEFINE e == [id |-> Free + 1, key |-> <<>>, name |-> n]
<1>1. listed' = Append(listed, e) /\ Free + 1 <= MaxId /\ stage' = stage /\ stage = "trackers"
  BY DEF Create, Free
<1>2. TrackersOK(listed) /\ IsSeq(listed)
  BY DEF DInv, TrackersOK
<1>3. Free \in Nat /\ \A i \in DOMAIN listed : listed[i].id <= Free /\ listed[i].id \in Nat
  BY <1>2, FreeIds DEF TrackersOK
<1>4. e = [id |-> e.id, key |-> e.key, name |-> e.name] /\ e.id = Free + 1 /\ e.key = <<>> /\ e.name = n
  OBVIOUS
<1>5. WellNamed(n) /\ IsSeq(<<>>)
  <2>1. <<>> \in Seq({})
    OBVIOUS
  <2> QED
    BY <2>1, AnySeq, DocumentAssumption DEF WellNamed
<1> HIDE DEF e
<1> DEFINE k == Len(listed)
<1>6. k \in Nat /\ DOMAIN listed = 1 .. k
  BY <1>2, SeqFacts
<1>7. IsSeq(listed') /\ Len(listed') = k + 1 /\ listed'[k + 1] = e /\ \A i \in 1 .. k : listed'[i] = listed[i]
  BY <1>1, <1>2, AppendOne
<1>8. DOMAIN listed' = 1 .. k + 1
  BY <1>7, SeqFacts
<1> HIDE DEF k
<1>9. \A i \in 1 .. k + 1 : (i = k + 1 /\ listed'[i] = e) \/ (i \in DOMAIN listed /\ i # k + 1 /\ listed'[i] = listed[i])
  BY <1>6, <1>7
<1>10. Free + 1 \in 1 .. MaxId
  BY <1>1, <1>3, DocumentAssumption
<1>11. ASSUME NEW i \in 1 .. k + 1
       PROVE  /\ listed'[i] = [id |-> listed'[i].id, key |-> listed'[i].key, name |-> listed'[i].name]
              /\ listed'[i].id \in 1 .. MaxId /\ IsSeq(listed'[i].key) /\ WellNamed(listed'[i].name)
  BY <1>2, <1>4, <1>5, <1>9, <1>10 DEF TrackersOK
<1>12. ASSUME NEW i \in 1 .. k + 1, NEW j \in 1 .. k + 1
       PROVE  /\ listed'[i].id = listed'[j].id => i = j
              /\ listed'[i].key = listed'[j].key /\ listed'[i].key # <<>> => i = j
  <2>1. \A x \in DOMAIN listed : listed[x].id # Free + 1
    BY <1>3
  <2> QED
    BY <1>2, <1>4, <1>9, <2>1 DEF TrackersOK
<1>13. TrackersOK(listed')
  BY <1>7, <1>8, <1>11, <1>12 DEF TrackersOK
<1> QED
  BY <1>1, <1>13 DEF DInv

LEMMA ExportStep == ASSUME DInv, Export PROVE DInv'
<1>1. WrittenOK(Marshal(listed)) /\ TrackersOK(listed)
  BY MarshalWrites DEF DInv
<1> QED
  BY <1>1 DEF DInv, Export

LEMMA WriteStep == ASSUME DInv, NEW d \in Handwritten, Write(d) PROVE DInv'
<1>1. WrittenOK(d)
  BY DocumentAssumption DEF WrittenOK
<1> QED
  BY <1>1 DEF DInv, Write

LEMMA ParseStep == ASSUME DInv, Parse PROVE DInv'
<1>1. WrittenOK(doc) /\ TrackersOK(listed)
  BY DEF DInv, Parse
<1>2. normalize(doc).ok => ParsedOK(normalize(doc).doc)
  BY <1>1, ParseGives
<1>3. doc' = normalize(doc).doc /\ listed' = listed /\ stage' = IF normalize(doc).ok THEN "parsed" ELSE "rejected"
  BY DEF Parse
<1> QED
  BY <1>1, <1>2, <1>3 DEF DInv

LEMMA ImportStep == ASSUME DInv, Import PROVE DInv'
<1>1. TrackersOK(listed) /\ stage' = "trackers"
  BY DEF DInv, Import
<1>2. CASE stage = "parsed"
  <2>1. ParsedOK(doc) /\ listed' = FileTrackers(doc) /\ \A i \in DOMAIN listed' : listed'[i].id <= MaxId
    BY <1>2 DEF DInv, Import
  <2>2. PICK m, h, q, g : Imported(FileTrackers(doc), doc, m, h, q, g)
    BY <1>1, <2>1, FileIs
  <2>3. PICK l2 : l2 = FileTrackers(doc)
    OBVIOUS
  <2>4. Imported(l2, doc, m, h, q, g) /\ \A i \in DOMAIN l2 : l2[i].id <= MaxId
    BY <2>1, <2>2, <2>3
  <2>5. TrackersOK(l2)
    BY <1>1, <2>1, <2>4, ImportKeeps
  <2> QED
    BY <1>1, <2>1, <2>3, <2>5 DEF DInv
<1>3. CASE stage # "parsed"
  BY <1>1, <1>3 DEF DInv, Import
<1> QED
  BY <1>2, <1>3

LEMMA DocumentInductive == DInv /\ [DocumentNext]_documentVars => DInv'
<1> SUFFICES ASSUME DInv, [DocumentNext]_documentVars PROVE DInv'
  OBVIOUS
<1>1. CASE UNCHANGED documentVars
  BY <1>1 DEF DInv, documentVars
<1>2. CASE \E n \in Names : Create(n)
  BY <1>2, CreateStep
<1>3. CASE \E d \in Handwritten : Write(d)
  BY <1>3, WriteStep
<1> QED
  BY <1>1, <1>2, <1>3, ExportStep, ParseStep, ImportStep DEF DocumentNext

-----------------------------------------------------------------------------
(***************************************************************************)
(* All are inductive for the composition: a step of one part is a          *)
(* stuttering step of the others.                                          *)
(***************************************************************************)
LEMMA Composed ==
  /\ ControlInit => Init /\ SettingsInit
  /\ [ControlNext]_controlVars => [Next]_vars /\ [SettingsNext]_settingsVars
BY DEF ControlInit, ControlNext, controlVars

LEMMA AlwaysIInv == ControlSpec => []IInv
<1>1. ControlInit => IInv
  BY Composed, InitIInv
<1>2. IInv /\ [ControlNext]_controlVars => IInv'
  BY Composed, Inductive
<1> QED
  BY <1>1, <1>2, PTL DEF ControlSpec

LEMMA AlwaysSInv == ControlSpec => []SInv
<1>1. ControlInit => SInv
  BY Composed, InitSInv
<1>2. SInv /\ [ControlNext]_controlVars => SInv'
  BY Composed, SettingsInductive
<1> QED
  BY <1>1, <1>2, PTL DEF ControlSpec

LEMMA AlwaysCInv == ControlSpec => []CInv
<1>1. ControlInit => CInv
  BY Composed, InitTells
<1>2. CInv /\ [ControlNext]_controlVars => CInv'
  BY Composed, Telling
<1> QED
  BY <1>1, <1>2, PTL DEF ControlSpec

LEMMA AlwaysDInv == ControlSpec => []DInv
<1>1. ControlInit => DInv
  BY InitDInv DEF ControlInit
<1>2. DInv /\ [ControlNext]_controlVars => DInv'
  <2>1. [ControlNext]_controlVars => [DocumentNext]_documentVars
    BY DEF ControlNext, controlVars
  <2> QED
    BY <2>1, DocumentInductive
<1> QED
  BY <1>1, <1>2, PTL DEF ControlSpec

(***************************************************************************)
(* Rescans keep the types of their state, for any number of them.          *)
(***************************************************************************)
THEOREM RescanTyped == ControlSpec => []TypeOK
<1>1. IInv => TypeOK
  BY DEF IInv
<1> QED
  BY <1>1, AlwaysIInv, PTL

(***************************************************************************)
(* A rescan never registers an id that is taken, so Register's panic       *)
(* cannot take the process down: the manager's lock makes the lookup, the  *)
(* Unregister and the Register one critical section for external ids, and  *)
(* built-in ids are never registered again.                                *)
(***************************************************************************)
THEOREM RescanNeverPanics == ControlSpec => []RegisterNeverPanics
<1>1. IInv => RegisterNeverPanics
  BY DEF IInv, OnlyExternal, RegisterNeverPanics, At
<1> QED
  BY <1>1, AlwaysIInv, PTL

(***************************************************************************)
(* The built-in plugins stay in the registry, and no other plugin takes    *)
(* the place of one, whatever the executables claim.                       *)
(***************************************************************************)
THEOREM BuiltinsStay == ControlSpec => []BuiltinsUntouched
<1>1. IInv => BuiltinsUntouched
  BY DEF IInv
<1> QED
  BY <1>1, AlwaysIInv, PTL

(***************************************************************************)
(* A lookup of an installed plugin fails only while it is replaced or      *)
(* after it was found gone, and between rescans the registry is what the   *)
(* manager thinks it is.                                                   *)
(***************************************************************************)
THEOREM PluginsAreFound == ControlSpec => []FoundUnlessReplaced
<1>1. ASSUME IInv PROVE FoundUnlessReplaced
  <2>1. mu = None => \A id \in Ids \ Builtins : plugins[id] = owned[id]
    BY <1>1 DEF IInv, Accounted
  <2>2. ASSUME NEW id \in Ids \ Builtins, plugins[id] = None, owned[id] # None
        PROVE  \E s \in Scanners :
                 \/ At(s, "register") /\ Current(s).id = id
                 \/ At(s, "loop") /\ scans[s].discovered = <<>> /\ id \in Vanished(s)
    <3>1. mu \in Scanners
      BY <1>1, <2>1, <2>2 DEF IInv, TypeOK
    <3>2. Traced(mu, id)
      BY <1>1, <3>1 DEF IInv, Accounted
    <3>3. Busy(mu, id) \/ (scans[mu].seen[id] = None /\ Swept(mu, id))
      BY <2>2, <3>2 DEF Traced
    <3>4. CASE Busy(mu, id)
      BY <3>1, <3>4 DEF Busy, At
    <3>5. CASE scans[mu].seen[id] = None /\ Swept(mu, id)
      BY <2>2, <3>1, <3>5 DEF Swept, At, Vanished, Present
    <3> QED
      BY <3>3, <3>4, <3>5
  <2> QED
    BY <2>1, <2>2 DEF FoundUnlessReplaced
<1> QED
  BY <1>1, AlwaysIInv, PTL

(***************************************************************************)
(* Unless the steps of two saves interleaved, debug logging follows the    *)
(* row's toggle (no claim where it is off and the process was started with *)
(* debug on) and GITHUB_TOKEN its token whenever no save is between its    *)
(* steps, for any number of tabs, saves in flight, failures and restarts.  *)
(***************************************************************************)
THEOREM SettingsApplied == ControlSpec => []SavedIsApplied
<1>1. SInv => SavedIsApplied
  BY DEF SInv, Applied, SavedIsApplied
<1> QED
  BY <1>1, AlwaysSInv, PTL

(***************************************************************************)
(* A save by a tab that knows the last one changes only what it is about:  *)
(* a drag the order, the form all but the order.                           *)
(***************************************************************************)
THEOREM SavesKeepTheRest == ControlSpec => KeepsTheRest
<1>1. SInv /\ [ControlNext]_controlVars => [SaveKeeps]_settingsVars
  BY Composed, EverySaveKeeps
<1>2. [][SaveKeeps]_settingsVars => KeepsTheRest
  BY PTL DEF SaveKeeps, KeepsTheRest
<1> QED
  BY <1>1, <1>2, AlwaysSInv, PTL DEF ControlSpec

(***************************************************************************)
(* A rescan during which no file changed and none was skipped leaves every *)
(* id that is no built-in's with the last file, in the order of the names, *)
(* that claims it, and with nothing if there is none, for any number of    *)
(* files, ids and rescans; unless two files claim one id, it tells how     *)
(* many plugins came and went.                                             *)
(***************************************************************************)
THEOREM RescanInstalls == ControlSpec => []InstallsWhatIsThere
<1>1. CInv => InstallsWhatIsThere
  <2> SUFFICES ASSUME CInv, NEW s \in Scanners, At(s, "loop"), scans[s].discovered = <<>>,
                      Vanished(s) \cap Present(plugins) = {}, steady
               PROVE  /\ \A id \in Ids \ Builtins :
                           plugins[id] = IF Claiming(id) = {} THEN None ELSE Files[Max(Claiming(id))]
                      /\ Unique => /\ scans[s].added = Cardinality(External \ Present(owned))
                                   /\ scans[s].removed = Cardinality(Present(owned) \ External)
    BY DEF InstallsWhatIsThere
  <2>1. /\ mu = s /\ Told(s) /\ IInv /\ scans[s].pc = "loop"
        /\ \A id \in Ids \ Builtins : Traced(s, id)
        /\ \A id \in Builtins : owned[id] = None /\ scans[s].seen[id] = None
        /\ scans[s].seen \in [Ids -> FileSet \cup {None}]
    BY AtWork DEF At
  <2>2. \A id \in Ids : ~Busy(s, id)
    BY <2>1 DEF Busy
  <2>3. \A id \in Ids \ Builtins : plugins[id] = scans[s].seen[id]
    <3> TAKE id \in Ids \ Builtins
    <3>1. scans[s].seen[id] # None => plugins[id] = scans[s].seen[id]
      BY <2>1, <2>2 DEF Traced
    <3>2. scans[s].seen[id] = None => plugins[id] = None
      BY <2>1, <2>2 DEF Traced, Swept, Vanished, Present
    <3> QED
      BY <3>1, <3>2
  <2>4. ASSUME NEW id \in Ids \ Builtins
        PROVE  scans[s].seen[id] = IF Claiming(id) = {} THEN None ELSE Files[Max(Claiming(id))]
    <3>1. PICK c, ks : InOrder(dir, Len(Files) + 1, <<>>, scans[s].seen, c, ks)
      BY <2>1 DEF Told
    <3>2. Claims(dir, id) = Claiming(id)
      BY DEF Claims, Claiming
    <3>3. scans[s].seen[id] = IF Claims(dir, id) = {} THEN None ELSE Files[Max(Claims(dir, id))]
      BY <3>1, OrderEnds
    <3> QED
      BY <3>2, <3>3
  <2>5. \A id \in Builtins : plugins[id] = Builtin
    BY <2>1, Constants DEF IInv, BuiltinsUntouched
  <2>6. New(s) = External \ Present(owned)
    <3>1. \A id \in Ids \ Builtins : id \in External <=> scans[s].seen[id] # None
      BY <2>1, <2>3, Constants DEF External
    <3>2. \A id \in Builtins : id \notin External /\ id \notin New(s)
      BY <2>1, <2>2, <2>5, Constants DEF External, New
    <3> QED
      BY <2>2, <3>1, <3>2 DEF New, External, Present
  <2>7. Gone(s) = Present(owned) \ External
    <3>1. \A id \in Ids \ Builtins : id \notin External <=> plugins[id] = None /\ scans[s].seen[id] = None
      BY <2>1, <2>3, Constants DEF External
    <3>2. \A id \in Builtins : id \notin Present(owned) /\ id \notin Gone(s)
      BY <2>1 DEF Present, Gone
    <3> QED
      BY <2>2, <3>1, <3>2 DEF Gone, Present
  <2>8. scans[s].removed = Cardinality(Gone(s)) /\ (Unique => scans[s].added = Cardinality(New(s)))
    BY <2>1 DEF Told
  <2> QED
    BY <2>3, <2>4, <2>6, <2>7, <2>8
<1> QED
  BY <1>1, AlwaysCInv, PTL

(***************************************************************************)
(* Unless a tracker's own key looks like another's with the id appended,   *)
(* an export is accepted by Parse and read back as it was written, and     *)
(* managed trackers keep their keys but for those a tracker of the user's  *)
(* own, listed before, took; for any number of trackers and names.         *)
(***************************************************************************)
THEOREM ExportFaithful == ControlSpec => []ExportIsFaithful
<1>1. DInv => ExportIsFaithful
  BY Reparses, ManagedKeep DEF DInv, ExportIsFaithful
<1> QED
  BY <1>1, AlwaysDInv, PTL

(***************************************************************************)
(* With keys that differ, Marshal writes them as they are.                 *)
(***************************************************************************)
LEMMA KeysStay ==
  ASSUME NEW l, IsSeq(l), \A i \in DOMAIN l : l[i].key # <<>>, \A i, j \in DOMAIN l : l[i].key = l[j].key => i = j
  PROVE  DOMAIN Marshal(l) = DOMAIN l /\ \A i \in DOMAIN l : Marshal(l)[i].key = l[i].key /\ Marshal(l)[i].name = l[i].name
<1> DEFINE n == Len(l)
           out == Marshal(l)
           S == {k \in 0 .. n : \A i \in 1 .. k : out[i].key = l[i].key}
<1>1. n \in Nat /\ DOMAIN l = 1 .. n
  BY SeqFacts
<1>2. IsSeq(out) /\ Len(out) = n /\ \A i \in 1 .. n : out[i] = Exported(l[i], KeysBefore(out, i))
  BY MarshalIs
<1>3. DOMAIN out = 1 .. n
  BY <1>2, SeqFacts
<1> HIDE DEF n, out
<1>4. \A i \in 1 .. n : /\ out[i].name = l[i].name
                        /\ out[i].key = IF BaseKey(l[i]) \in KeysBefore(out, i) THEN Append(BaseKey(l[i]), l[i].id) ELSE BaseKey(l[i])
  BY <1>2, ExportedFields
<1>5. \A i \in 1 .. n : BaseKey(l[i]) = l[i].key
  BY <1>1 DEF BaseKey
<1>6. 0 \in S
  BY <1>1
<1>7. ASSUME NEW k \in 1 .. n, k - 1 \in S PROVE k \in S
  <2>1. \A j \in 1 .. k - 1 : out[j].key = l[j].key /\ j \in 1 .. n /\ j # k
    BY <1>1, <1>7
  <2>2. l[k].key \notin KeysBefore(out, k)
    BY <1>1, <2>1 DEF KeysBefore
  <2>3. out[k].key = l[k].key
    BY <1>4, <1>5, <2>2
  <2>4. \A i \in 1 .. k : i = k \/ i \in 1 .. k - 1
    OBVIOUS
  <2>5. k \in 0 .. n
    BY <1>1
  <2> QED
    BY <2>1, <2>3, <2>4, <2>5
<1>8. 0 .. n \subseteq S
  <2> HIDE DEF S
  <2> QED
    BY <1>1, <1>6, <1>7, InductUpTo
<1>9. n \in S
  BY <1>1, <1>8
<1> QED
  BY <1>1, <1>3, <1>4, <1>9 DEF out

LEMMA UpdatedName ==
  ASSUME NEW t, t.key # <<>>, NEW d
  PROVE  Updated(t, d).name = d[CHOOSE i \in DOMAIN d : d[i].key = t.key].name
BY DEF Updated

\* What an import without trackers of the user's own has is what the document has.
LEMMA ImportHasAll ==
  ASSUME TrackersOK(listed), \A i \in DOMAIN listed : listed[i].key # <<>>,
         NEW d, ParsedOK(d), NEW l2, NEW m, NEW h, NEW q, NEW g, Imported(l2, d, m, h, q, g)
  PROVE  /\ \A i \in DOMAIN l2 : \E k \in DOMAIN d : l2[i].key = d[k].key /\ l2[i].name = d[k].name
         /\ \A k \in DOMAIN d : \E i \in DOMAIN l2 : l2[i].key = d[k].key /\ l2[i].name = d[k].name
<1>1. /\ DOMAIN l2 = 1 .. m + q
      /\ \A i \in 1 .. m + q : i \in 1 .. m \/ (i - m \in 1 .. q /\ i = m + (i - m))
      /\ \A i \in 1 .. m : /\ h[i] \in DOMAIN listed /\ Stays(listed[h[i]], d)
                           /\ l2[i].id = listed[h[i]].id /\ l2[i].key = listed[h[i]].key
                           /\ l2[i] = Updated(listed[h[i]], d)
      /\ \A i \in 1 .. q : /\ g[i] \in DOMAIN d /\ d[g[i]].key \notin Keys(listed)
                           /\ l2[m + i].id = Free + i /\ l2[m + i].key = d[g[i]].key /\ l2[m + i].name = d[g[i]].name
                           /\ l2[m + i] = [id |-> Free + i, key |-> d[g[i]].key, name |-> d[g[i]].name]
  BY Origins
<1>2. m \in Nat /\ q \in Nat
  BY DEF Imported
<1>3. /\ \A k \in 1 .. Len(listed) : listed[k] \in {t \in ToSet(listed) : Stays(t, d)} <=> \E j \in 1 .. m : h[j] = k
      /\ \A k \in 1 .. Len(d) : d[k] \in {e \in ToSet(d) : e.key \notin Keys(listed)} <=> \E j \in 1 .. q : g[j] = k
  BY Zenon DEF Imported, Picks
<1>4. /\ DOMAIN listed = 1 .. Len(listed) /\ DOMAIN d = 1 .. Len(d)
      /\ \A k \in DOMAIN listed : listed[k] \in ToSet(listed)
      /\ \A k \in DOMAIN d : d[k] \in ToSet(d)
  BY SeqFacts DEF TrackersOK, ParsedOK, WrittenOK
\* A tracker that stays has the name of the entry with its key.
<1>5. ASSUME NEW i \in 1 .. m, NEW k \in DOMAIN d, d[k].key = l2[i].key PROVE l2[i].name = d[k].name
  <2> DEFINE t == listed[h[i]]
  <2>1. h[i] \in DOMAIN listed /\ l2[i].key = t.key /\ l2[i] = Updated(t, d)
    BY <1>1
  <2>2. t.key # <<>>
    BY <2>1
  <2> HIDE DEF t
  <2>3. \E x \in DOMAIN d : d[x].key = t.key
    BY <1>5, <2>1
  <2>4. PICK x \in DOMAIN d : x = CHOOSE y \in DOMAIN d : d[y].key = t.key
    BY <2>3
  <2>5. d[x].key = t.key
    BY <2>3, <2>4
  <2>6. x = k
    BY <1>5, <2>1, <2>5 DEF ParsedOK
  <2> QED
    BY <2>1, <2>2, <2>4, <2>6, UpdatedName
<1>6. ASSUME NEW i \in 1 .. m PROVE \E k \in DOMAIN d : l2[i].key = d[k].key /\ l2[i].name = d[k].name
  <2>1. h[i] \in DOMAIN listed /\ Stays(listed[h[i]], d) /\ l2[i].key = listed[h[i]].key
    BY <1>1
  <2>2. listed[h[i]].key \in Keys(d)
    BY <2>1 DEF Stays
  <2>3. PICK k \in DOMAIN d : d[k].key = l2[i].key
    BY <2>1, <2>2 DEF Keys
  <2> QED
    BY <1>5, <2>3
<1>7. ASSUME NEW i \in DOMAIN l2 PROVE \E k \in DOMAIN d : l2[i].key = d[k].key /\ l2[i].name = d[k].name
  <2>1. CASE i \in 1 .. m
    BY <1>6, <2>1
  <2>2. CASE i - m \in 1 .. q /\ i = m + (i - m)
    <3> DEFINE k == i - m
    <3>1. k \in 1 .. q /\ i = m + k
      BY <2>2
    <3> HIDE DEF k
    <3> QED
      BY <1>1, <3>1
  <2> QED
    BY <1>1, <2>1, <2>2
<1>8. ASSUME NEW k \in DOMAIN d PROVE \E i \in DOMAIN l2 : l2[i].key = d[k].key /\ l2[i].name = d[k].name
  <2>1. CASE d[k].key \in Keys(listed)
    <3>1. PICK x \in DOMAIN listed : listed[x].key = d[k].key
      BY <2>1 DEF Keys
    <3>2. Stays(listed[x], d)
      BY <3>1 DEF Stays, Keys
    <3>3. PICK i \in 1 .. m : h[i] = x
      BY <1>3, <1>4, <3>2
    <3>4. l2[i].key = d[k].key
      BY <1>1, <3>1, <3>3
    <3>5. l2[i].name = d[k].name
      BY <1>5, <3>4
    <3>6. i \in DOMAIN l2
      BY <1>1, <1>2
    <3> QED
      BY <3>4, <3>5, <3>6
  <2>2. CASE d[k].key \notin Keys(listed)
    <3>1. PICK i \in 1 .. q : g[i] = k
      BY <1>3, <1>4, <2>2
    <3>2. m + i \in DOMAIN l2
      BY <1>1, <1>2
    <3>3. l2[m + i].key = d[k].key /\ l2[m + i].name = d[k].name
      BY <1>1, <3>1
    <3> QED
      BY <3>2, <3>3
  <2> QED
    BY <2>1, <2>2
<1> QED
  BY <1>7, <1>8

(***************************************************************************)
(* Without trackers of the user's own, importing a document and exporting  *)
(* again gives the document back, whatever was there before.               *)
(***************************************************************************)
THEOREM ImportRoundTrips == ControlSpec => []RoundTrips
<1>1. ASSUME DInv PROVE RoundTrips
  <2> SUFFICES ASSUME stage = "parsed", \A i \in DOMAIN listed : listed[i].key # <<>>
               PROVE  AsSet(Marshal(FileTrackers(doc))) = AsSet(doc)
    BY DEF RoundTrips
  <2>1. TrackersOK(listed) /\ ParsedOK(doc)
    BY <1>1 DEF DInv
  <2>2. PICK l2 : l2 = FileTrackers(doc)
    OBVIOUS
  <2>3. PICK m, h, q, g : Imported(l2, doc, m, h, q, g)
    BY <2>1, <2>2, FileIs
  <2>4. /\ \A i \in DOMAIN l2 : \E k \in DOMAIN doc : l2[i].key = doc[k].key /\ l2[i].name = doc[k].name
        /\ \A k \in DOMAIN doc : \E i \in DOMAIN l2 : l2[i].key = doc[k].key /\ l2[i].name = doc[k].name
    BY <2>1, <2>3, ImportHasAll
  <2>5. \A i \in DOMAIN l2 : l2[i].key # <<>>
    <3>1. \A k \in DOMAIN doc : doc[k].key # <<>>
      BY <2>1 DEF ParsedOK
    <3> QED
      BY <2>4, <3>1
  <2>6. \A i, j \in DOMAIN l2 : l2[i].key = l2[j].key => i = j
    BY <2>1, <2>3, <2>5, ImportDistinct
  <2>7. IsSeq(l2)
    BY <2>3 DEF Imported
  <2>8. DOMAIN Marshal(l2) = DOMAIN l2 /\ \A i \in DOMAIN l2 : Marshal(l2)[i].key = l2[i].key /\ Marshal(l2)[i].name = l2[i].name
    BY <2>5, <2>6, <2>7, KeysStay
  <2>9. AsSet(Marshal(l2)) = AsSet(doc)
    BY <2>4, <2>8 DEF AsSet
  <2> QED
    BY <2>2, <2>9
<1> QED
  BY <1>1, AlwaysDInv, PTL

LEMMA AsManyKeys ==
  ASSUME NEW d, ParsedOK(d)
  PROVE  Cardinality(Keys(d)) = Len(d) /\ <<>> \notin Keys(d)
<1> DEFINE n == Len(d)
           f == [i \in 1 .. n |-> d[i].key]
<1>1. n \in Nat /\ DOMAIN d = 1 .. n
  BY SeqFacts DEF ParsedOK, WrittenOK
<1> HIDE DEF n
<1>2. f \in [1 .. n -> Keys(d)] /\ \A i, j \in 1 .. n : f[i] = f[j] => i = j
  BY <1>1 DEF Keys, ParsedOK
<1>3. \A k \in Keys(d) : \E i \in 1 .. n : f[i] = k
  BY <1>1 DEF Keys
<1> HIDE DEF f
<1>4. f \in Bijection(1 .. n, Keys(d))
  BY <1>2, <1>3 DEF Bijection, Injection, Surjection, IsInjective
<1>5. IsFiniteSet(1 .. n) /\ Cardinality(1 .. n) = n
  BY <1>1, FS_Interval
<1>6. ExistsBijection(1 .. n, Keys(d))
  BY <1>4 DEF ExistsBijection
<1>7. Cardinality(Keys(d)) = n
  BY <1>5, <1>6, FS_Bijection
<1>8. <<>> \notin Keys(d)
  BY DEF Keys, ParsedOK
<1> QED
  BY <1>7, <1>8 DEF n

(***************************************************************************)
(* The types of what an administrator works on: built-in plugins stay      *)
(* where they are, the settings are what can be stored, and a document     *)
(* that was parsed has unique keys, none of them empty, and no blank name. *)
(***************************************************************************)
THEOREM ControlTyped == ControlSpec => []ControlTypeOK
<1>1. ASSUME IInv, SInv, DInv PROVE ControlTypeOK
  <2>1. TypeOK /\ BuiltinsUntouched
    BY <1>1 DEF IInv
  <2>2. row \in Doc /\ level \in BOOLEAN /\ env \in Tokens \cup {""} /\ tabs \in [Tabs -> TabState]
    BY <1>1 DEF SInv, SettingsTyped
  <2>3. /\ \A t \in Tabs : tabs[t].cache \in Doc
        /\ \A r \in Requests : saves[r] # NoSave => saves[r].put \in Doc
    BY <1>1, <2>2 DEF SInv, SettingsTyped, TabState, Save
  <2>4. ASSUME stage = "parsed"
        PROVE  /\ Cardinality(Keys(doc)) = Len(doc) /\ <<>> \notin Keys(doc)
               /\ \A i \in DOMAIN doc : doc[i].name # NoName
    <3>1. ParsedOK(doc)
      BY <1>1, <2>4 DEF DInv
    <3> QED
      BY <3>1, AsManyKeys DEF ParsedOK
  <2> QED
    BY <2>1, <2>2, <2>3, <2>4 DEF ControlTypeOK
<1> QED
  BY <1>1, AlwaysIInv, AlwaysSInv, AlwaysDInv, PTL
=============================================================================
