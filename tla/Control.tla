------------------------------ MODULE Control ------------------------------
(***************************************************************************)
(* What an administrator does beside the trackers: rescan the plugins,     *)
(* change the settings, export and import the configuration.  The three    *)
(* share no state, so a step of one commutes with every step of another    *)
(* and it is enough to see each of them run with the others at rest.       *)
(***************************************************************************)
EXTENDS Rescan, Settings, Document

VARIABLE part   \* the part that is at work

controlVars == <<part, vars, settingsVars, documentVars>>

ControlInit ==
  \/ /\ part = "rescan" /\ Init
     /\ SettingsInit
     /\ DocumentInit /\ listed = <<>> /\ doc = <<>>
  \/ /\ part = "settings" /\ SettingsInit
     /\ Init /\ dir = [f \in FileSet |-> None]
     /\ DocumentInit /\ listed = <<>> /\ doc = <<>>
  \/ /\ part = "document" /\ DocumentInit
     /\ Init /\ dir = [f \in FileSet |-> None]
     /\ SettingsInit

ControlNext ==
  /\ UNCHANGED part
  /\ \/ part = "rescan" /\ Next /\ UNCHANGED <<settingsVars, documentVars>>
     \/ part = "settings" /\ SettingsNext /\ UNCHANGED <<vars, documentVars>>
     \/ part = "document" /\ DocumentNext /\ UNCHANGED <<vars, settingsVars>>

ControlSpec == ControlInit /\ [][ControlNext]_controlVars

(* Types of all parts; built-in plugins stay where they are; every document that is parsed has unique keys and no blank name. *)
ControlTypeOK ==
  /\ TypeOK /\ BuiltinsUntouched
  /\ row \in Doc /\ level \in BOOLEAN /\ env \in Tokens \cup {""}
  /\ \A t \in Tabs : tabs[t].cache \in Doc
  /\ \A r \in Requests : saves[r] # NoSave => saves[r].put \in Doc
  /\ stage = "parsed" =>
       /\ Cardinality(Keys(doc)) = Len(doc) /\ <<>> \notin Keys(doc)
       /\ \A i \in DOMAIN doc : doc[i].name # NoName
=============================================================================
