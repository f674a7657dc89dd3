------------------------------ MODULE Settings ------------------------------
(***************************************************************************)
(* The dashboard's settings: one row, which every browser tab overwrites   *)
(* as a whole from the copy it has, and two things of the process that     *)
(* follow it: the log level and GITHUB_TOKEN.  A save is committed, then   *)
(* sets the level, then the variable, each without a lock around them.  A  *)
(* tab may have several saves in flight, answered in any order.            *)
(***************************************************************************)
EXTENDS Integers, FiniteSets

CONSTANTS
  Tabs,       \* browser tabs
  Requests,   \* identities of saves in flight: a bound on how many there are at once
  Tokens,     \* GitHub tokens
  Orders,     \* orders of the cards other than the default
  Entries,    \* what is entered in the boxes of the form
  Launches,   \* ways the process is started
  MaxSaves    \* bound on the saves committed or sent to be

VARIABLES
  row,        \* what the settings table holds; the defaults until the first save
  level,      \* the LevelVar: whether Debug is on
  env,        \* GITHUB_TOKEN of the process
  launch,     \* of the next start: -debug, PLUGDASH_DEBUG or the config file's debug, GITHUB_TOKEN, the file's token
  tabs,       \* the page of each tab
  saves,      \* the saves in flight
  commits,    \* history: saves committed
  saved,      \* history: whether a save was committed since the start
  overlapped  \* history: the last save was committed while another was being applied

settingsVars == <<row, level, env, launch, tabs, saves, commits, saved, overlapped>>

(* debug also stands for uniform_sizes, which is another box of the same form. *)
Doc == [live : BOOLEAN, order : Orders \cup {"default"}, debug : BOOLEAN, token : Tokens \cup {""}]
DefaultSettings == [live |-> TRUE, order |-> "default", debug |-> FALSE, token |-> ""]
Unknown == 0 - 1

(* What a start is given. *)
Launch == [debug : BOOLEAN, token : Tokens \cup {""}, file : Tokens \cup {""}]

ASSUME SettingsAssumption ==
  /\ MaxSaves \in Nat /\ "" \notin Tokens
  /\ Entries \subseteq [live : BOOLEAN, debug : BOOLEAN, token : Tokens \cup {""}]
  /\ Launches \subseteq Launch

(* What main makes of the row; the environment wins over the saved token, *)
(* and that over the file's.                                              *)
BootLevel(l, s) == l.debug \/ s.debug
BootToken(l, s) == IF l.token # "" THEN l.token ELSE IF s.token # "" THEN s.token ELSE l.file

(* waits: the save for which the button of the form shown is disabled. *)
NewTab == [view |-> "none", cached |-> FALSE, cache |-> DefaultSettings, seen |-> Unknown, waits |-> {}]
NoSave == [pc |-> "idle"]

SettingsInit ==
  /\ row = DefaultSettings
  /\ launch \in Launches
  /\ level = BootLevel(launch, row)
  /\ env = BootToken(launch, row)
  /\ tabs = [t \in Tabs |-> NewTab]
  /\ saves = [r \in Requests |-> NoSave]
  /\ commits = 0 /\ saved = FALSE /\ overlapped = FALSE

-----------------------------------------------------------------------------
(***************************************************************************)
(* The browser.  History (seen): the saves that the copy and the object    *)
(* sent reflect, for the latter its own once it is committed; a copy       *)
(* changed in place reflects none until an answer replaces it.             *)
(***************************************************************************)
Tab(t, tab) == tabs' = [tabs EXCEPT ![t] = tab]
Server == <<row, level, env, launch, commits, saved, overlapped>>
Fetched(tab) == [tab EXCEPT !.cached = TRUE, !.cache = row, !.seen = commits]

(* The dashboard asks for the settings once, and does without on failure.  *)
(* Behind the last save of the bound no page matters any more.             *)
OpenDashboard(t) ==
  /\ commits < MaxSaves
  /\ LET tab == [tabs[t] EXCEPT !.view = "dashboard", !.waits = {}] IN
     \/ tab.cached /\ Tab(t, tab)
     \/ ~tab.cached /\ Tab(t, Fetched(tab))
     \/ ~tab.cached /\ Tab(t, [tab EXCEPT !.cached = TRUE, !.cache = DefaultSettings, !.seen = Unknown])
  /\ UNCHANGED <<saves, Server>>

(* The settings view asks every time, and shows no form on failure. *)
OpenSettings(t) ==
  /\ commits < MaxSaves
  /\ \/ Tab(t, [Fetched(tabs[t]) EXCEPT !.view = "settings", !.waits = {}])
     \/ Tab(t, [tabs[t] EXCEPT !.view = "none", !.waits = {}])
  /\ UNCHANGED <<saves, Server>>

(* Tab t, then in state tab, sends the object put. *)
Send(r, t, put, touches, tab) ==
  /\ saves[r] = NoSave /\ commits + Cardinality({q \in Requests : saves[q].pc = "saving"}) < MaxSaves
  /\ saves' = [saves EXCEPT ![r] = [pc |-> "saving", tab |-> t, put |-> put, touches |-> touches,
                                    seen |-> tabs[t].seen]]
  /\ Tab(t, tab)
  /\ UNCHANGED Server

(* The Live switch and persistOrder change the copy and send it. *)
SendCopy(r, t, copy, touches) ==
  /\ tabs[t].view = "dashboard"
  /\ Send(r, t, copy, touches, [tabs[t] EXCEPT !.cache = copy, !.seen = Unknown])
SwitchLive(r, t, on) == SendCopy(r, t, [tabs[t].cache EXCEPT !.live = on], "live")
Drag(r, t, order) == SendCopy(r, t, [tabs[t].cache EXCEPT !.order = order], "order")

\* Mutant: the form leaves the order out.
SaveFormWithoutOrder(r, t, e) ==
  /\ tabs[t].view = "settings" /\ tabs[t].waits = {}
  /\ Send(r, t, [live |-> e.live, debug |-> e.debug, token |-> e.token, order |-> "default"], "form",
          [tabs[t] EXCEPT !.waits = {r}])

(* The form is sent with the order of the copy. *)
SaveForm(r, t, e) ==
  /\ tabs[t].view = "settings" /\ tabs[t].waits = {}
  /\ Send(r, t, [live |-> e.live, debug |-> e.debug, token |-> e.token, order |-> tabs[t].cache.order], "form",
          [tabs[t] EXCEPT !.waits = {r}])

(* A save is over for its tab. *)
Ends(r, tab) ==
  /\ saves' = [saves EXCEPT ![r] = NoSave]
  /\ Tab(saves[r].tab, [tab EXCEPT !.waits = @ \ {r}])
  /\ UNCHANGED Server

(* The answer replaces the copy; an error does not. *)
Replied(r) ==
  /\ saves[r].pc = "replied" /\ commits < MaxSaves
  /\ LET tab == tabs[saves[r].tab] IN
     \/ Ends(r, [tab EXCEPT !.cache = saves[r].put, !.seen = saves[r].seen])
     \/ Ends(r, tab)

-----------------------------------------------------------------------------
(***************************************************************************)
(* handleSaveSettings.                                                     *)
(***************************************************************************)
UnderWay(r) == saves[r].pc \in {"committed", "leveled"}

Commit(r) ==
  /\ row' = saves[r].put
  /\ commits' = commits + 1
  /\ saved' = TRUE
  /\ overlapped' = (\E q \in Requests : UnderWay(q))
  /\ saves' = [saves EXCEPT ![r] = [@ EXCEPT !.pc = "committed", !.seen = commits + 1]]
  /\ UNCHANGED <<level, env, launch, tabs>>

SaveSettings(r) ==
  /\ saves[r].pc = "saving"
  /\ Commit(r) \/ Ends(r, tabs[saves[r].tab])

\* Mutant: the level is only ever raised.
applyDebugLevelOn(r) ==
  /\ saves[r].pc = "committed"
  /\ level' = (level \/ saves[r].put.debug)
  /\ saves' = [saves EXCEPT ![r] = [@ EXCEPT !.pc = "leveled"]]
  /\ UNCHANGED <<row, env, launch, tabs, commits, saved, overlapped>>

applyDebugLevel(r) ==
  /\ saves[r].pc = "committed"
  /\ level' = saves[r].put.debug
  /\ saves' = [saves EXCEPT ![r] = [@ EXCEPT !.pc = "leveled"]]
  /\ UNCHANGED <<row, env, launch, tabs, commits, saved, overlapped>>

(* An empty token leaves the variable alone. *)
Setenv(r) ==
  /\ saves[r].pc = "leveled"
  /\ env' = IF saves[r].put.token # "" THEN saves[r].put.token ELSE env
  /\ saves' = [saves EXCEPT ![r] = [@ EXCEPT !.pc = "replied"]]
  /\ UNCHANGED <<row, level, launch, tabs, commits, saved, overlapped>>

(* A new process: requests under way fail, and a row that cannot be read   *)
(* counts as none.                                                         *)
Restart ==
  /\ \E s \in {row, DefaultSettings} :
       /\ level' = BootLevel(launch, s)
       /\ env' = BootToken(launch, s)
  /\ saves' = [r \in Requests |-> NoSave]
  /\ tabs' = [t \in Tabs |-> [tabs[t] EXCEPT !.waits = {}]]
  /\ saved' = FALSE /\ overlapped' = FALSE
  /\ UNCHANGED <<row, launch, commits>>

SettingsNext ==
  \/ \E t \in Tabs : OpenDashboard(t) \/ OpenSettings(t)
  \/ \E r \in Requests, t \in Tabs :
       \/ \E on \in BOOLEAN : SwitchLive(r, t, on)
       \/ \E order \in Orders : Drag(r, t, order)
       \/ \E e \in Entries : SaveForm(r, t, e)
  \/ \E r \in Requests : SaveSettings(r) \/ applyDebugLevel(r) \/ Setenv(r) \/ Replied(r)
  \/ Restart

SettingsSpec == SettingsInit /\ [][SettingsNext]_settingsVars

-----------------------------------------------------------------------------
(***************************************************************************)
(* What is saved is in effect: once a save was committed since the start,  *)
(* and none is between its steps, debug logging is on if the row's toggle  *)
(* is, off if it is not and the process was not started with debug either, *)
(* and GITHUB_TOKEN is the row's token if it has one.  Nothing is said of  *)
(* a process started with -debug or PLUGDASH_DEBUG when the toggle is off: *)
(* CONFIGURATION.md has debug on "if any" of them is, and the code turns   *)
(* it off with every save.  Two saves whose steps interleave may be        *)
(* committed in one order and applied in the other (overlapped), until the *)
(* next save or start.                                                     *)
(***************************************************************************)
SavedIsApplied ==
  saved /\ ~overlapped /\ (\A r \in Requests : ~UnderWay(r)) =>
    /\ row.debug => level
    /\ ~row.debug /\ ~launch.debug => ~level
    /\ row.token # "" => env = row.token

(* A step that commits save r. *)
Commits(r) == saves[r].pc = "saving" /\ saves'[r].pc = "committed"

(***************************************************************************)
(* Moving a card changes nothing but the order, the Live switch nothing    *)
(* but itself, and saving the form keeps the order, although each sends    *)
(* the whole object: as long as the copy it was sent from reflects the     *)
(* last save.  A copy changed by a save not answered yet, fetched before   *)
(* another tab's save, or left behind by a failure puts old values back.   *)
(***************************************************************************)
KeepsTheRest ==
  [][\A r \in Requests :
       Commits(r) /\ saves[r].seen = commits =>
         CASE saves[r].touches = "order" -> row' = [row EXCEPT !.order = row'.order]
           [] saves[r].touches = "live"  -> row' = [row EXCEPT !.live = row'.live]
           [] saves[r].touches = "form"  -> row'.order = row.order]_settingsVars
=============================================================================
