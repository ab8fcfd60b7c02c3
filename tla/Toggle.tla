------------------------------- MODULE Toggle -------------------------------
(***************************************************************************)
(* "gobstopper off" and "gobstopper on" (toggle.rs): one switch for the    *)
(* managed service and for the settings of Codex and Claude Code that      *)
(* route them through it.  off saves what it is about to remove, edits the *)
(* two settings files and removes the service; on does the reverse.        *)
(*                                                                         *)
(* A command may fail or be killed between any two steps, and is then run  *)
(* again or not.  Users edit the files, and install and remove services,   *)
(* whenever they like.  A URL is the port of the proxy, where the proxy    *)
(* forwards to, or something else.                                         *)
(*                                                                         *)
(* Left out: the texts of TOML and JSON, damaged files (the command stops  *)
(* before it has changed anything), the copies kept beside edited files,   *)
(* the refusal to run inside a routed session, and two commands at once,   *)
(* which nothing prevents.                                                 *)
(***************************************************************************)
EXTENDS Naturals

CONSTANTS
  Port, DefaultPort,   \* where a proxy may listen
  Upstream, Provider,  \* where it may forward to, and where it does by default
  Elsewhere,           \* a URL or a provider that is not the program's
  None,
  MaxLapses,           \* bound: commands that fail or are killed
  MaxEdits             \* bound: what users do

ASSUME ToggleAssumption ==
  /\ DefaultPort \in Port /\ Provider \in Upstream
  /\ Port \cap Upstream = {} /\ {Elsewhere, None} \cap (Port \cup Upstream) = {}
  /\ "unset" \notin Port \cup {Elsewhere, None}
  /\ Elsewhere # None /\ {MaxLapses, MaxEdits} \subseteq Nat

VARIABLES
  codex,      \* ~/.codex/config.toml
  claude,     \* env.ANTHROPIC_BASE_URL in ~/.claude/settings.json
  managed,    \* the installed service: its port and where it forwards to
  paused,     \* paused.json
  switch,     \* the command and its plan
  untouched,  \* nobody else has changed anything since the plan was made
  removed,    \* the URL that off took out of Claude's settings
  routed,     \* who was routed when off first saved what it found
  lapses, edits

toggleVars ==
  <<codex, claude, managed, paused, switch, untouched, removed, routed, lapses, edits>>

\* The top-level provider, the base_url of the gobstopper provider (None: there is
\* no such table), the port in off's mark on that line, and whether its path is
\* one that the proxy does not forward.
Config ==
  [provider : {"gobstopper", "other", "none"}, base : Port \cup Upstream \cup {Elsewhere, None},
   was : Port \cup {None}, odd : BOOLEAN]
Configs == {None} \cup {c \in Config : c.base = None => c.was = None /\ ~c.odd}
Settings == {None, "unset", Elsewhere} \cup Port
Service == [port : Port, to : Upstream]
Paused == [port : Port \cup {None}, to : Upstream \cup {None}, url : Port \cup {None}]
ASSUME NoneIsNothing == None \notin Config \cup Service \cup Paused

Steps == {"service", "codex", "write codex", "claude", "write claude", "save", "done"}
NoSwitch == [does |-> "nothing"]

ToggleTypeOK ==
  /\ codex \in Configs /\ claude \in Settings
  /\ managed \in Service \cup {None} /\ paused \in Paused \cup {None}
  /\ switch = NoSwitch \/
     /\ switch.does \in {"off", "on"} /\ switch.at \in Steps
     /\ switch.codex \in Configs /\ switch.newCodex \in Configs
     /\ switch.claude \in Settings /\ switch.newClaude \in Settings
     /\ {switch.service, switch.new} \subseteq Service \cup {None} /\ switch.paused \in Paused
  /\ untouched \in BOOLEAN /\ removed \in Port \cup {None}
  /\ lapses \in 0..MaxLapses /\ edits \in 0..MaxEdits

Or(a, b) == IF a # None THEN a ELSE b
Field(r, f) == IF r = None THEN None ELSE r[f]
Ran == switch.does # "nothing"
Stands(step) == Ran /\ switch.at = step

-----------------------------------------------------------------------------
(* What is planned                                                         *)

CodexPort(c) == IF c # None /\ c.base \in Port THEN c.base ELSE None
\* load_paused, or the default.
Saved == IF paused = None THEN [port |-> None, to |-> None, url |-> None] ELSE paused

OffPort == Or(Field(managed, "port"), Or(Saved.port, Or(CodexPort(codex), DefaultPort)))
OffPorts == {OffPort, CodexPort(codex), DefaultPort} \ {None}
OnPort ==
  Or(Field(managed, "port"),
     Or(Saved.port, Or(CodexPort(codex), Or(Field(codex, "was"), DefaultPort))))

\* As if only new sessions were routed by the file.
CodexUnroute(c, to) == [c EXCEPT !.provider = IF @ = "gobstopper" THEN "none" ELSE @]

\* codex_off: the provider's line becomes a comment; a base_url of a proxy becomes
\* what the proxy forwards it to, unless off has already marked the line.
CodexOff(c, to) ==
  LET repoints == c.base \in Port /\ ~c.odd /\ c.was = None
  IN [c EXCEPT !.provider = IF @ = "gobstopper" THEN "none" ELSE @,
               !.base = IF repoints THEN to ELSE @,
               !.was = IF repoints THEN c.base ELSE @]

\* codex_on: a marked base_url becomes that of the proxy, whichever provider is
\* selected; the provider's line returns if none is and there is its table.
CodexOn(c, port) ==
  [c EXCEPT !.provider = IF @ = "none" /\ c.base # None THEN "gobstopper" ELSE @,
            !.base = IF c.was # None THEN port ELSE @,
            !.was = None]

PlanOff ==
  [does |-> "off", at |-> "save", service |-> managed, new |-> None,
   codex |-> codex,
   newCodex |-> IF codex = None THEN None
                ELSE CodexOff(codex, Or(Field(managed, "to"), Or(Saved.to, Provider))),
   claude |-> claude,
   newClaude |-> IF claude \in OffPorts THEN "unset" ELSE claude,
   paused |-> [port |-> OffPort, to |-> Or(Field(managed, "to"), Saved.to),
               url |-> IF claude \in OffPorts THEN claude ELSE Saved.url]]

\* A saved URL of another port is replaced by the proxy's.  A missing settings.json
\* is planned for as an empty one.
PlanOn ==
  [does |-> "on", at |-> "service", service |-> managed,
   new |-> [port |-> OnPort, to |-> Or(Saved.to, Provider)],
   codex |-> codex,
   newCodex |-> IF codex = None THEN None ELSE CodexOn(codex, OnPort),
   claude |-> IF claude = None THEN "unset" ELSE claude,
   newClaude |-> IF claude \in {None, "unset"} /\ Saved.url # None THEN OnPort
                 ELSE IF claude = None THEN "unset" ELSE claude,
   paused |-> [Saved EXCEPT !.url = None]]

-----------------------------------------------------------------------------
(* The commands                                                            *)

\* As if paused.json were written when everything is done, as on does.
SavesLast == <<"codex", "claude", "service", "save", "done">>

OffOrder == <<"save", "codex", "claude", "service", "done">>
OnOrder == <<"service", "codex", "claude", "save", "done">>
Following(step) ==
  LET order == IF switch.does = "off" THEN OffOrder ELSE OnOrder
      i == CHOOSE i \in 1..4 : order[i] = step
  IN order[i + 1]

Continue(step) == switch' = [switch EXCEPT !.at = step]
Abort == switch' = NoSwitch

\* Those whom turning it off will cut from the proxy.
Routed ==
  {w \in {"codex", "sessions", "claude"} :
     \/ w = "codex" /\ codex # None /\ codex.provider = "gobstopper" /\ codex.base # None
     \/ w = "sessions" /\ CodexPort(codex) = OffPort
     \/ w = "claude" /\ claude = OffPort}

TurnOff ==
  /\ ~Ran \/ Stands("done")
  /\ switch' = [PlanOff EXCEPT !.at = OffOrder[1]]
  /\ untouched' = TRUE
  /\ UNCHANGED <<codex, claude, managed, paused, removed, routed, lapses, edits>>

TurnOn ==
  /\ ~Ran \/ Stands("done")
  /\ switch' = [PlanOn EXCEPT !.at = OnOrder[1]]
  /\ untouched' = TRUE
  /\ UNCHANGED <<codex, claude, managed, paused, removed, routed, lapses, edits>>

SavePaused ==
  /\ Stands("save")
  /\ paused' = switch.paused
  /\ routed' = IF switch.does = "on" THEN None
               ELSE IF routed = None /\ untouched THEN Routed ELSE routed
  /\ Continue(Following("save"))
  /\ UNCHANGED <<codex, claude, managed, untouched, removed, lapses, edits>>

\* replace_file compares the file with what was planned from, and then renames.
LookCodex ==
  /\ Stands("codex")
  /\ IF switch.newCodex = switch.codex THEN Continue(Following("codex"))
     ELSE IF codex = switch.codex THEN Continue("write codex") ELSE Abort
  /\ UNCHANGED <<codex, claude, managed, paused, untouched, removed, routed, lapses, edits>>

WriteCodex ==
  /\ Stands("write codex")
  /\ codex' = switch.newCodex
  /\ Continue(Following("codex"))
  /\ UNCHANGED <<claude, managed, paused, untouched, removed, routed, lapses, edits>>

\* A missing file is not the empty one that on planned from.
LookClaude ==
  /\ Stands("claude")
  /\ IF switch.newClaude = switch.claude THEN Continue(Following("claude"))
     ELSE IF claude = switch.claude THEN Continue("write claude") ELSE Abort
  /\ UNCHANGED <<codex, claude, managed, paused, untouched, removed, routed, lapses, edits>>

WriteClaude ==
  /\ Stands("write claude")
  /\ claude' = switch.newClaude
  /\ removed' = IF switch.does = "off" THEN switch.claude ELSE None
  /\ Continue(Following("claude"))
  /\ UNCHANGED <<codex, managed, paused, untouched, routed, lapses, edits>>

\* uninstall removes what is installed by now, repair wants a service to be there,
\* and install wants none but its own.
SwitchService ==
  /\ Stands("service")
  /\ \/ /\ switch.does = "off"
        /\ managed' = IF switch.service = None THEN managed ELSE None
        /\ Continue(Following("service"))
     \/ /\ switch.does = "on"
        /\ IF switch.service # None
           THEN /\ managed' = managed
                /\ IF managed = None THEN Abort ELSE Continue(Following("service"))
           ELSE /\ managed' = Or(managed, switch.new)
                /\ IF managed' = switch.new THEN Continue(Following("service")) ELSE Abort
  /\ UNCHANGED <<codex, claude, paused, untouched, removed, routed, lapses, edits>>

\* A file that cannot be written, a service that does not stop or start, a kill.
Lapse ==
  /\ Ran /\ ~Stands("done") /\ lapses < MaxLapses
  /\ lapses' = lapses + 1
  /\ Abort
  /\ UNCHANGED <<codex, claude, managed, paused, untouched, removed, routed, edits>>

\* Users edit settings, install services and remove them.
Interfere ==
  /\ edits < MaxEdits
  /\ edits' = edits + 1
  /\ untouched' = FALSE /\ routed' = None
  /\ \/ codex' \in Configs \ {codex} /\ UNCHANGED <<claude, managed, removed>>
     \/ claude' \in Settings \ {claude} /\ removed' = None /\ UNCHANGED <<codex, managed>>
     \/ managed' \in (Service \cup {None}) \ {managed} /\ UNCHANGED <<codex, claude, removed>>
  /\ UNCHANGED <<paused, switch, lapses>>

ToggleInit ==
  /\ codex \in {c \in Configs : Field(c, "was") = None}
  /\ claude \in Settings
  /\ managed \in Service \cup {None}
  /\ paused = None /\ switch = NoSwitch
  /\ untouched = TRUE /\ removed = None /\ routed = None
  /\ lapses = 0 /\ edits = 0

ToggleNext ==
  \/ TurnOff \/ TurnOn
  \/ SavePaused \/ LookCodex \/ WriteCodex \/ LookClaude \/ WriteClaude \/ SwitchService
  \/ Lapse \/ Interfere

ToggleSpec == ToggleInit /\ [][ToggleNext]_toggleVars

-----------------------------------------------------------------------------
(* What must hold                                                          *)

\* toggle.rs, "the removed URL must survive any later failure": wherever commands
\* stop, the URL that was taken out of Claude's settings is recorded until one is
\* there again.
RemovedUrlIsSaved == removed # None => paused # None /\ paused.url = removed

\* The service goes only when nobody is sent to it any more: neither new sessions
\* nor, but for a base_url that off reports and leaves, old ones.
NobodyIsStranded ==
  [][managed # None /\ managed' = None /\ untouched' =>
       /\ claude # managed.port
       /\ codex # None =>
            /\ codex.provider # "gobstopper"
            /\ codex.base = managed.port => codex.odd \/ codex.was # None]_toggleVars

\* docs/proxy.md, "on installs the service again with the port and settings off
\* saved, then restores both routes": whatever failed and was repeated in between,
\* those who were routed when off saved it are routed to the service.
RoutesReturn ==
  [][~Stands("done") /\ switch'.does = "on" /\ switch'.at = "done" /\ routed # None =>
       /\ managed # None
       /\ "codex" \in routed => codex.provider = "gobstopper"
       /\ "sessions" \in routed => codex.base = managed.port
       /\ "claude" \in routed => claude = managed.port]_toggleVars

SwitchKeepsRoutes == NobodyIsStranded /\ RoutesReturn
=============================================================================
