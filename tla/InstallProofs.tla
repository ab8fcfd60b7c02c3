-------------------------- MODULE InstallProofs ---------------------------
(***************************************************************************)
(* Theorems about Install, for any configurations, managers and number of  *)
(* faults.  A crash may come between any two writes, so the invariant says *)
(* for each step of each command how far it has come: what the command     *)
(* works on (CommandsFit), which lease its stop is recorded under          *)
(* (StopsFit), which files are written (WritesFit), and that files, job,   *)
(* lease and confirmed configuration are all of those that the record, or  *)
(* the command, names (FilesFit).  FoundFits says that a command begins    *)
(* beside something foreign only when it recovers, and goes no further     *)
(* than to look at the job.                                                *)
(***************************************************************************)
EXTENDS Install, TLAPS

-----------------------------------------------------------------------------
(* The invariant                                                           *)

\* The configurations that may be there: those of the replacement that is
\* recorded, or the one that the command found.
Known ==
  IF pending # None THEN Recorded
  ELSE IF cmd.kind \in {"install", "uninstall"} THEN {cmd.of}
  ELSE IF cmd.kind = "repair" THEN {cmd.to}
  ELSE {manifest}

\* A manifest that is not ours ends everything: no command begins.
Abandoned == cmd = NoCommand /\ manifest = Foreign

\* Once the service is removed, a job that the manager still has does not serve.
Removed == cmd = NoCommand /\ manifest = None /\ pending = None

FilesFit ==
  /\ manifest \in Known \cup {Foreign} \/ (cmd.at = "reload" /\ manifest = None)
  /\ definition \in Known \cup {None, Foreign}
  /\ Removed \/ loaded \in Known \cup {None, Foreign}
  /\ drain # None => drain.of \in Known
  /\ confirmed \in Known \cup {None}

\* What each command works on, and where it may be.
Stopping == {"stop", "commit", "submit", "managing", "clear"}
Writing == {"define", "manifest", "activate", "settle"}
CommandsFit ==
  /\ cmd.kind = "none" => cmd = NoCommand
  /\ cmd.kind # "none" => cmd.at # "idle"
  /\ cmd.kind = "install" =>
       /\ cmd.to \in Config
       /\ IF pending = None THEN cmd.at = "record"
          ELSE /\ cmd.at \in Stopping \cup Writing /\ cmd.to = pending.candidate
               /\ cmd.at \in Stopping => cmd.next = "define"
  /\ cmd.kind = "rollback" =>
       /\ pending # None /\ cmd.at \in Stopping \cup Writing /\ cmd.to = pending.previous
       /\ cmd.at \in Stopping => cmd.next \in {"idle", "define"}
       /\ cmd.at \in Writing \/ cmd.next = "define" => cmd.to \in Config
  /\ cmd.kind = "recover" =>
       /\ pending # None /\ cmd.at \in {"job"} \cup Stopping \cup Writing /\ cmd.to = Restored
       /\ cmd.at \in Stopping => cmd.next \in {"job", "define"}
  /\ cmd.kind = "repair" =>
       /\ pending = None /\ cmd.at \in {"look", "activate", "settle"} \cup Stopping
       /\ cmd.at \in Stopping => cmd.next = "activate"
       /\ cmd.to \in Config
  /\ cmd.kind = "uninstall" =>
       /\ pending = None /\ cmd.at \in {"undefine", "unmanifest", "reload"} \cup Stopping
       /\ cmd.at \in Stopping => cmd.next = "undefine"
       /\ cmd.of \in Config

\* A stop is of a configuration that may be there, and recorded from its lease on.
StopsFit ==
  /\ cmd.at \in Stopping => cmd.of \in Known /\ cmd.of \in Config
  /\ cmd.at \in Stopping \ {"stop"} => drain # None /\ drain.of = cmd.of
  /\ cmd.at = "commit" => drain.stage = "waiting"
  /\ cmd.at = "submit" => drain.stage = "committed"
  /\ cmd.at = "managing" => drain.stage = "started"
  /\ cmd.at = "clear" => drain.stage = "acknowledged"
  /\ submitted => drain # None /\ drain.stage = "started"

\* Files are written one after the other, and none is left out.
WritesFit ==
  /\ cmd.at \in {"manifest", "activate", "settle"} => definition \in {cmd.to, None, Foreign}
  /\ cmd.at \in {"activate", "settle"} => manifest \in {cmd.to, Foreign}
  /\ cmd.at = "settle" => drain = None /\ loaded \in {cmd.to, None, Foreign} /\ confirmed = cmd.to
  /\ cmd.at \in {"undefine", "unmanifest", "reload"} => drain = None
  /\ cmd.at \in {"unmanifest", "reload"} => definition = None /\ confirmed = None
  /\ cmd.at = "reload" => manifest = None

\* Only a recovery begins beside something foreign, a job, and it goes no further.
FoundFits ==
  /\ cmd.found \subseteq {"job"}
  /\ "job" \in cmd.found =>
       /\ cmd.kind = "recover" /\ cmd.at \in {"job", "stop"}
       /\ cmd.at = "stop" => cmd.next = "job"
       /\ loaded = Foreign \/ (loaded = None /\ drain # None /\ drain.stage = "started")

\* What the manager runs, it has loaded.
WantedIsLoaded == wanted => loaded # None

InstallInv ==
  /\ InstallTypeOK
  /\ WantedIsLoaded
  /\ CommandsFit /\ FoundFits
  /\ StopsFit
  /\ WritesFit
  /\ Abandoned \/ FilesFit

-----------------------------------------------------------------------------
(* What the records are made of, and what the commands make of them        *)

LEMMA Parts ==
  ASSUME InstallTypeOK
  PROVE  /\ cmd \in Commands /\ cmd.of \in Config \cup {None} /\ cmd.to \in Config \cup {None}
         /\ cmd.at \in Places /\ cmd.next \in Places
         /\ pending \in Pending \cup {None}
         /\ pending # None => pending.previous \in Config \cup {None} /\ pending.candidate \in Config
         /\ drain \in Drain \cup {None}
         /\ drain # None => drain.of \in Config
<1>1. cmd \in Commands => /\ cmd.of \in Config \cup {None} /\ cmd.to \in Config \cup {None}
                          /\ cmd.at \in Places /\ cmd.next \in Places
  BY DEF Commands
<1>2. pending \in Pending => pending.previous \in Config \cup {None} /\ pending.candidate \in Config
  BY DEF Pending
<1>3. drain \in Drain => drain.of \in Config
  BY DEF Drain
<1> QED
  BY <1>1, <1>2, <1>3 DEF InstallTypeOK

LEMMA NoCommandTyped == NoCommand \in Commands
<1>1. "idle" \in Places
  BY DEF Places
<1> QED
  BY <1>1 DEF Commands, NoCommand

LEMMA GotoTyped ==
  ASSUME cmd \in Commands, NEW p \in Places
  PROVE  [cmd EXCEPT !.at = p] \in Commands
BY DEF Commands

LEMMA StopThenTyped ==
  ASSUME cmd \in Commands, NEW d \in Config \cup {None}, NEW p \in Places
  PROVE  [cmd EXCEPT !.at = "stop", !.of = d, !.next = p] \in Commands
<1>1. "stop" \in Places
  BY DEF Places
<1> QED
  BY <1>1 DEF Commands

LEMMA BeginTyped ==
  ASSUME NEW k \in {"install", "recover", "repair"}, NEW p \in Places,
         NEW d \in Config \cup {None}, NEW e \in Config \cup {None}
  PROVE  [NoCommand EXCEPT !.kind = k, !.at = p, !.of = d, !.to = e, !.found = FoundForeign] \in Commands
<1>1. FoundForeign \in SUBSET {"manifest", "definition", "job"}
  BY DEF FoundForeign
<1>2. "idle" \in Places
  BY DEF Places
<1> HIDE DEF FoundForeign
<1> QED
  BY <1>1, <1>2 DEF Commands, NoCommand

LEMMA PlacesNamed ==
  Places = {"idle", "record", "job", "look", "stop", "commit", "submit", "managing", "clear",
            "define", "manifest", "activate", "settle", "undefine", "unmanifest", "reload"}
BY DEF Places

LEMMA RecordsMade ==
  /\ \A p \in Config \cup {None}, c \in Config : [previous |-> p, candidate |-> c] \in Pending
  /\ \A d \in Config, s \in {"waiting", "committed", "started", "acknowledged"} :
       [of |-> d, stage |-> s] \in Drain
  /\ \A s \in {"waiting", "committed", "started", "acknowledged"} :
       drain \in Drain => [drain EXCEPT !.stage = s] \in Drain
BY DEF Pending, Drain

LEMMA UninstallTyped ==
  ASSUME NEW d \in Config
  PROVE  [NoCommand EXCEPT !.kind = "uninstall", !.at = "stop", !.of = d,
                           !.next = "undefine", !.found = FoundForeign] \in Commands
<1>1. FoundForeign \in SUBSET {"manifest", "definition", "job"}
  BY DEF FoundForeign
<1>2. {"idle", "stop", "undefine"} \subseteq Places
  BY DEF Places
<1> HIDE DEF FoundForeign
<1> QED
  BY <1>1, <1>2 DEF Commands, NoCommand

LEMMA RollbackTyped ==
  ASSUME cmd \in Commands, NEW d \in Config \cup {None}, NEW p \in Places
  PROVE  [cmd EXCEPT !.kind = "rollback", !.at = "stop", !.of = cmd.to, !.to = d, !.next = p] \in Commands
<1>1. "stop" \in Places
  BY DEF Places
<1> QED
  BY <1>1 DEF Commands

LEMMA NothingForeign ==
  ASSUME manifest # Foreign, definition # Foreign, loaded # Foreign
  PROVE  FoundForeign = {}
BY DEF FoundForeign

LEMMA OwnedIsOurs ==
  ASSUME NEW m \in Config \cup {None}, Owned(m)
  PROVE  definition # Foreign /\ loaded # Foreign
BY ValueAssumption DEF Owned, Registered, KnownJob

\* Where a command is tells what it is, and what it works on.
LEMMA PlacesTell ==
  ASSUME InstallInv
  PROVE  /\ cmd.at = "record" => cmd.kind = "install" /\ cmd.to \in Config /\ pending = None
         /\ cmd.at = "look" => cmd.kind = "repair" /\ cmd.to \in Config /\ pending = None
         /\ cmd.at = "job" => cmd.kind = "recover" /\ pending # None /\ cmd.to = Restored
         /\ cmd.at \in Stopping => cmd.of \in Config /\ cmd.of \in Known
         /\ cmd.at \in Stopping \ {"stop"} => drain # None /\ drain \in Drain /\ drain.of = cmd.of
         /\ cmd.at # "idle" => cmd.kind # "none"
<1>1. /\ cmd.kind \in {"none", "install", "rollback", "recover", "repair", "uninstall"}
      /\ drain \in Drain \cup {None}
  BY DEF InstallInv, InstallTypeOK, Commands
<1>2. cmd.kind = "none" => cmd.at = "idle"
  BY DEF InstallInv, CommandsFit, NoCommand
<1> QED
  BY <1>1, <1>2 DEF InstallInv, CommandsFit, StopsFit, Stopping, Writing

-----------------------------------------------------------------------------
(* The invariant is preserved: one lemma per action, one step per part     *)

LEMMA InitFits == InstallInit => InstallInv
<1> SUFFICES ASSUME InstallInit PROVE InstallInv
  OBVIOUS
<1> USE ValueAssumption DEF InstallInit
<1>1. InstallTypeOK
  <2>1. 0 \in 0..MaxFaults
    BY FaultAssumption
  <2> QED
    BY <2>1, NoCommandTyped DEF InstallTypeOK, Thing
<1>2. WantedIsLoaded /\ CommandsFit /\ FoundFits /\ StopsFit /\ WritesFit
  BY DEF WantedIsLoaded, CommandsFit, FoundFits, StopsFit, WritesFit, Stopping, Writing, NoCommand
<1>3. FilesFit
  BY DEF NoCommand, FilesFit, Known, Removed
<1> QED
  BY <1>1, <1>2, <1>3 DEF InstallInv

LEMMA StartInstallFits ==
  ASSUME InstallInv, NEW c \in Config, StartInstall(c)
  PROVE  InstallInv'
<1>1. InstallTypeOK'
  <2>1. cmd' \in Commands
    <3>1. manifest \in Config \cup {None} /\ c \in Config \cup {None}
      BY DEF StartInstall
    <3>2. \E k \in {"install", "repair"}, p \in {"record", "look"} : Begin(k, p, c)
      BY DEF StartInstall
    <3>3. PICK k \in {"install", "repair"}, p \in {"record", "look"} : Begin(k, p, c)
      BY <3>2
    <3>4. p \in Places
      BY PlacesNamed
    <3> QED
      BY <3>1, <3>3, <3>4, BeginTyped DEF Begin
  <2>2. pending' \in Pending \cup {None} /\ drain' \in Drain \cup {None}
    BY DEF InstallInv, InstallTypeOK, StartInstall, files
  <2>3. manifest' \in Thing /\ definition' \in Thing
    BY DEF InstallInv, InstallTypeOK, StartInstall, files
  <2>4. loaded' \in Thing /\ live' \in Config \cup {None} /\ wanted' \in BOOLEAN /\ submitted' \in BOOLEAN
    BY DEF InstallInv, InstallTypeOK, StartInstall, manages
  <2>5. manager' \in Manager /\ confirmed' \in Config \cup {None} /\ faults' \in 0..MaxFaults
    BY DEF InstallInv, InstallTypeOK, StartInstall
  <2> QED
    BY <2>1, <2>2, <2>3, <2>4, <2>5 DEF InstallTypeOK
<1> USE ValueAssumption
<1>2. /\ cmd = NoCommand /\ pending = None /\ manifest # Foreign
      /\ UNCHANGED <<manifest, definition, loaded, wanted, pending, drain, submitted, confirmed>>
  BY DEF StartInstall, NothingPending, files, manages
<1>3. /\ cmd'.kind \in {"install", "repair"} /\ cmd'.of = manifest /\ cmd'.to = c
      /\ cmd'.found = FoundForeign
      /\ cmd'.kind = "install" => cmd'.at = "record"
      /\ cmd'.kind = "repair" => cmd'.at = "look" /\ manifest = c
  BY DEF StartInstall, Begin, NoCommand
<1>4. WantedIsLoaded'
  BY <1>2 DEF WantedIsLoaded, InstallInv
<1>5. CommandsFit'
  BY <1>2, <1>3 DEF CommandsFit, Stopping, Writing
<1>6. FoundFits'
  <2>1. definition # Foreign /\ loaded # Foreign
    BY OwnedIsOurs DEF StartInstall, Registered, KnownJob
  <2>2. cmd'.found = {}
    BY <1>2, <1>3, <2>1, NothingForeign
  <2> QED
    BY <2>2 DEF FoundFits
<1>7. cmd'.at \in {"record", "look"}
  BY <1>3
<1>8. StopsFit'
  <2>1. ~submitted \/ (drain # None /\ drain.stage = "started")
    BY DEF InstallInv, StopsFit
  <2> QED
    BY <1>2, <1>7, <2>1 DEF StopsFit, Stopping
<1>9. WritesFit'
  BY <1>7 DEF WritesFit
<1>10. FilesFit'
  <2>1. FilesFit
    BY <1>2 DEF InstallInv, Abandoned
  <2>2. Known = {manifest}
    BY <1>2 DEF Known, NoCommand
  <2>3. Known' = {manifest}
    BY <1>2, <1>3 DEF Known
  <2>4. loaded \in {manifest, None, Foreign}
    <3>1. CASE Removed
      BY <3>1 DEF StartInstall, Removed, Registered, KnownJob
    <3>2. CASE ~Removed
      BY <2>1, <2>2, <3>2 DEF FilesFit
    <3> QED
      BY <3>1, <3>2
  <2> QED
    BY <1>2, <2>1, <2>2, <2>3, <2>4 DEF FilesFit
<1> QED
  BY <1>1, <1>4, <1>5, <1>6, <1>8, <1>9, <1>10 DEF InstallInv

LEMMA StartRepairFits ==
  ASSUME InstallInv, StartRepair
  PROVE  InstallInv'
<1>1. InstallTypeOK'
  <2>1. cmd' \in Commands
    BY Parts, PlacesNamed, BeginTyped DEF InstallInv, StartRepair, Begin
  <2>2. pending' \in Pending \cup {None} /\ drain' \in Drain \cup {None}
    BY DEF InstallInv, InstallTypeOK, StartRepair, files
  <2>3. manifest' \in Thing /\ definition' \in Thing
    BY DEF InstallInv, InstallTypeOK, StartRepair, files
  <2>4. loaded' \in Thing /\ live' \in Config \cup {None} /\ wanted' \in BOOLEAN /\ submitted' \in BOOLEAN
    BY DEF InstallInv, InstallTypeOK, StartRepair, manages
  <2>5. manager' \in Manager /\ confirmed' \in Config \cup {None} /\ faults' \in 0..MaxFaults
    BY DEF InstallInv, InstallTypeOK, StartRepair
  <2> QED
    BY <2>1, <2>2, <2>3, <2>4, <2>5 DEF InstallTypeOK
<1>2. WantedIsLoaded'
  BY DEF InstallInv, WantedIsLoaded, StartRepair, manages
<1>3. CommandsFit'
  BY DEF InstallInv, CommandsFit, Stopping, Writing, StartRepair, files, Begin
<1>4. FoundFits'
  BY ValueAssumption DEF InstallInv, FoundFits, CommandsFit, StopsFit, Stopping, Writing, StartRepair,
     files, manages, NoCommand, Begin, Owned, Registered, KnownJob, FoundForeign
<1>5. StopsFit'
  BY DEF InstallInv, StopsFit, Stopping, Known, Recorded, StartRepair, files, manages, NoCommand, Begin
<1>6. WritesFit'
  BY DEF InstallInv, WritesFit, StartRepair, files, manages, NoCommand, Begin
<1>7. (Abandoned \/ FilesFit)'
  BY ValueAssumption DEF InstallInv, FilesFit, Abandoned, Removed, Known, Recorded, Restored, WritesFit,
     CommandsFit, Stopping, Writing, StartRepair, files, manages, NoCommand, Begin, Owned, Registered,
     KnownJob, FoundForeign
<1> QED
  BY <1>1, <1>2, <1>3, <1>4, <1>5, <1>6, <1>7 DEF InstallInv

LEMMA StartUninstallFits ==
  ASSUME InstallInv, StartUninstall
  PROVE  InstallInv'
<1>1. InstallTypeOK'
  <2>1. cmd' \in Commands
    BY UninstallTyped DEF StartUninstall
  <2>2. pending' \in Pending \cup {None} /\ drain' \in Drain \cup {None}
    BY DEF InstallInv, InstallTypeOK, StartUninstall, files
  <2>3. manifest' \in Thing /\ definition' \in Thing
    BY DEF InstallInv, InstallTypeOK, StartUninstall, files
  <2>4. loaded' \in Thing /\ live' \in Config \cup {None} /\ wanted' \in BOOLEAN /\ submitted' \in BOOLEAN
    BY DEF InstallInv, InstallTypeOK, StartUninstall, manages
  <2>5. manager' \in Manager /\ confirmed' \in Config \cup {None} /\ faults' \in 0..MaxFaults
    BY DEF InstallInv, InstallTypeOK, StartUninstall
  <2> QED
    BY <2>1, <2>2, <2>3, <2>4, <2>5 DEF InstallTypeOK
<1>2. WantedIsLoaded'
  BY DEF InstallInv, WantedIsLoaded, StartUninstall, manages
<1>3. CommandsFit'
  BY DEF InstallInv, CommandsFit, Stopping, Writing, StartUninstall, files
<1>4. FoundFits'
  BY ValueAssumption DEF InstallInv, FoundFits, CommandsFit, StopsFit, Stopping, Writing,
     StartUninstall, files, manages, NoCommand, Owned, Registered, KnownJob, FoundForeign
<1>5. StopsFit'
  BY DEF InstallInv, StopsFit, Stopping, Known, Recorded, StartUninstall, files, manages, NoCommand
<1>6. WritesFit'
  BY DEF InstallInv, WritesFit, StartUninstall, files, manages, NoCommand
<1>7. (Abandoned \/ FilesFit)'
  BY ValueAssumption DEF InstallInv, FilesFit, Abandoned, Removed, Known, Recorded, Restored, WritesFit,
     CommandsFit, Stopping, Writing, StartUninstall, files, manages, NoCommand, Owned, Registered,
     KnownJob, FoundForeign
<1> QED
  BY <1>1, <1>2, <1>3, <1>4, <1>5, <1>6, <1>7 DEF InstallInv

LEMMA StartRecoveryFits ==
  ASSUME InstallInv, StartRecovery
  PROVE  InstallInv'
<1>1. InstallTypeOK'
  <2>1. cmd' \in Commands
    <3>1. manifest \in Config \cup {None} /\ Restored \in Config \cup {None}
      BY Parts DEF StartRecovery, RecordedFiles, Recorded, Restored, InstallInv
    <3> QED
      BY <3>1, PlacesNamed, BeginTyped, ZenonT(60) DEF StartRecovery, Begin
  <2>2. pending' \in Pending \cup {None} /\ drain' \in Drain \cup {None}
    BY DEF InstallInv, InstallTypeOK, StartRecovery, files
  <2>3. manifest' \in Thing /\ definition' \in Thing
    BY DEF InstallInv, InstallTypeOK, StartRecovery, files
  <2>4. loaded' \in Thing /\ live' \in Config \cup {None} /\ wanted' \in BOOLEAN /\ submitted' \in BOOLEAN
    BY DEF InstallInv, InstallTypeOK, StartRecovery, manages
  <2>5. manager' \in Manager /\ confirmed' \in Config \cup {None} /\ faults' \in 0..MaxFaults
    BY DEF InstallInv, InstallTypeOK, StartRecovery
  <2> QED
    BY <2>1, <2>2, <2>3, <2>4, <2>5 DEF InstallTypeOK
<1>2. WantedIsLoaded'
  BY DEF InstallInv, WantedIsLoaded, StartRecovery, manages
<1>3. CommandsFit'
  BY DEF InstallInv, CommandsFit, Stopping, Writing, NoCommand, Restored, StartRecovery, files, Begin
<1>4. FoundFits'
  BY ValueAssumption DEF InstallInv, StartRecovery, files, manages, NoCommand, Begin, RecordedFiles,
     FoundForeign, FoundFits, StopsFit, CommandsFit, Stopping, Writing, InstallTypeOK, Commands,
     Pending, Drain, Recorded, Restored
<1>5. StopsFit'
  BY DEF InstallInv, StopsFit, Stopping, Known, Recorded, StartRecovery, files, manages, NoCommand, Begin
<1>6. WritesFit'
  BY DEF InstallInv, WritesFit, StartRecovery, files, manages, NoCommand, Begin
<1>7. (Abandoned \/ FilesFit)'
  BY ValueAssumption DEF InstallInv, StartRecovery, files, manages, NoCommand, Begin, RecordedFiles,
     FoundForeign, FilesFit, Abandoned, Removed, Known, WritesFit, StopsFit, CommandsFit, Stopping,
     Writing, InstallTypeOK, Commands, Pending, Drain, Recorded, Restored
<1> QED
  BY <1>1, <1>2, <1>3, <1>4, <1>5, <1>6, <1>7 DEF InstallInv

LEMMA NothingToStopFits ==
  ASSUME InstallInv, NothingToStop
  PROVE  InstallInv'
<1>1. InstallTypeOK'
  <2>1. cmd' \in Commands
    BY Parts, NoCommandTyped, PlacesNamed, GotoTyped DEF InstallInv, NothingToStop, StopDone
  <2>2. pending' \in Pending \cup {None} /\ drain' \in Drain \cup {None}
    BY DEF InstallInv, InstallTypeOK, NothingToStop, files
  <2>3. manifest' \in Thing /\ definition' \in Thing
    BY DEF InstallInv, InstallTypeOK, NothingToStop, files
  <2>4. loaded' \in Thing /\ live' \in Config \cup {None} /\ wanted' \in BOOLEAN /\ submitted' \in BOOLEAN
    BY DEF InstallInv, InstallTypeOK, NothingToStop, manages
  <2>5. manager' \in Manager /\ confirmed' \in Config \cup {None} /\ faults' \in 0..MaxFaults
    BY DEF InstallInv, InstallTypeOK, NothingToStop
  <2> QED
    BY <2>1, <2>2, <2>3, <2>4, <2>5 DEF InstallTypeOK
<1>2. WantedIsLoaded'
  BY DEF InstallInv, WantedIsLoaded, NothingToStop, manages
<1>3. CommandsFit'
  BY DEF InstallInv, CommandsFit, Stopping, Writing, NoCommand, Restored, NothingToStop, files, StopDone
<1>4. FoundFits'
  BY ValueAssumption DEF InstallInv, FoundFits, CommandsFit, StopsFit, Stopping, Writing, NothingToStop,
     files, manages, NoCommand, StopDone, Absent, MayStop, Draining, Registered, KnownJob
<1>5. StopsFit'
  BY ValueAssumption DEF InstallInv, NothingToStop, files, manages, NoCommand, StopDone, Absent,
     MayStop, Draining, Registered, KnownJob, StopsFit, FilesFit, Abandoned, Known, CommandsFit,
     Stopping, Writing, InstallTypeOK, Commands, Pending, Drain, Recorded, Restored
<1>6. WritesFit'
  BY ValueAssumption DEF InstallInv, NothingToStop, files, manages, NoCommand, StopDone, Absent,
     MayStop, Draining, Registered, KnownJob, WritesFit, FilesFit, Abandoned, Known, CommandsFit,
     Stopping, Writing, InstallTypeOK, Commands, Pending, Drain, Recorded, Restored
<1>7. (Abandoned \/ FilesFit)'
  BY DEF InstallInv, FilesFit, Abandoned, Removed, Known, Recorded, NothingToStop, files, manages,
     NoCommand, StopDone
<1> QED
  BY <1>1, <1>2, <1>3, <1>4, <1>5, <1>6, <1>7 DEF InstallInv

LEMMA BeginStopFits ==
  ASSUME InstallInv, BeginStop
  PROVE  InstallInv'
<1>1. InstallTypeOK'
  <2>1. cmd' \in Commands
    BY Parts, PlacesNamed, GotoTyped DEF InstallInv, BeginStop, Goto
  <2>2. pending' \in Pending \cup {None} /\ drain' \in Drain \cup {None}
    BY Parts, PlacesTell, RecordsMade DEF InstallInv, Stopping, BeginStop, files
  <2>3. manifest' \in Thing /\ definition' \in Thing
    BY DEF InstallInv, InstallTypeOK, BeginStop, files
  <2>4. loaded' \in Thing /\ live' \in Config \cup {None} /\ wanted' \in BOOLEAN /\ submitted' \in BOOLEAN
    BY DEF InstallInv, InstallTypeOK, BeginStop, manages
  <2>5. manager' \in Manager /\ confirmed' \in Config \cup {None} /\ faults' \in 0..MaxFaults
    BY DEF InstallInv, InstallTypeOK, BeginStop
  <2> QED
    BY <2>1, <2>2, <2>3, <2>4, <2>5 DEF InstallTypeOK
<1>2. WantedIsLoaded'
  BY DEF InstallInv, WantedIsLoaded, BeginStop, manages
<1>3. CommandsFit'
  BY ValueAssumption DEF InstallInv, BeginStop, files, manages, NoCommand, Responsive, MayStop,
     Draining, Registered, KnownJob, Goto, CommandsFit, Stopping, Writing, InstallTypeOK, Commands,
     Pending, Drain, Recorded, Restored
<1>4. FoundFits'
  BY ValueAssumption DEF InstallInv, BeginStop, files, manages, NoCommand, Responsive, MayStop,
     Draining, Registered, KnownJob, Goto, FoundFits, StopsFit, CommandsFit, Stopping, Writing,
     InstallTypeOK, Commands, Pending, Drain, Recorded, Restored
<1>5. StopsFit'
  BY ValueAssumption DEF InstallInv, BeginStop, files, manages, NoCommand, Responsive, MayStop,
     Draining, Registered, KnownJob, Goto, StopsFit, FilesFit, Abandoned, Known, CommandsFit, Stopping,
     Writing, InstallTypeOK, Commands, Pending, Drain, Recorded, Restored
<1>6. WritesFit'
  BY ValueAssumption DEF InstallInv, BeginStop, files, manages, NoCommand, Responsive, MayStop,
     Draining, Registered, KnownJob, Goto, WritesFit, FilesFit, Abandoned, Known, CommandsFit, Stopping,
     Writing, InstallTypeOK, Commands, Pending, Drain, Recorded, Restored
<1>7. (Abandoned \/ FilesFit)'
  BY ValueAssumption DEF InstallInv, BeginStop, files, manages, NoCommand, Responsive, MayStop,
     Draining, Registered, KnownJob, Goto, FilesFit, Abandoned, Removed, Known, WritesFit, StopsFit,
     CommandsFit, Stopping, Writing, InstallTypeOK, Commands, Pending, Drain, Recorded, Restored
<1> QED
  BY <1>1, <1>2, <1>3, <1>4, <1>5, <1>6, <1>7 DEF InstallInv

LEMMA CommitDrainFits ==
  ASSUME InstallInv, CommitDrain
  PROVE  InstallInv'
<1>1. InstallTypeOK'
  <2>1. cmd' \in Commands
    BY Parts, PlacesNamed, GotoTyped DEF InstallInv, CommitDrain, Goto
  <2>2. pending' \in Pending \cup {None} /\ drain' \in Drain \cup {None}
    BY Parts, PlacesTell, RecordsMade DEF InstallInv, Stopping, CommitDrain, files
  <2>3. manifest' \in Thing /\ definition' \in Thing
    BY DEF InstallInv, InstallTypeOK, CommitDrain, files
  <2>4. loaded' \in Thing /\ live' \in Config \cup {None} /\ wanted' \in BOOLEAN /\ submitted' \in BOOLEAN
    BY DEF InstallInv, InstallTypeOK, CommitDrain, manages
  <2>5. manager' \in Manager /\ confirmed' \in Config \cup {None} /\ faults' \in 0..MaxFaults
    BY DEF InstallInv, InstallTypeOK, CommitDrain
  <2> QED
    BY <2>1, <2>2, <2>3, <2>4, <2>5 DEF InstallTypeOK
<1>2. WantedIsLoaded'
  BY DEF InstallInv, WantedIsLoaded, CommitDrain, manages
<1>3. CommandsFit'
  BY DEF InstallInv, CommandsFit, Stopping, Writing, NoCommand, Restored, CommitDrain, files, Goto
<1>4. FoundFits'
  BY DEF InstallInv, FoundFits, CommitDrain, manages, NoCommand, Goto
<1>5. StopsFit'
  BY ValueAssumption DEF InstallInv, CommitDrain, files, manages, NoCommand, Owned, Registered,
     KnownJob, Goto, StopsFit, FilesFit, Abandoned, Known, CommandsFit, Stopping, Writing,
     InstallTypeOK, Commands, Pending, Drain, Recorded, Restored
<1>6. WritesFit'
  BY DEF InstallInv, WritesFit, CommitDrain, files, manages, NoCommand, Goto
<1>7. (Abandoned \/ FilesFit)'
  BY ValueAssumption DEF InstallInv, CommitDrain, files, manages, NoCommand, Owned, Registered,
     KnownJob, Goto, FilesFit, Abandoned, Removed, Known, WritesFit, StopsFit, CommandsFit, Stopping,
     Writing, InstallTypeOK, Commands, Pending, Drain, Recorded, Restored
<1> QED
  BY <1>1, <1>2, <1>3, <1>4, <1>5, <1>6, <1>7 DEF InstallInv

LEMMA SubmitStopFits ==
  ASSUME InstallInv, SubmitStop
  PROVE  InstallInv'
<1>1. InstallTypeOK'
  <2>1. cmd' \in Commands
    BY Parts, PlacesNamed, GotoTyped DEF InstallInv, SubmitStop, Goto
  <2>2. pending' \in Pending \cup {None} /\ drain' \in Drain \cup {None}
    BY Parts, PlacesTell, RecordsMade DEF InstallInv, Stopping, SubmitStop, files
  <2>3. manifest' \in Thing /\ definition' \in Thing
    BY DEF InstallInv, InstallTypeOK, SubmitStop, files
  <2>4. loaded' \in Thing /\ live' \in Config \cup {None} /\ wanted' \in BOOLEAN /\ submitted' \in BOOLEAN
    BY DEF InstallInv, InstallTypeOK, SubmitStop, manages
  <2>5. manager' \in Manager /\ confirmed' \in Config \cup {None} /\ faults' \in 0..MaxFaults
    BY DEF InstallInv, InstallTypeOK, SubmitStop
  <2> QED
    BY <2>1, <2>2, <2>3, <2>4, <2>5 DEF InstallTypeOK
<1>2. WantedIsLoaded'
  BY DEF InstallInv, WantedIsLoaded, SubmitStop, manages
<1>3. CommandsFit'
  BY DEF InstallInv, CommandsFit, Stopping, Writing, NoCommand, Restored, SubmitStop, files, Goto
<1>4. FoundFits'
  BY DEF InstallInv, FoundFits, SubmitStop, manages, NoCommand, Goto
<1>5. StopsFit'
  BY ValueAssumption DEF InstallInv, SubmitStop, files, manages, NoCommand, Registered, KnownJob, Goto,
     StopsFit, FilesFit, Abandoned, Known, CommandsFit, Stopping, Writing, InstallTypeOK, Commands,
     Pending, Drain, Recorded, Restored
<1>6. WritesFit'
  BY DEF InstallInv, WritesFit, SubmitStop, files, manages, NoCommand, Goto
<1>7. (Abandoned \/ FilesFit)'
  BY ValueAssumption DEF InstallInv, SubmitStop, files, manages, NoCommand, Registered, KnownJob, Goto,
     FilesFit, Abandoned, Removed, Known, WritesFit, StopsFit, CommandsFit, Stopping, Writing,
     InstallTypeOK, Commands, Pending, Drain, Recorded, Restored
<1> QED
  BY <1>1, <1>2, <1>3, <1>4, <1>5, <1>6, <1>7 DEF InstallInv

LEMMA ManagerStopsFits ==
  ASSUME InstallInv, ManagerStops
  PROVE  InstallInv'
<1>1. InstallTypeOK'
  <2>1. cmd' \in Commands
    BY Parts DEF InstallInv, ManagerStops
  <2>2. pending' \in Pending \cup {None} /\ drain' \in Drain \cup {None}
    BY DEF InstallInv, InstallTypeOK, ManagerStops, files
  <2>3. manifest' \in Thing /\ definition' \in Thing
    BY DEF InstallInv, InstallTypeOK, ManagerStops, files
  <2>4. loaded' \in Thing /\ live' \in Config \cup {None} /\ wanted' \in BOOLEAN /\ submitted' \in BOOLEAN
    BY DEF InstallInv, InstallTypeOK, Thing, ManagerStops, manages
  <2>5. manager' \in Manager /\ confirmed' \in Config \cup {None} /\ faults' \in 0..MaxFaults
    BY DEF InstallInv, InstallTypeOK, ManagerStops
  <2> QED
    BY <2>1, <2>2, <2>3, <2>4, <2>5 DEF InstallTypeOK
<1>2. WantedIsLoaded'
  BY DEF InstallInv, WantedIsLoaded, ManagerStops, manages
<1>3. CommandsFit'
  BY DEF InstallInv, CommandsFit, Stopping, Writing, NoCommand, Restored, ManagerStops, files
<1>4. FoundFits'
  BY ValueAssumption DEF InstallInv, FoundFits, CommandsFit, StopsFit, Stopping, Writing, ManagerStops,
     files, manages, NoCommand
<1>5. StopsFit'
  BY DEF InstallInv, StopsFit, Stopping, Known, Recorded, ManagerStops, files, manages, NoCommand
<1>6. WritesFit'
  BY DEF InstallInv, WritesFit, ManagerStops, files, manages, NoCommand
<1>7. (Abandoned \/ FilesFit)'
  BY DEF InstallInv, FilesFit, Abandoned, Removed, Known, Recorded, ManagerStops, files, manages,
     NoCommand
<1> QED
  BY <1>1, <1>2, <1>3, <1>4, <1>5, <1>6, <1>7 DEF InstallInv

LEMMA AcknowledgeFits ==
  ASSUME InstallInv, Acknowledge
  PROVE  InstallInv'
<1>1. InstallTypeOK'
  <2>1. cmd' \in Commands
    BY Parts, PlacesNamed, GotoTyped DEF InstallInv, Acknowledge, Goto
  <2>2. pending' \in Pending \cup {None} /\ drain' \in Drain \cup {None}
    BY Parts, PlacesTell, RecordsMade DEF InstallInv, Stopping, Acknowledge, files
  <2>3. manifest' \in Thing /\ definition' \in Thing
    BY DEF InstallInv, InstallTypeOK, Acknowledge, files
  <2>4. loaded' \in Thing /\ live' \in Config \cup {None} /\ wanted' \in BOOLEAN /\ submitted' \in BOOLEAN
    BY DEF InstallInv, InstallTypeOK, Acknowledge, manages
  <2>5. manager' \in Manager /\ confirmed' \in Config \cup {None} /\ faults' \in 0..MaxFaults
    BY DEF InstallInv, InstallTypeOK, Acknowledge
  <2> QED
    BY <2>1, <2>2, <2>3, <2>4, <2>5 DEF InstallTypeOK
<1>2. WantedIsLoaded'
  BY DEF InstallInv, WantedIsLoaded, Acknowledge, manages
<1>3. CommandsFit'
  BY DEF InstallInv, CommandsFit, Stopping, Writing, NoCommand, Restored, Acknowledge, files, Goto
<1>4. FoundFits'
  BY DEF InstallInv, FoundFits, Acknowledge, manages, NoCommand, Goto
<1>5. StopsFit'
  BY ValueAssumption DEF InstallInv, Acknowledge, files, manages, NoCommand, Goto, StopsFit, FilesFit,
     Abandoned, Known, CommandsFit, Stopping, Writing, InstallTypeOK, Commands, Pending, Drain,
     Recorded, Restored
<1>6. WritesFit'
  BY DEF InstallInv, WritesFit, Acknowledge, files, manages, NoCommand, Goto
<1>7. (Abandoned \/ FilesFit)'
  BY ValueAssumption DEF InstallInv, Acknowledge, files, manages, NoCommand, Goto, FilesFit, Abandoned,
     Removed, Known, WritesFit, StopsFit, CommandsFit, Stopping, Writing, InstallTypeOK, Commands,
     Pending, Drain, Recorded, Restored
<1> QED
  BY <1>1, <1>2, <1>3, <1>4, <1>5, <1>6, <1>7 DEF InstallInv

LEMMA ClearDrainFits ==
  ASSUME InstallInv, ClearDrain
  PROVE  InstallInv'
<1>1. InstallTypeOK'
  <2>1. cmd' \in Commands
    BY Parts, NoCommandTyped, PlacesNamed, GotoTyped DEF InstallInv, ClearDrain, StopDone
  <2>2. pending' \in Pending \cup {None} /\ drain' \in Drain \cup {None}
    BY DEF InstallInv, InstallTypeOK, ClearDrain, files
  <2>3. manifest' \in Thing /\ definition' \in Thing
    BY DEF InstallInv, InstallTypeOK, ClearDrain, files
  <2>4. loaded' \in Thing /\ live' \in Config \cup {None} /\ wanted' \in BOOLEAN /\ submitted' \in BOOLEAN
    BY DEF InstallInv, InstallTypeOK, ClearDrain, manages
  <2>5. manager' \in Manager /\ confirmed' \in Config \cup {None} /\ faults' \in 0..MaxFaults
    BY DEF InstallInv, InstallTypeOK, ClearDrain
  <2> QED
    BY <2>1, <2>2, <2>3, <2>4, <2>5 DEF InstallTypeOK
<1>2. WantedIsLoaded'
  BY DEF InstallInv, WantedIsLoaded, ClearDrain, manages
<1>3. CommandsFit'
  BY DEF InstallInv, CommandsFit, Stopping, Writing, NoCommand, Restored, ClearDrain, files, StopDone
<1>4. FoundFits'
  BY DEF InstallInv, FoundFits, ClearDrain, manages, NoCommand, StopDone
<1>5. StopsFit'
  BY ValueAssumption DEF InstallInv, ClearDrain, files, manages, NoCommand, StopDone, StopsFit,
     FilesFit, Abandoned, Known, CommandsFit, Stopping, Writing, InstallTypeOK, Commands, Pending,
     Drain, Recorded, Restored
<1>6. WritesFit'
  BY ValueAssumption DEF InstallInv, ClearDrain, files, manages, NoCommand, StopDone, WritesFit,
     FilesFit, Abandoned, Known, CommandsFit, Stopping, Writing, InstallTypeOK, Commands, Pending,
     Drain, Recorded, Restored
<1>7. (Abandoned \/ FilesFit)'
  BY DEF InstallInv, FilesFit, Abandoned, Removed, Known, Recorded, ClearDrain, files, manages,
     NoCommand, StopDone
<1> QED
  BY <1>1, <1>2, <1>3, <1>4, <1>5, <1>6, <1>7 DEF InstallInv

LEMMA LookDrainedFits ==
  ASSUME InstallInv, LookDrained
  PROVE  InstallInv'
<1>1. InstallTypeOK'
  <2>1. cmd' \in Commands
    BY Parts, PlacesNamed, StopThenTyped DEF InstallInv, LookDrained, StopThen
  <2>2. pending' \in Pending \cup {None} /\ drain' \in Drain \cup {None}
    BY DEF InstallInv, InstallTypeOK, LookDrained, files
  <2>3. manifest' \in Thing /\ definition' \in Thing
    BY DEF InstallInv, InstallTypeOK, LookDrained, files
  <2>4. loaded' \in Thing /\ live' \in Config \cup {None} /\ wanted' \in BOOLEAN /\ submitted' \in BOOLEAN
    BY DEF InstallInv, InstallTypeOK, LookDrained, manages
  <2>5. manager' \in Manager /\ confirmed' \in Config \cup {None} /\ faults' \in 0..MaxFaults
    BY DEF InstallInv, InstallTypeOK, LookDrained
  <2> QED
    BY <2>1, <2>2, <2>3, <2>4, <2>5 DEF InstallTypeOK
<1>2. WantedIsLoaded'
  BY DEF InstallInv, WantedIsLoaded, LookDrained, manages
<1>3. CommandsFit'
  BY DEF InstallInv, CommandsFit, Stopping, Writing, NoCommand, Restored, LookDrained, files, StopThen
<1>4. FoundFits'
  BY DEF InstallInv, FoundFits, LookDrained, manages, NoCommand, StopThen
<1>5. StopsFit'
  BY ValueAssumption DEF InstallInv, LookDrained, files, manages, NoCommand, StopThen, StopsFit,
     FilesFit, Abandoned, Known, CommandsFit, Stopping, Writing, InstallTypeOK, Commands, Pending,
     Drain, Recorded, Restored
<1>6. WritesFit'
  BY DEF InstallInv, WritesFit, LookDrained, files, manages, NoCommand, StopThen
<1>7. (Abandoned \/ FilesFit)'
  BY ValueAssumption DEF InstallInv, FilesFit, Abandoned, Removed, Known, Recorded, Restored, WritesFit,
     CommandsFit, Stopping, Writing, LookDrained, files, manages, NoCommand, StopThen
<1> QED
  BY <1>1, <1>2, <1>3, <1>4, <1>5, <1>6, <1>7 DEF InstallInv

LEMMA LookFits ==
  ASSUME InstallInv, Look
  PROVE  InstallInv'
<1>1. InstallTypeOK'
  <2>1. cmd' \in Commands
    BY Parts, PlacesNamed, GotoTyped, StopThenTyped, NoCommandTyped DEF InstallInv, Look, StopThen,
       Goto, Return, Redefined
  <2>2. pending' \in Pending \cup {None} /\ drain' \in Drain \cup {None}
    BY DEF InstallInv, InstallTypeOK, Look, files
  <2>3. manifest' \in Thing /\ definition' \in Thing
    BY Parts DEF InstallInv, InstallTypeOK, Thing, Look, files, StopThen, Goto, Return, Redefined
  <2>4. loaded' \in Thing /\ live' \in Config \cup {None} /\ wanted' \in BOOLEAN /\ submitted' \in BOOLEAN
    BY DEF InstallInv, InstallTypeOK, Look, manages
  <2>5. manager' \in Manager /\ confirmed' \in Config \cup {None} /\ faults' \in 0..MaxFaults
    BY Parts DEF InstallInv, InstallTypeOK, Look
  <2> QED
    BY <2>1, <2>2, <2>3, <2>4, <2>5 DEF InstallTypeOK
<1>a. /\ cmd.kind = "repair" /\ cmd.at = "look" /\ cmd.to \in Config /\ pending = None /\ drain = None
      /\ UNCHANGED <<manager, manifest, pending, drain, loaded, wanted, live, submitted, faults>>
      /\ definition' = definition \/ (definition = None /\ definition' = cmd.to)
      /\ \/ cmd' = NoCommand /\ confirmed' \in {confirmed, cmd.to}
         \/ /\ cmd' = [cmd EXCEPT !.at = "activate"] \/ cmd' = [cmd EXCEPT !.at = "stop", !.of = cmd.to, !.next = "activate"]
            /\ confirmed' = confirmed
  BY PlacesTell DEF Look, Redefined, StopThen, Goto, Return, manages
<1>b. cmd' # NoCommand =>
        /\ cmd'.kind = "repair" /\ cmd'.to = cmd.to /\ cmd'.found = cmd.found
        /\ cmd'.at = "activate" \/ (cmd'.at = "stop" /\ cmd'.of = cmd.to /\ cmd'.next = "activate")
  BY <1>a, Parts DEF InstallInv, Commands
<1>c. cmd' = NoCommand =>
        /\ cmd'.kind = "none" /\ cmd'.at = "idle" /\ cmd'.found = {}
  BY DEF NoCommand
<1>d. manifest \in {cmd.to, Foreign} /\ definition \in {cmd.to, None, Foreign} /\ loaded \in {cmd.to, None, Foreign}
      /\ confirmed \in {cmd.to, None} /\ ~submitted /\ cmd.found = {} /\ cmd # NoCommand
  BY <1>a, ValueAssumption DEF InstallInv, Abandoned, FilesFit, Removed, Known, StopsFit, FoundFits, NoCommand
<1> USE ValueAssumption, <1>a, <1>b, <1>c, <1>d
<1>2. WantedIsLoaded'
  BY DEF InstallInv, WantedIsLoaded
<1>3. CommandsFit'
  BY DEF CommandsFit, Stopping, Writing
<1>4. FoundFits'
  BY DEF FoundFits
<1>5. StopsFit'
  BY DEF StopsFit, Known, Stopping
<1>6. WritesFit'
  BY DEF WritesFit
<1>7. (Abandoned \/ FilesFit)'
  BY DEF FilesFit, Abandoned, Removed, Known
<1> QED
  BY <1>1, <1>2, <1>3, <1>4, <1>5, <1>6, <1>7 DEF InstallInv

LEMMA LookForJobFits ==
  ASSUME InstallInv, LookForJob
  PROVE  InstallInv'
<1>1. InstallTypeOK'
  <2>1. cmd' \in Commands
    <3>1. CASE Goto("define")
      BY <3>1, Parts, PlacesNamed, GotoTyped DEF InstallInv, Goto
    <3>2. CASE drain # None /\ StopThen(drain.of, "job")
      BY <3>2, Parts, PlacesNamed, StopThenTyped DEF InstallInv, StopThen
    <3>3. CASE Registered \in Recorded \ {None} /\ StopThen(Registered, "define")
      <4>1. Registered \in Config \cup {None}
        BY <3>3, Parts, PlacesTell DEF InstallInv, LookForJob, Recorded
      <4> QED
        BY <3>3, <4>1, Parts, PlacesNamed, StopThenTyped DEF InstallInv, StopThen
    <3> QED
      BY <3>1, <3>2, <3>3 DEF LookForJob
  <2>2. pending' \in Pending \cup {None} /\ drain' \in Drain \cup {None}
    BY DEF InstallInv, InstallTypeOK, LookForJob, files
  <2>3. manifest' \in Thing /\ definition' \in Thing
    BY DEF InstallInv, InstallTypeOK, LookForJob, files
  <2>4. loaded' \in Thing /\ live' \in Config \cup {None} /\ wanted' \in BOOLEAN /\ submitted' \in BOOLEAN
    BY DEF InstallInv, InstallTypeOK, LookForJob, manages
  <2>5. manager' \in Manager /\ confirmed' \in Config \cup {None} /\ faults' \in 0..MaxFaults
    BY DEF InstallInv, InstallTypeOK, LookForJob
  <2> QED
    BY <2>1, <2>2, <2>3, <2>4, <2>5 DEF InstallTypeOK
<1>a. /\ cmd.kind = "recover" /\ cmd.at = "job" /\ pending # None /\ cmd.to = Restored
      /\ UNCHANGED <<manager, manifest, definition, pending, drain, loaded, wanted, live, submitted, confirmed, faults>>
      /\ \/ drain # None /\ cmd' = [cmd EXCEPT !.at = "stop", !.of = drain.of, !.next = "job"]
         \/ /\ drain = None /\ (loaded \in Recorded \ {None} \/ (loaded = None /\ definition \in Recorded \ {None}))
            /\ \E d \in Recorded \ {None} : cmd' = [cmd EXCEPT !.at = "stop", !.of = d, !.next = "define"]
         \/ drain = None /\ loaded = None /\ cmd' = [cmd EXCEPT !.at = "define"]
  BY PlacesTell DEF LookForJob, Registered, KnownJob, StopThen, Goto, files, manages
<1>b. /\ cmd'.kind = "recover" /\ cmd'.to = Restored' /\ cmd'.found = cmd.found /\ cmd' # NoCommand
      /\ \/ drain # None /\ cmd'.at = "stop" /\ cmd'.of = drain.of /\ cmd'.next = "job"
         \/ drain = None /\ cmd'.at = "stop" /\ cmd'.of \in Recorded \ {None} /\ cmd'.next = "define" /\ loaded # Foreign
         \/ drain = None /\ loaded = None /\ cmd'.at = "define"
  <2>1. loaded \in Recorded \/ loaded = None => loaded # Foreign
    BY <1>a, Parts, ValueAssumption DEF InstallInv, Recorded
  <2>2. cmd \in Commands /\ Restored' = Restored
    BY <1>a, Parts DEF InstallInv, Restored
  <2>3. NoCommand.kind = "none"
    BY DEF NoCommand
  <2>4. CASE drain # None
    <3>1. cmd' = [cmd EXCEPT !.at = "stop", !.of = drain.of, !.next = "job"]
      BY <1>a, <2>4
    <3>2. cmd'.at = "stop" /\ cmd'.of = drain.of /\ cmd'.next = "job"
          /\ cmd'.kind = cmd.kind /\ cmd'.to = cmd.to /\ cmd'.found = cmd.found
      BY <2>2, <3>1 DEF Commands
    <3> QED
      BY <1>a, <2>2, <2>3, <2>4, <3>2
  <2>5. CASE drain = None /\ loaded = None /\ cmd' = [cmd EXCEPT !.at = "define"]
    <3>1. cmd'.at = "define" /\ cmd'.kind = cmd.kind /\ cmd'.to = cmd.to /\ cmd'.found = cmd.found
      BY <2>2, <2>5 DEF Commands
    <3> QED
      BY <1>a, <2>2, <2>3, <2>5, <3>1
  <2>6. CASE /\ drain = None /\ (loaded \in Recorded \/ loaded = None)
             /\ \E d \in Recorded \ {None} : cmd' = [cmd EXCEPT !.at = "stop", !.of = d, !.next = "define"]
    <3>1. PICK d \in Recorded \ {None} : cmd' = [cmd EXCEPT !.at = "stop", !.of = d, !.next = "define"]
      BY <2>6
    <3>2. cmd'.at = "stop" /\ cmd'.of = d /\ cmd'.next = "define"
          /\ cmd'.kind = cmd.kind /\ cmd'.to = cmd.to /\ cmd'.found = cmd.found
      BY <2>2, <3>1 DEF Commands
    <3> QED
      BY <1>a, <2>1, <2>2, <2>3, <2>6, <3>1, <3>2
  <2> QED
    BY <1>a, <2>4, <2>5, <2>6
<1>c. /\ cmd # NoCommand /\ FilesFit /\ Recorded \subseteq Config \cup {None}
      /\ Recorded' = Recorded /\ Known = Recorded /\ Known' = Recorded
  <2>1. cmd # NoCommand
    <3>1. NoCommand.at = "idle"
      BY DEF NoCommand
    <3> QED
      BY <1>a, <3>1
  <2>2. Recorded \subseteq Config \cup {None}
    BY <1>a, Parts DEF InstallInv, Recorded
  <2> QED
    BY <1>a, <2>1, <2>2 DEF InstallInv, Abandoned, Known, Recorded
<1> USE ValueAssumption, <1>a, <1>b, <1>c
<1>2. WantedIsLoaded'
  BY DEF InstallInv, WantedIsLoaded
<1>3. CommandsFit'
  BY DEF InstallInv, CommandsFit, Stopping, Writing
<1>4. FoundFits'
  BY DEF InstallInv, FoundFits
<1>5. StopsFit'
  <2>1. drain # None => drain.of \in Config /\ drain.of \in Known
    BY Parts DEF InstallInv, FilesFit
  <2> QED
    BY <2>1 DEF InstallInv, StopsFit, Stopping
<1>6. WritesFit'
  BY DEF WritesFit
<1>7. (Abandoned \/ FilesFit)'
  BY DEF FilesFit, Removed
<1> QED
  BY <1>1, <1>2, <1>3, <1>4, <1>5, <1>6, <1>7 DEF InstallInv

LEMMA WritePendingFits ==
  ASSUME InstallInv, WritePending
  PROVE  InstallInv'
<1>1. InstallTypeOK'
  <2>1. cmd' \in Commands
    BY Parts, PlacesNamed, GotoTyped, StopThenTyped DEF InstallInv, WritePending, StopThen, Goto,
       Predecessor
  <2>2. pending' \in Pending \cup {None} /\ drain' \in Drain \cup {None}
    BY Parts, PlacesTell, RecordsMade DEF InstallInv, WritePending, Predecessor
  <2>3. manifest' \in Thing /\ definition' \in Thing
    BY DEF InstallInv, InstallTypeOK, WritePending, files
  <2>4. loaded' \in Thing /\ live' \in Config \cup {None} /\ wanted' \in BOOLEAN /\ submitted' \in BOOLEAN
    BY DEF InstallInv, InstallTypeOK, WritePending, manages
  <2>5. manager' \in Manager /\ confirmed' \in Config \cup {None} /\ faults' \in 0..MaxFaults
    BY DEF InstallInv, InstallTypeOK, WritePending
  <2> QED
    BY <2>1, <2>2, <2>3, <2>4, <2>5 DEF InstallTypeOK
<1>a. /\ cmd.kind = "install" /\ cmd.at = "record" /\ cmd.to \in Config /\ pending = None
      /\ pending' = [previous |-> cmd.of, candidate |-> cmd.to] /\ pending' # None
      /\ UNCHANGED <<manager, manifest, definition, drain, loaded, wanted, live, submitted, confirmed, faults>>
      /\ \/ cmd.of = None /\ cmd' = [cmd EXCEPT !.at = "define"]
         \/ cmd.of # None /\ cmd' = [cmd EXCEPT !.at = "stop", !.of = cmd.of, !.next = "define"]
  BY PlacesTell, Parts, RecordsMade, ValueAssumption DEF InstallInv, WritePending, Predecessor, StopThen,
     Goto, manages
<1>b. /\ cmd'.kind = "install" /\ cmd'.to = cmd.to /\ cmd'.of = cmd.of /\ cmd'.found = cmd.found
      /\ cmd'.at \in {"define", "stop"}
      /\ cmd'.at = "stop" => cmd'.next = "define" /\ cmd.of \in Config
  BY <1>a DEF InstallInv, InstallTypeOK, Commands
<1>2. WantedIsLoaded'
  BY <1>a DEF WantedIsLoaded, InstallInv
<1>3. CommandsFit'
  <2>1. cmd'.to = pending'.candidate
    BY <1>a, <1>b
  <2> QED
    BY <1>a, <1>b, <2>1 DEF CommandsFit, Stopping, Writing
<1>4. FoundFits'
  <2>1. cmd.found \subseteq {"job"} /\ "job" \notin cmd.found
    BY <1>a DEF InstallInv, FoundFits
  <2> QED
    BY <1>b, <2>1 DEF FoundFits
<1>5. StopsFit'
  <2>1. Known' = {cmd.of, cmd.to}
    BY <1>a DEF Known, Recorded
  <2>2. ~submitted \/ (drain # None /\ drain.stage = "started")
    BY DEF InstallInv, StopsFit
  <2> QED
    BY <1>a, <1>b, <2>1, <2>2 DEF StopsFit, Stopping
<1>6. WritesFit'
  BY <1>b DEF WritesFit
<1>7. FilesFit'
  <2>1. cmd # NoCommand
    BY <1>a DEF NoCommand
  <2>2. FilesFit
    BY <2>1 DEF InstallInv, Abandoned
  <2>3. Known = {cmd.of} /\ Known' = {cmd.of, cmd.to}
    BY <1>a DEF Known, Recorded
  <2>4. manifest \in Known \cup {Foreign} /\ loaded \in Known \cup {None, Foreign}
    BY <1>a, <2>1, <2>2 DEF FilesFit, Removed
  <2> QED
    BY <1>a, <2>2, <2>3, <2>4 DEF FilesFit
<1> QED
  BY <1>1, <1>2, <1>3, <1>4, <1>5, <1>6, <1>7 DEF InstallInv

LEMMA DefineFits ==
  ASSUME InstallInv, Define
  PROVE  InstallInv'
<1>1. InstallTypeOK'
  <2>1. cmd' \in Commands
    BY Parts, PlacesNamed, GotoTyped DEF InstallInv, Define, Goto
  <2>2. pending' \in Pending \cup {None} /\ drain' \in Drain \cup {None}
    BY DEF InstallInv, InstallTypeOK, Define, files
  <2>3. manifest' \in Thing /\ definition' \in Thing
    BY Parts DEF InstallInv, InstallTypeOK, Thing, Define, files, Goto
  <2>4. loaded' \in Thing /\ live' \in Config \cup {None} /\ wanted' \in BOOLEAN /\ submitted' \in BOOLEAN
    BY DEF InstallInv, InstallTypeOK, Define, manages
  <2>5. manager' \in Manager /\ confirmed' \in Config \cup {None} /\ faults' \in 0..MaxFaults
    BY DEF InstallInv, InstallTypeOK, Define
  <2> QED
    BY <2>1, <2>2, <2>3, <2>4, <2>5 DEF InstallTypeOK
<1>2. WantedIsLoaded'
  BY DEF InstallInv, WantedIsLoaded, Define, manages
<1>3. CommandsFit'
  BY DEF InstallInv, CommandsFit, Stopping, Writing, NoCommand, Restored, Define, files, Goto
<1>4. FoundFits'
  BY DEF InstallInv, FoundFits, Define, manages, NoCommand, Goto
<1>5. StopsFit'
  BY DEF InstallInv, StopsFit, Stopping, Known, Recorded, Define, files, manages, NoCommand, Goto
<1>6. WritesFit'
  BY DEF InstallInv, WritesFit, Define, files, manages, NoCommand, Goto
<1>7. (Abandoned \/ FilesFit)'
  BY ValueAssumption DEF InstallInv, Define, files, manages, NoCommand, Goto, FilesFit, Abandoned,
     Removed, Known, WritesFit, StopsFit, CommandsFit, Stopping, Writing, InstallTypeOK, Commands,
     Pending, Drain, Recorded, Restored
<1> QED
  BY <1>1, <1>2, <1>3, <1>4, <1>5, <1>6, <1>7 DEF InstallInv

LEMMA WriteManifestFits ==
  ASSUME InstallInv, WriteManifest
  PROVE  InstallInv'
<1>1. InstallTypeOK'
  <2>1. cmd' \in Commands
    BY Parts, PlacesNamed, GotoTyped DEF InstallInv, WriteManifest, Goto
  <2>2. pending' \in Pending \cup {None} /\ drain' \in Drain \cup {None}
    BY DEF InstallInv, InstallTypeOK, WriteManifest, files
  <2>3. manifest' \in Thing /\ definition' \in Thing
    BY Parts DEF InstallInv, InstallTypeOK, Thing, WriteManifest, files, Goto
  <2>4. loaded' \in Thing /\ live' \in Config \cup {None} /\ wanted' \in BOOLEAN /\ submitted' \in BOOLEAN
    BY DEF InstallInv, InstallTypeOK, WriteManifest, manages
  <2>5. manager' \in Manager /\ confirmed' \in Config \cup {None} /\ faults' \in 0..MaxFaults
    BY DEF InstallInv, InstallTypeOK, WriteManifest
  <2> QED
    BY <2>1, <2>2, <2>3, <2>4, <2>5 DEF InstallTypeOK
<1>2. WantedIsLoaded'
  BY DEF InstallInv, WantedIsLoaded, WriteManifest, manages
<1>3. CommandsFit'
  BY DEF InstallInv, CommandsFit, Stopping, Writing, NoCommand, Restored, WriteManifest, files, Goto
<1>4. FoundFits'
  BY DEF InstallInv, FoundFits, WriteManifest, manages, NoCommand, Goto
<1>5. StopsFit'
  BY DEF InstallInv, StopsFit, Stopping, Known, Recorded, WriteManifest, files, manages, NoCommand, Goto
<1>6. WritesFit'
  BY DEF InstallInv, WritesFit, WriteManifest, files, manages, NoCommand, Goto
<1>7. (Abandoned \/ FilesFit)'
  BY ValueAssumption DEF InstallInv, WriteManifest, files, manages, NoCommand, Goto, FilesFit,
     Abandoned, Removed, Known, WritesFit, StopsFit, CommandsFit, Stopping, Writing, InstallTypeOK,
     Commands, Pending, Drain, Recorded, Restored
<1> QED
  BY <1>1, <1>2, <1>3, <1>4, <1>5, <1>6, <1>7 DEF InstallInv

LEMMA ActivateFits ==
  ASSUME InstallInv, Activate
  PROVE  InstallInv'
<1>1. InstallTypeOK'
  <2>1. cmd' \in Commands
    BY Parts, PlacesNamed, GotoTyped DEF InstallInv, Activate, Goto
  <2>2. pending' \in Pending \cup {None} /\ drain' \in Drain \cup {None}
    BY DEF InstallInv, InstallTypeOK, Activate, files
  <2>3. manifest' \in Thing /\ definition' \in Thing
    BY DEF InstallInv, InstallTypeOK, Activate, files
  <2>4. loaded' \in Thing /\ live' \in Config \cup {None} /\ wanted' \in BOOLEAN /\ submitted' \in BOOLEAN
    BY DEF InstallInv, InstallTypeOK, Activate, manages
  <2>5. manager' \in Manager /\ confirmed' \in Config \cup {None} /\ faults' \in 0..MaxFaults
    BY Parts DEF InstallInv, InstallTypeOK, Activate
  <2> QED
    BY <2>1, <2>2, <2>3, <2>4, <2>5 DEF InstallTypeOK
<1>2. WantedIsLoaded'
  BY ValueAssumption DEF InstallInv, Activate, files, manages, NoCommand, CanLoad, Goto, WantedIsLoaded
<1>3. CommandsFit'
  BY DEF InstallInv, CommandsFit, Stopping, Writing, NoCommand, Restored, Activate, files, Goto
<1>4. FoundFits'
  BY DEF InstallInv, FoundFits, Activate, manages, NoCommand, Goto
<1>5. StopsFit'
  BY DEF InstallInv, StopsFit, Stopping, Known, Recorded, Activate, files, manages, NoCommand, Goto
<1>6. WritesFit'
  BY ValueAssumption DEF InstallInv, WritesFit, CommandsFit, Stopping, Writing, Activate, files,
     manages, NoCommand, CanLoad, Goto
<1>7. (Abandoned \/ FilesFit)'
  BY ValueAssumption DEF InstallInv, FilesFit, Abandoned, Removed, Known, Recorded, Restored, WritesFit,
     CommandsFit, Stopping, Writing, Activate, files, manages, NoCommand, CanLoad, Goto
<1> QED
  BY <1>1, <1>2, <1>3, <1>4, <1>5, <1>6, <1>7 DEF InstallInv

LEMMA ActivationFailsFits ==
  ASSUME InstallInv, ActivationFails
  PROVE  InstallInv'
<1>1. InstallTypeOK'
  <2>1. cmd' \in Commands
    <3>1. cmd.kind = "install" => pending.previous \in Config \cup {None}
      BY Parts, PlacesTell DEF InstallInv, CommandsFit, ActivationFails
    <3> QED
      BY <3>1, Parts, PlacesNamed, NoCommandTyped, RollbackTyped DEF InstallInv, ActivationFails
  <2>2. pending' \in Pending \cup {None} /\ drain' \in Drain \cup {None}
    BY Parts, RecordsMade DEF InstallInv, ActivationFails, files, StillPending
  <2>3. manifest' \in Thing /\ definition' \in Thing
    BY DEF InstallInv, InstallTypeOK, ActivationFails, files
  <2>4. loaded' \in Thing /\ live' \in Config \cup {None} /\ wanted' \in BOOLEAN /\ submitted' \in BOOLEAN
    BY DEF InstallInv, InstallTypeOK, ActivationFails, manages
  <2>5. manager' \in Manager /\ confirmed' \in Config \cup {None} /\ faults' \in 0..MaxFaults
    BY Parts, FaultAssumption DEF InstallInv, InstallTypeOK, ActivationFails, CanLoad, StillPending
  <2> QED
    BY <2>1, <2>2, <2>3, <2>4, <2>5 DEF InstallTypeOK
<1>2. WantedIsLoaded'
  BY ValueAssumption DEF InstallInv, ActivationFails, files, manages, NoCommand, CanLoad, StillPending,
     WantedIsLoaded
<1>3. CommandsFit'
  BY ValueAssumption DEF InstallInv, ActivationFails, files, manages, NoCommand, CanLoad, StillPending,
     CommandsFit, Stopping, Writing, InstallTypeOK, Commands, Pending, Drain, Recorded, Restored
<1>4. FoundFits'
  BY DEF InstallInv, FoundFits, ActivationFails, manages, NoCommand, StillPending
<1>5. StopsFit'
  BY ValueAssumption DEF InstallInv, StopsFit, CommandsFit, Stopping, Writing, FilesFit, Abandoned,
     Known, Recorded, ActivationFails, files, manages, NoCommand, CanLoad, StillPending
<1>6. WritesFit'
  BY DEF InstallInv, WritesFit, ActivationFails, files, manages, NoCommand, StillPending
<1>7. (Abandoned \/ FilesFit)'
  BY ValueAssumption DEF InstallInv, FilesFit, Abandoned, Removed, Known, Recorded, Restored, WritesFit,
     CommandsFit, Stopping, Writing, ActivationFails, files, manages, NoCommand, CanLoad, StillPending
<1> QED
  BY <1>1, <1>2, <1>3, <1>4, <1>5, <1>6, <1>7 DEF InstallInv

LEMMA SettleFits ==
  ASSUME InstallInv, Settle
  PROVE  InstallInv'
<1>1. InstallTypeOK'
  <2>1. cmd' \in Commands
    BY Parts, NoCommandTyped DEF InstallInv, Settle, Return
  <2>2. pending' \in Pending \cup {None} /\ drain' \in Drain \cup {None}
    BY DEF InstallInv, InstallTypeOK, Settle, files
  <2>3. manifest' \in Thing /\ definition' \in Thing
    BY DEF InstallInv, InstallTypeOK, Settle, files
  <2>4. loaded' \in Thing /\ live' \in Config \cup {None} /\ wanted' \in BOOLEAN /\ submitted' \in BOOLEAN
    BY DEF InstallInv, InstallTypeOK, Settle, manages
  <2>5. manager' \in Manager /\ confirmed' \in Config \cup {None} /\ faults' \in 0..MaxFaults
    BY DEF InstallInv, InstallTypeOK, Settle
  <2> QED
    BY <2>1, <2>2, <2>3, <2>4, <2>5 DEF InstallTypeOK
<1>2. WantedIsLoaded'
  BY DEF InstallInv, WantedIsLoaded, Settle, manages
<1>3. CommandsFit'
  BY DEF InstallInv, CommandsFit, Stopping, Writing, NoCommand, Restored, Settle, files, Return
<1>4. FoundFits'
  BY DEF InstallInv, FoundFits, Settle, manages, NoCommand, Return
<1>5. StopsFit'
  BY DEF InstallInv, StopsFit, Stopping, Known, Recorded, Settle, files, manages, NoCommand, Return
<1>6. WritesFit'
  BY DEF InstallInv, WritesFit, Settle, files, manages, NoCommand, Return
<1>7. (Abandoned \/ FilesFit)'
  BY ValueAssumption DEF InstallInv, FilesFit, Abandoned, Removed, Known, Recorded, Restored, WritesFit,
     CommandsFit, Stopping, Writing, Settle, files, manages, NoCommand, Return
<1> QED
  BY <1>1, <1>2, <1>3, <1>4, <1>5, <1>6, <1>7 DEF InstallInv

LEMMA UndefineFits ==
  ASSUME InstallInv, Undefine
  PROVE  InstallInv'
<1>1. InstallTypeOK'
  <2>1. cmd' \in Commands
    BY Parts, PlacesNamed, GotoTyped DEF InstallInv, Undefine, Goto
  <2>2. pending' \in Pending \cup {None} /\ drain' \in Drain \cup {None}
    BY DEF InstallInv, InstallTypeOK, Undefine, files
  <2>3. manifest' \in Thing /\ definition' \in Thing
    BY Parts DEF InstallInv, InstallTypeOK, Thing, Undefine, files, Goto
  <2>4. loaded' \in Thing /\ live' \in Config \cup {None} /\ wanted' \in BOOLEAN /\ submitted' \in BOOLEAN
    BY DEF InstallInv, InstallTypeOK, Undefine, manages
  <2>5. manager' \in Manager /\ confirmed' \in Config \cup {None} /\ faults' \in 0..MaxFaults
    BY DEF InstallInv, InstallTypeOK, Undefine
  <2> QED
    BY <2>1, <2>2, <2>3, <2>4, <2>5 DEF InstallTypeOK
<1>2. WantedIsLoaded'
  BY DEF InstallInv, WantedIsLoaded, Undefine, manages
<1>3. CommandsFit'
  BY DEF InstallInv, CommandsFit, Stopping, Writing, NoCommand, Restored, Undefine, files, Goto
<1>4. FoundFits'
  BY DEF InstallInv, FoundFits, Undefine, manages, NoCommand, Goto
<1>5. StopsFit'
  BY DEF InstallInv, StopsFit, Stopping, Known, Recorded, Undefine, files, manages, NoCommand, Goto
<1>6. WritesFit'
  BY DEF InstallInv, WritesFit, Undefine, files, manages, NoCommand, Goto
<1>7. (Abandoned \/ FilesFit)'
  BY DEF InstallInv, FilesFit, Abandoned, Removed, Known, Recorded, Undefine, files, manages, NoCommand,
     Goto
<1> QED
  BY <1>1, <1>2, <1>3, <1>4, <1>5, <1>6, <1>7 DEF InstallInv

LEMMA UnmanifestFits ==
  ASSUME InstallInv, Unmanifest
  PROVE  InstallInv'
<1>1. InstallTypeOK'
  <2>1. cmd' \in Commands
    BY Parts, PlacesNamed, GotoTyped DEF InstallInv, Unmanifest, Goto
  <2>2. pending' \in Pending \cup {None} /\ drain' \in Drain \cup {None}
    BY DEF InstallInv, InstallTypeOK, Unmanifest, files
  <2>3. manifest' \in Thing /\ definition' \in Thing
    BY Parts DEF InstallInv, InstallTypeOK, Thing, Unmanifest, files, Goto
  <2>4. loaded' \in Thing /\ live' \in Config \cup {None} /\ wanted' \in BOOLEAN /\ submitted' \in BOOLEAN
    BY DEF InstallInv, InstallTypeOK, Unmanifest, manages
  <2>5. manager' \in Manager /\ confirmed' \in Config \cup {None} /\ faults' \in 0..MaxFaults
    BY DEF InstallInv, InstallTypeOK, Unmanifest
  <2> QED
    BY <2>1, <2>2, <2>3, <2>4, <2>5 DEF InstallTypeOK
<1>2. WantedIsLoaded'
  BY DEF InstallInv, WantedIsLoaded, Unmanifest, manages
<1>3. CommandsFit'
  BY DEF InstallInv, CommandsFit, Stopping, Writing, NoCommand, Restored, Unmanifest, files, Goto
<1>4. FoundFits'
  BY DEF InstallInv, FoundFits, Unmanifest, manages, NoCommand, Goto
<1>5. StopsFit'
  BY DEF InstallInv, StopsFit, Stopping, Known, Recorded, Unmanifest, files, manages, NoCommand, Goto
<1>6. WritesFit'
  BY DEF InstallInv, WritesFit, Unmanifest, files, manages, NoCommand, Goto
<1>7. (Abandoned \/ FilesFit)'
  BY ValueAssumption DEF InstallInv, Unmanifest, files, manages, NoCommand, Goto, FilesFit, Abandoned,
     Removed, Known, WritesFit, StopsFit, CommandsFit, Stopping, Writing, InstallTypeOK, Commands,
     Pending, Drain, Recorded, Restored
<1> QED
  BY <1>1, <1>2, <1>3, <1>4, <1>5, <1>6, <1>7 DEF InstallInv

LEMMA ReloadFits ==
  ASSUME InstallInv, Reload
  PROVE  InstallInv'
<1>1. InstallTypeOK'
  <2>1. cmd' \in Commands
    BY Parts, NoCommandTyped DEF InstallInv, Reload, Return
  <2>2. pending' \in Pending \cup {None} /\ drain' \in Drain \cup {None}
    BY DEF InstallInv, InstallTypeOK, Reload, files
  <2>3. manifest' \in Thing /\ definition' \in Thing
    BY DEF InstallInv, InstallTypeOK, Reload, files
  <2>4. loaded' \in Thing /\ live' \in Config \cup {None} /\ wanted' \in BOOLEAN /\ submitted' \in BOOLEAN
    BY DEF InstallInv, InstallTypeOK, Thing, Reload, manages
  <2>5. manager' \in Manager /\ confirmed' \in Config \cup {None} /\ faults' \in 0..MaxFaults
    BY DEF InstallInv, InstallTypeOK, Reload
  <2> QED
    BY <2>1, <2>2, <2>3, <2>4, <2>5 DEF InstallTypeOK
<1>2. WantedIsLoaded'
  BY DEF InstallInv, WantedIsLoaded, Reload, manages
<1>3. CommandsFit'
  BY DEF InstallInv, CommandsFit, Stopping, Writing, NoCommand, Restored, Reload, files, Return
<1>4. FoundFits'
  BY DEF InstallInv, FoundFits, Reload, manages, NoCommand, Return
<1>5. StopsFit'
  BY DEF InstallInv, StopsFit, Stopping, Known, Recorded, Reload, files, manages, NoCommand, Return
<1>6. WritesFit'
  BY DEF InstallInv, WritesFit, Reload, files, manages, NoCommand, Return
<1>7. (Abandoned \/ FilesFit)'
  BY ValueAssumption DEF InstallInv, Reload, files, manages, NoCommand, Return, FilesFit, Abandoned,
     Removed, Known, WritesFit, StopsFit, CommandsFit, Stopping, Writing, InstallTypeOK, Commands,
     Pending, Drain, Recorded, Restored
<1> QED
  BY <1>1, <1>2, <1>3, <1>4, <1>5, <1>6, <1>7 DEF InstallInv

LEMMA BailFits ==
  ASSUME InstallInv, Bail
  PROVE  InstallInv'
<1>1. InstallTypeOK'
  <2>1. cmd' \in Commands
    BY Parts, NoCommandTyped DEF InstallInv, Bail, Return
  <2>2. pending' \in Pending \cup {None} /\ drain' \in Drain \cup {None}
    BY DEF InstallInv, InstallTypeOK, Bail, files
  <2>3. manifest' \in Thing /\ definition' \in Thing
    BY DEF InstallInv, InstallTypeOK, Bail, files
  <2>4. loaded' \in Thing /\ live' \in Config \cup {None} /\ wanted' \in BOOLEAN /\ submitted' \in BOOLEAN
    BY DEF InstallInv, InstallTypeOK, Bail, manages
  <2>5. manager' \in Manager /\ confirmed' \in Config \cup {None} /\ faults' \in 0..MaxFaults
    BY DEF InstallInv, InstallTypeOK, Bail
  <2> QED
    BY <2>1, <2>2, <2>3, <2>4, <2>5 DEF InstallTypeOK
<1>2. WantedIsLoaded'
  BY DEF InstallInv, WantedIsLoaded, Bail, manages
<1>3. CommandsFit'
  BY DEF InstallInv, CommandsFit, Stopping, Writing, NoCommand, Restored, Bail, files, Return
<1>4. FoundFits'
  BY DEF InstallInv, FoundFits, Bail, manages, NoCommand, Return
<1>5. StopsFit'
  BY DEF InstallInv, StopsFit, Stopping, Known, Recorded, Bail, files, manages, NoCommand, Return
<1>6. WritesFit'
  BY DEF InstallInv, WritesFit, Bail, files, manages, NoCommand, Return
<1>7. (Abandoned \/ FilesFit)'
  BY ValueAssumption DEF InstallInv, FilesFit, Abandoned, Removed, Known, Recorded, Restored, WritesFit,
     CommandsFit, Stopping, Writing, Bail, files, manages, NoCommand, CannotGoOn, Return, Absent,
     Responsive, MayStop, Draining, Owned, Registered, KnownJob
<1> QED
  BY <1>1, <1>2, <1>3, <1>4, <1>5, <1>6, <1>7 DEF InstallInv

LEMMA DieFits ==
  ASSUME InstallInv, Die
  PROVE  InstallInv'
<1>1. InstallTypeOK'
  <2>1. cmd' \in Commands
    BY Parts, NoCommandTyped DEF InstallInv, Die, Return
  <2>2. pending' \in Pending \cup {None} /\ drain' \in Drain \cup {None}
    BY DEF InstallInv, InstallTypeOK, Die, files
  <2>3. manifest' \in Thing /\ definition' \in Thing
    BY DEF InstallInv, InstallTypeOK, Die, files
  <2>4. loaded' \in Thing /\ live' \in Config \cup {None} /\ wanted' \in BOOLEAN /\ submitted' \in BOOLEAN
    BY DEF InstallInv, InstallTypeOK, Die, manages
  <2>5. manager' \in Manager /\ confirmed' \in Config \cup {None} /\ faults' \in 0..MaxFaults
    BY Parts, FaultAssumption DEF InstallInv, InstallTypeOK, Die, Fault, Return
  <2> QED
    BY <2>1, <2>2, <2>3, <2>4, <2>5 DEF InstallTypeOK
<1>2. WantedIsLoaded'
  BY DEF InstallInv, WantedIsLoaded, Die, manages
<1>3. CommandsFit'
  BY DEF InstallInv, CommandsFit, Stopping, Writing, NoCommand, Restored, Die, files, Return
<1>4. FoundFits'
  BY DEF InstallInv, FoundFits, Die, manages, NoCommand, Return
<1>5. StopsFit'
  BY DEF InstallInv, StopsFit, Stopping, Known, Recorded, Die, files, manages, NoCommand, Return
<1>6. WritesFit'
  BY DEF InstallInv, WritesFit, Die, files, manages, NoCommand, Return
<1>7. (Abandoned \/ FilesFit)'
  BY ValueAssumption DEF InstallInv, Die, files, manages, NoCommand, Fault, Return, FilesFit, Abandoned,
     Removed, Known, WritesFit, StopsFit, CommandsFit, Stopping, Writing, InstallTypeOK, Commands,
     Pending, Drain, Recorded, Restored
<1> QED
  BY <1>1, <1>2, <1>3, <1>4, <1>5, <1>6, <1>7 DEF InstallInv

LEMMA LaunchFits ==
  ASSUME InstallInv, Launch
  PROVE  InstallInv'
<1>1. InstallTypeOK'
  <2>1. cmd' \in Commands
    BY Parts DEF InstallInv, Launch
  <2>2. pending' \in Pending \cup {None} /\ drain' \in Drain \cup {None}
    BY DEF InstallInv, InstallTypeOK, Launch, files
  <2>3. manifest' \in Thing /\ definition' \in Thing
    BY DEF InstallInv, InstallTypeOK, Launch, files
  <2>4. loaded' \in Thing /\ live' \in Config \cup {None} /\ wanted' \in BOOLEAN /\ submitted' \in BOOLEAN
    BY DEF InstallInv, InstallTypeOK, Launch, manages
  <2>5. manager' \in Manager /\ confirmed' \in Config \cup {None} /\ faults' \in 0..MaxFaults
    BY DEF InstallInv, InstallTypeOK, Launch
  <2> QED
    BY <2>1, <2>2, <2>3, <2>4, <2>5 DEF InstallTypeOK
<1>2. WantedIsLoaded'
  BY DEF InstallInv, WantedIsLoaded, Launch, manages
<1>3. CommandsFit'
  BY DEF InstallInv, CommandsFit, Stopping, Writing, NoCommand, Restored, Launch, files
<1>4. FoundFits'
  BY DEF InstallInv, FoundFits, Launch, manages, NoCommand
<1>5. StopsFit'
  BY DEF InstallInv, StopsFit, Stopping, Known, Recorded, Launch, files, manages, NoCommand
<1>6. WritesFit'
  BY DEF InstallInv, WritesFit, Launch, files, manages, NoCommand
<1>7. (Abandoned \/ FilesFit)'
  BY DEF InstallInv, FilesFit, Abandoned, Removed, Known, Recorded, Launch, files, manages, NoCommand
<1> QED
  BY <1>1, <1>2, <1>3, <1>4, <1>5, <1>6, <1>7 DEF InstallInv

LEMMA ManagerForgetsFits ==
  ASSUME InstallInv, ManagerForgets
  PROVE  InstallInv'
<1>1. InstallTypeOK'
  <2>1. cmd' \in Commands
    BY Parts DEF InstallInv, ManagerForgets
  <2>2. pending' \in Pending \cup {None} /\ drain' \in Drain \cup {None}
    BY DEF InstallInv, InstallTypeOK, ManagerForgets, files
  <2>3. manifest' \in Thing /\ definition' \in Thing
    BY DEF InstallInv, InstallTypeOK, ManagerForgets, files
  <2>4. loaded' \in Thing /\ live' \in Config \cup {None} /\ wanted' \in BOOLEAN /\ submitted' \in BOOLEAN
    BY DEF InstallInv, InstallTypeOK, Thing, ManagerForgets, manages
  <2>5. manager' \in Manager /\ confirmed' \in Config \cup {None} /\ faults' \in 0..MaxFaults
    BY DEF InstallInv, InstallTypeOK, ManagerForgets
  <2> QED
    BY <2>1, <2>2, <2>3, <2>4, <2>5 DEF InstallTypeOK
<1>2. WantedIsLoaded'
  BY DEF InstallInv, WantedIsLoaded, ManagerForgets, manages
<1>3. CommandsFit'
  BY DEF InstallInv, CommandsFit, Stopping, Writing, NoCommand, Restored, ManagerForgets, files
<1>4. FoundFits'
  BY ValueAssumption DEF InstallInv, FoundFits, CommandsFit, StopsFit, Stopping, Writing,
     ManagerForgets, files, manages, NoCommand
<1>5. StopsFit'
  BY DEF InstallInv, StopsFit, Stopping, Known, Recorded, ManagerForgets, files, manages, NoCommand
<1>6. WritesFit'
  BY DEF InstallInv, WritesFit, ManagerForgets, files, manages, NoCommand
<1>7. (Abandoned \/ FilesFit)'
  BY DEF InstallInv, FilesFit, Abandoned, Removed, Known, Recorded, ManagerForgets, files, manages,
     NoCommand
<1> QED
  BY <1>1, <1>2, <1>3, <1>4, <1>5, <1>6, <1>7 DEF InstallInv

LEMMA ExitFits ==
  ASSUME InstallInv, Exit
  PROVE  InstallInv'
<1>1. InstallTypeOK'
  <2>1. cmd' \in Commands
    BY Parts DEF InstallInv, Exit
  <2>2. pending' \in Pending \cup {None} /\ drain' \in Drain \cup {None}
    BY DEF InstallInv, InstallTypeOK, Exit, files
  <2>3. manifest' \in Thing /\ definition' \in Thing
    BY DEF InstallInv, InstallTypeOK, Exit, files
  <2>4. loaded' \in Thing /\ live' \in Config \cup {None} /\ wanted' \in BOOLEAN /\ submitted' \in BOOLEAN
    BY DEF InstallInv, InstallTypeOK, Exit, manages
  <2>5. manager' \in Manager /\ confirmed' \in Config \cup {None} /\ faults' \in 0..MaxFaults
    BY Parts, FaultAssumption DEF InstallInv, InstallTypeOK, Exit, Fault
  <2> QED
    BY <2>1, <2>2, <2>3, <2>4, <2>5 DEF InstallTypeOK
<1>2. WantedIsLoaded'
  BY DEF InstallInv, WantedIsLoaded, Exit, manages
<1>3. CommandsFit'
  BY DEF InstallInv, CommandsFit, Stopping, Writing, NoCommand, Restored, Exit, files
<1>4. FoundFits'
  BY DEF InstallInv, FoundFits, Exit, manages, NoCommand
<1>5. StopsFit'
  BY DEF InstallInv, StopsFit, Stopping, Known, Recorded, Exit, files, manages, NoCommand
<1>6. WritesFit'
  BY DEF InstallInv, WritesFit, Exit, files, manages, NoCommand
<1>7. (Abandoned \/ FilesFit)'
  BY DEF InstallInv, FilesFit, Abandoned, Removed, Known, Recorded, Exit, files, manages, NoCommand
<1> QED
  BY <1>1, <1>2, <1>3, <1>4, <1>5, <1>6, <1>7 DEF InstallInv

LEMMA RebootFits ==
  ASSUME InstallInv, Reboot
  PROVE  InstallInv'
<1>1. InstallTypeOK'
  <2>1. cmd' \in Commands
    BY Parts, NoCommandTyped DEF InstallInv, Reboot
  <2>2. pending' \in Pending \cup {None} /\ drain' \in Drain \cup {None}
    BY DEF InstallInv, InstallTypeOK, Reboot, files
  <2>3. manifest' \in Thing /\ definition' \in Thing
    BY DEF InstallInv, InstallTypeOK, Reboot, files
  <2>4. loaded' \in Thing /\ live' \in Config \cup {None} /\ wanted' \in BOOLEAN /\ submitted' \in BOOLEAN
    BY DEF InstallInv, InstallTypeOK, Thing, Reboot, manages
  <2>5. manager' \in Manager /\ confirmed' \in Config \cup {None} /\ faults' \in 0..MaxFaults
    BY Parts, FaultAssumption DEF InstallInv, InstallTypeOK, Reboot, Fault
  <2> QED
    BY <2>1, <2>2, <2>3, <2>4, <2>5 DEF InstallTypeOK
<1>2. WantedIsLoaded'
  BY DEF InstallInv, WantedIsLoaded, Reboot, manages
<1>3. CommandsFit'
  BY DEF InstallInv, CommandsFit, Stopping, Writing, NoCommand, Restored, Reboot, files
<1>4. FoundFits'
  BY DEF InstallInv, FoundFits, Reboot, manages, NoCommand
<1>5. StopsFit'
  BY DEF InstallInv, StopsFit, Stopping, Known, Recorded, Reboot, files, manages, NoCommand
<1>6. WritesFit'
  BY DEF InstallInv, WritesFit, Reboot, files, manages, NoCommand
<1>7. (Abandoned \/ FilesFit)'
  BY ValueAssumption DEF InstallInv, Reboot, files, manages, NoCommand, Fault, FilesFit, Abandoned,
     Removed, Known, WritesFit, StopsFit, CommandsFit, Stopping, Writing, InstallTypeOK, Commands,
     Pending, Drain, Recorded, Restored
<1> QED
  BY <1>1, <1>2, <1>3, <1>4, <1>5, <1>6, <1>7 DEF InstallInv

LEMMA EditFits ==
  ASSUME InstallInv, Edit
  PROVE  InstallInv'
<1>1. InstallTypeOK'
  <2>1. cmd' \in Commands
    BY Parts DEF InstallInv, Edit
  <2>2. pending' \in Pending \cup {None} /\ drain' \in Drain \cup {None}
    BY DEF InstallInv, InstallTypeOK, Edit, files
  <2>3. manifest' \in Thing /\ definition' \in Thing
    BY Parts DEF InstallInv, InstallTypeOK, Thing, Edit, files
  <2>4. loaded' \in Thing /\ live' \in Config \cup {None} /\ wanted' \in BOOLEAN /\ submitted' \in BOOLEAN
    BY DEF InstallInv, InstallTypeOK, Thing, Edit, manages
  <2>5. manager' \in Manager /\ confirmed' \in Config \cup {None} /\ faults' \in 0..MaxFaults
    BY Parts, FaultAssumption DEF InstallInv, InstallTypeOK, Edit, Fault
  <2> QED
    BY <2>1, <2>2, <2>3, <2>4, <2>5 DEF InstallTypeOK
<1>2. WantedIsLoaded'
  BY ValueAssumption DEF InstallInv, Edit, files, manages, NoCommand, Fault, WantedIsLoaded
<1>3. CommandsFit'
  BY DEF InstallInv, CommandsFit, Stopping, Writing, NoCommand, Restored, Edit, files
<1>4. FoundFits'
  BY DEF InstallInv, FoundFits, Edit, manages, NoCommand
<1>5. StopsFit'
  BY ValueAssumption DEF InstallInv, Edit, files, manages, NoCommand, Fault, StopsFit, FilesFit,
     Abandoned, Known, CommandsFit, Stopping, Writing, InstallTypeOK, Commands, Pending, Drain,
     Recorded, Restored
<1>6. WritesFit'
  BY DEF InstallInv, WritesFit, Edit, files, manages, NoCommand
<1>7. (Abandoned \/ FilesFit)'
  BY ValueAssumption DEF InstallInv, Edit, files, manages, NoCommand, Fault, FilesFit, Abandoned,
     Removed, Known, WritesFit, StopsFit, CommandsFit, Stopping, Writing, InstallTypeOK, Commands,
     Pending, Drain, Recorded, Restored
<1> QED
  BY <1>1, <1>2, <1>3, <1>4, <1>5, <1>6, <1>7 DEF InstallInv


-----------------------------------------------------------------------------
(* The theorems                                                            *)

LEMMA CommandFits ==
  ASSUME InstallInv, Command
  PROVE  InstallInv'
  BY NothingToStopFits, BeginStopFits, CommitDrainFits, SubmitStopFits, AcknowledgeFits, ClearDrainFits,
     LookDrainedFits, LookFits, LookForJobFits, WritePendingFits, DefineFits, WriteManifestFits,
     ActivateFits, SettleFits, UndefineFits, UnmanifestFits, ReloadFits, BailFits DEF Command

LEMMA StutterFits ==
  ASSUME InstallInv, UNCHANGED installVars
  PROVE  InstallInv'
<1> USE DEF installVars, files, manages
<1>1. InstallTypeOK'
  BY DEF InstallInv, InstallTypeOK
<1>2. CommandsFit' /\ FoundFits' /\ WantedIsLoaded'
  BY DEF InstallInv, CommandsFit, FoundFits, WantedIsLoaded, Restored
<1>3. StopsFit' /\ WritesFit'
  BY DEF InstallInv, StopsFit, WritesFit, Known, Recorded
<1>4. (Abandoned \/ FilesFit)'
  BY DEF InstallInv, Abandoned, FilesFit, Removed, Known, Recorded
<1> QED
  BY <1>1, <1>2, <1>3, <1>4 DEF InstallInv

LEMMA InstallInvariant == InstallSpec => []InstallInv
<1>1. InstallInit => InstallInv
  BY InitFits
<1>2. InstallInv /\ [InstallNext]_installVars => InstallInv'
  BY StartInstallFits, StartRepairFits, StartUninstallFits, StartRecoveryFits, CommandFits,
     ActivationFailsFits, DieFits, ManagerStopsFits, LaunchFits, ManagerForgetsFits, ExitFits, RebootFits,
     EditFits,
     StutterFits DEF InstallNext
<1> QED
  BY <1>1, <1>2, PTL DEF InstallSpec

\* Whatever a crash leaves, the record explains it: the files, the job and the
\* unfinished stop belong to the pending replacement, or to the manifest; and the
\* configuration last seen to work is the manifest's or is named by the record.
THEOREM RecordHolds == InstallSpec => [](InstallTypeOK /\ RecordIsTrue)
<1>1. ASSUME InstallInv PROVE RecordExplains
  <2> SUFFICES ASSUME cmd = NoCommand, manifest # Foreign
               PROVE  /\ manifest \in Known
                      /\ definition \in Known \cup {None, Foreign}
                      /\ wanted /\ MayServe => loaded \in Known \cup {Foreign}
                      /\ drain # None => drain.of \in Known
    <3>1. cmd = NoCommand => Known = IF pending # None THEN Recorded ELSE {manifest}
      BY DEF Known, NoCommand
    <3> QED
      BY <3>1 DEF RecordExplains
  <2>1. FilesFit /\ cmd.at # "reload"
    BY <1>1 DEF InstallInv, Abandoned, NoCommand
  <2>2. wanted /\ MayServe => ~Removed /\ loaded # None
    BY <1>1, ValueAssumption DEF InstallInv, WantedIsLoaded, MayServe, Removed
  <2> QED
    BY <2>1, <2>2 DEF FilesFit
<1>2. ASSUME InstallInv PROVE ConfirmedIsKept
  <2> SUFFICES ASSUME confirmed # None, manifest # Foreign, pending = None
               PROVE  confirmed = manifest
    BY <1>2, Parts DEF ConfirmedIsKept, InstallInv, Abandoned, FilesFit, Known
  <2>1. confirmed \in Known /\ manifest \in Known
    BY <1>2, ValueAssumption DEF InstallInv, Abandoned, FilesFit, WritesFit
  <2> QED
    BY <2>1 DEF Known
<1>3. InstallInv => InstallTypeOK /\ RecordIsTrue
  BY <1>1, <1>2 DEF InstallInv, RecordIsTrue
<1> QED
  BY <1>3, InstallInvariant, PTL

\* What was not ours when a command began is so until it ends, whatever the
\* command does, unless a stop that had been submitted is executed only now.
THEOREM ForeignIsLeftAlone == InstallSpec => ForeignIsLeft
<1> DEFINE Left ==
      cmd # NoCommand /\ faults' = faults =>
        /\ "manifest" \in cmd.found => manifest' = manifest
        /\ "definition" \in cmd.found => definition' = definition
        /\ "job" \in cmd.found /\ ~submitted => loaded' = loaded
<1>1. InstallInv /\ [InstallNext]_installVars => Left
  <2> SUFFICES ASSUME InstallInv, InstallNext, cmd # NoCommand, faults' = faults,
                      "job" \in cmd.found, ~submitted
               PROVE  loaded' = loaded
    BY DEF InstallInv, FoundFits, installVars, manages
  <2>1. cmd.at \in {"job", "stop"} /\ loaded \notin Config
    BY ValueAssumption DEF InstallInv, FoundFits
  <2>2. ~Fault
    BY DEF InstallInv, InstallTypeOK, Fault
  <2>3. CASE Command
    BY <2>1, <2>3 DEF Command, NothingToStop, BeginStop, CommitDrain, SubmitStop, Acknowledge, ClearDrain,
       LookDrained, Look, LookForJob, WritePending, Define, WriteManifest, Activate, Settle, Undefine,
       Unmanifest, Reload, Bail, manages
  <2>4. ~(\E c \in Config : StartInstall(c)) /\ ~StartRepair /\ ~StartUninstall /\ ~StartRecovery
    BY DEF StartInstall, StartRepair, StartUninstall, StartRecovery
  <2>5. ~Die /\ ~Exit /\ ~Reboot /\ ~Edit
    BY <2>2 DEF Die, Exit, Reboot, Edit
  <2>6. ~ActivationFails /\ ~ManagerStops /\ ~ManagerForgets
    BY <2>1 DEF ActivationFails, ManagerStops, ManagerForgets
  <2>7. Launch => loaded' = loaded
    BY DEF Launch
  <2> QED
    BY <2>3, <2>4, <2>5, <2>6, <2>7 DEF InstallNext
<1> QED
  BY <1>1, InstallInvariant, PTL DEF InstallSpec, ForeignIsLeft
=============================================================================
