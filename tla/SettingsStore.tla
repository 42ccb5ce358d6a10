----------------------------- MODULE SettingsStore -----------------------------
(***************************************************************************)
(* The settings on disk, in the control service, and on their way from one *)
(* to the other.  PUT handlers run in a thread pool; each                  *)
(*     reads the stored version, writes row and metadata, updates memory,  *)
(* the first outside any transaction, the second in one, the third under   *)
(* the service's lock, and nothing holds the three together.  A settings   *)
(* object is kept as its version and its sensor_commissioned flag.         *)
(*                                                                         *)
(* A start binds the row to the release's temperature source, except in    *)
(* development mode, where a simulated sensor is read and nothing is bound *)
(* but PUT goes on approving under the source bound last.  Releases before *)
(* the source was recorded neither bind nor keep the metadata; theirs is   *)
(* the rollback of tests/integration/test_m1_sqlite.py.                    *)
(***************************************************************************)
EXTENDS Integers

CONSTANTS Threads,       \* PUT handlers under way at once
          Sources,       \* temperature sources of releases that bind theirs
          LegacySource,  \* the source of the releases that keep no metadata
          Simulated,     \* the sensor of a process in development mode
          None,
          MaxVersion     \* bound on settings_version

ASSUME SettingsAssumption ==
    /\ None \notin Sources \cup {LegacySource, Simulated} /\ LegacySource # Simulated
    /\ LegacySource \notin Sources /\ Simulated \notin Sources
    /\ MaxVersion \in Nat \ {0}

VARIABLES
    row,       \* the settings row; a commissioning was made on the sensor "by",
               \* while the metadata named the source "bound"
    meta,      \* runtime_metadata: active source, commissioned source and version
    mem,       \* ControlService._settings
    running,   \* the source of the release that runs, None between two
    puts,      \* what each PUT handler is about to do
    overlap    \* history: two PUT handlers were at work at once since the start

vars == <<row, meta, mem, running, puts, overlap>>

Anyone == Sources \cup {LegacySource, Simulated}
Settings == [version : 1..MaxVersion, commissioned : BOOLEAN,
             by : Anyone \cup {None}, bound : Sources \cup {None}]
Metadata == [active : Sources \cup {None}, source : Sources \cup {None}, version : 0..MaxVersion]
Stages == {"idle", "write", "update"}

Default == [version |-> 1, commissioned |-> FALSE, by |-> None, bound |-> None]
NoRow   == [Default EXCEPT !.version = 0]
Resting == [stage |-> "idle", settings |-> Default]

\* Mutant: a database without settings is not given the default ones.
LoadedAsIs(r) == r

Loaded(r) == IF r = NoRow THEN Default ELSE r

Binds == running \in Sources
Cleared(m) == [m EXCEPT !.source = None, !.version = 0]     \* _clear_commissioning_approval

Init ==
    /\ row = NoRow /\ meta = [active |-> None, source |-> None, version |-> 0]
    /\ mem = Default /\ running = None
    /\ puts = [t \in Threads |-> Resting] /\ overlap = FALSE

-----------------------------------------------------------------------------
(* bind_sensor_source, in one transaction. *)

\* Mutant: the version that was approved is not compared.
ApprovedSource(s) == row.commissioned /\ meta.source = s

Approved(s) == row.commissioned /\ meta.source = s /\ meta.version = row.version

Unapproved == [Default EXCEPT !.version = row.version + 1]

BoundRow(s) == IF row.commissioned /\ ~(meta.active = s /\ Approved(s)) THEN Unapproved ELSE row

BoundMeta(s) ==
    IF meta.active = s /\ Approved(s) THEN meta
    ELSE [Cleared(meta) EXCEPT !.active = s]

Start(s) ==
    /\ running = None
    /\ BoundRow(s).version <= MaxVersion
    /\ row' = BoundRow(s) /\ meta' = BoundMeta(s) /\ mem' = Loaded(BoundRow(s))
    /\ running' = s /\ overlap' = FALSE
    /\ UNCHANGED puts

(* A start that binds nothing: the settings are those on disk. *)
StartUnbound(source) ==
    /\ running = None
    /\ mem' = Loaded(row) /\ running' = source /\ overlap' = FALSE
    /\ UNCHANGED <<row, meta, puts>>

DevelopmentStart == StartUnbound(Simulated)
LegacyStart      == StartUnbound(LegacySource)

(* The process ends; a write that is not committed leaves nothing. *)
Stop ==
    /\ running # None
    /\ running' = None /\ puts' = [t \in Threads |-> Resting]
    /\ UNCHANGED <<row, meta, mem, overlap>>

-----------------------------------------------------------------------------
(* PUT /api/v1/settings *)

(* save up to its check: the version must follow the one read here, if     *)
(* there is one.                                                           *)
Read(t, version, commissioned) ==
    /\ running # None /\ puts[t].stage = "idle"
    /\ row = NoRow \/ version = row.version + 1
    /\ puts' = [puts EXCEPT ![t] =
                  [stage |-> "write",
                   settings |-> [version |-> version, commissioned |-> commissioned,
                                 by    |-> IF commissioned THEN running ELSE None,
                                 bound |-> IF commissioned THEN meta.active ELSE None]]]
    /\ overlap' = (overlap \/ \E u \in Threads : puts[u].stage # "idle")
    /\ UNCHANGED <<row, meta, mem, running>>

(* What save leaves of the metadata: a commissioning is approved under the *)
(* active source, if there is one, whatever sensor this process reads.     *)
Approval(settings) ==
    IF running = LegacySource THEN meta
    ELSE IF ~settings.commissioned THEN Cleared(meta)
    ELSE IF meta.active = None THEN meta
    ELSE [meta EXCEPT !.source = meta.active, !.version = settings.version]

\* Mutant: the service goes on with the settings it has.
WriteUntold(t) ==
    /\ puts[t].stage = "write"
    /\ row' = puts[t].settings /\ meta' = Approval(puts[t].settings)
    /\ puts' = [puts EXCEPT ![t] = Resting]
    /\ UNCHANGED <<mem, running, overlap>>

(* The rest of save: one transaction, from its first INSERT on. *)
Write(t) ==
    /\ puts[t].stage = "write"
    /\ row' = puts[t].settings /\ meta' = Approval(puts[t].settings)
    /\ puts' = [puts EXCEPT ![t].stage = "update"]
    /\ UNCHANGED <<mem, running, overlap>>

(* The database does not take it: nothing is saved, the service faults. *)
WriteFails(t) ==
    /\ puts[t].stage = "write"
    /\ puts' = [puts EXCEPT ![t] = Resting]
    /\ UNCHANGED <<row, meta, mem, running, overlap>>

(* service.update_settings *)
Update(t) ==
    /\ puts[t].stage = "update"
    /\ mem' = puts[t].settings
    /\ puts' = [puts EXCEPT ![t] = Resting]
    /\ UNCHANGED <<row, meta, running, overlap>>

Next ==
    \/ \E s \in Sources : Start(s)
    \/ DevelopmentStart \/ LegacyStart \/ Stop
    \/ \E t \in Threads, version \in 1..MaxVersion, commissioned \in BOOLEAN :
          Read(t, version, commissioned)
    \/ \E t \in Threads : Write(t) \/ WriteFails(t) \/ Update(t)

Spec == Init /\ [][Next]_vars

-----------------------------------------------------------------------------
(* Properties *)

(* Every variable stays within its type. *)
TypeOK ==
    /\ row \in Settings \cup {NoRow} /\ meta \in Metadata /\ mem \in Settings
    /\ running \in Anyone \cup {None}
    /\ puts \in [Threads -> [stage : Stages, settings : Settings]]
    /\ overlap \in BOOLEAN

(* A release that binds its source never holds a commissioning made under  *)
(* another one, neither in memory, which automatic supply rests on, nor on *)
(* disk: through replacements, rollbacks to a release that keeps no        *)
(* metadata, restarts between any two steps and overlapping PUTs.  It was  *)
(* made by a release with this very sensor, or by a process in development *)
(* mode that followed one: that commissioning, made on a simulated sensor, *)
(* the release takes for its own.                                          *)
CommissionedForThisSource ==
    Binds => \A settings \in {mem, row} : settings.commissioned =>
                 settings.bound = running /\ settings.by \in {running, Simulated}

(* The settings the service runs on are those on disk, once no PUT is      *)
(* under way, as long as no two of them have overlapped since the start.   *)
MemoryFollowsStore ==
    running # None /\ ~overlap /\ (\A t \in Threads : puts[t].stage = "idle")
        => mem = Loaded(row)

(* docs/superpowers/plans/2026-09-11-m0-control-core-implementation.md:378:*)
(* "save must reject any version not exactly one greater than the stored   *)
(* version, yielding a version-conflict error."                            *)
SaveFollowsStored ==
    [][\A t \in Threads : puts[t].stage = "write" /\ puts'[t].stage = "update" /\ row # NoRow
          => row'.version = row.version + 1]_vars
=============================================================================
