------------------------- MODULE SettingsStore_proofs -------------------------
(***************************************************************************)
(* SettingsStore for any number of PUT handlers and any set of sources.    *)
(***************************************************************************)
EXTENDS SettingsStore, TLAPS

-----------------------------------------------------------------------------
(* Every variable keeps its type. *)

LEMMA Defaults ==
    /\ Default \in Settings /\ Resting \in [stage : Stages, settings : Settings]
    /\ NoRow.version = 0 /\ ~NoRow.commissioned /\ ~Default.commissioned
  BY SettingsAssumption DEF Default, NoRow, Resting, Settings, Stages

(* A row that is there is loaded as it is. *)
LEMMA LoadedFacts ==
    ASSUME NEW r \in Settings \cup {NoRow}
    PROVE  /\ Loaded(r) \in Settings /\ r.version \in 0..MaxVersion
           /\ Loaded(r).commissioned => Loaded(r) = r
  BY SettingsAssumption, Defaults DEF Loaded, Settings

(* What is made of the metadata is metadata. *)
LEMMA MetadataFacts ==
    ASSUME NEW m \in Metadata, NEW a \in Sources \cup {None}, NEW v \in 0..MaxVersion
    PROVE  /\ Cleared(m) \in Metadata /\ Cleared(m).active = m.active
           /\ Cleared(m).source = None /\ Cleared(m).version = 0
           /\ [m EXCEPT !.active = a] \in Metadata
           /\ [m EXCEPT !.source = a, !.version = v] \in Metadata
<1> DEFINE A == Sources \cup {None}
           V == 0..MaxVersion
<1>1. m \in [active : A, source : A, version : V] /\ a \in A /\ v \in V
  BY DEF Metadata
<1>2. 0 \in V /\ None \in A
  BY SettingsAssumption
<1>3. Metadata = [active : A, source : A, version : V]
  BY DEF Metadata
<1> HIDE DEF A, V
<1> QED
  BY <1>1, <1>2, <1>3 DEF Cleared

(* What save makes of the metadata. *)
LEMMA ApprovalFacts ==
    ASSUME meta \in Metadata, NEW settings \in Settings
    PROVE  /\ Approval(settings) \in Metadata /\ Approval(settings).active = meta.active
           /\ running = LegacySource \/ (settings.commissioned /\ meta.active = None)
                 => Approval(settings) = meta
           /\ running # LegacySource /\ ~settings.commissioned
                 => Approval(settings).source = None /\ Approval(settings).version = 0
           /\ running # LegacySource /\ settings.commissioned /\ meta.active # None
                 => /\ Approval(settings).source = meta.active
                    /\ Approval(settings).version = settings.version
<1>1. settings.version \in 0..MaxVersion /\ meta.active \in Sources \cup {None}
  BY DEF Metadata, Settings
<1>2. [meta EXCEPT !.source = meta.active, !.version = settings.version] \in Metadata
  BY <1>1, MetadataFacts
<1>3. /\ Cleared(meta) \in Metadata /\ Cleared(meta).active = meta.active
      /\ Cleared(meta).source = None /\ Cleared(meta).version = 0
  BY <1>1, MetadataFacts
<1>4. CASE running = LegacySource \/ (settings.commissioned /\ meta.active = None)
  BY <1>4 DEF Approval, Settings
<1>5. CASE running # LegacySource /\ ~settings.commissioned
  BY <1>3, <1>5 DEF Approval
<1>6. CASE running # LegacySource /\ settings.commissioned /\ meta.active # None
  <2>1. Approval(settings) = [meta EXCEPT !.source = meta.active, !.version = settings.version]
    BY <1>6 DEF Approval
  <2> QED
    BY <1>2, <1>6, <2>1 DEF Metadata
<1> QED
  BY <1>4, <1>5, <1>6 DEF Settings

LEMMA TypeInit == Init => TypeOK
<1> SUFFICES ASSUME Init PROVE TypeOK
  OBVIOUS
<1>1. meta \in Metadata
  BY SettingsAssumption DEF Init, Metadata
<1>2. puts \in [Threads -> [stage : Stages, settings : Settings]]
  BY Defaults DEF Init
<1> QED
  BY <1>1, <1>2, Defaults DEF Init, TypeOK

LEMMA TypeStep == TypeOK /\ [Next]_vars => TypeOK'
<1> SUFFICES ASSUME TypeOK, [Next]_vars PROVE TypeOK'
  OBVIOUS
<1> USE SettingsAssumption
<1>1. ASSUME NEW s \in Sources, Start(s) PROVE TypeOK'
  <2>1. BoundRow(s) \in Settings \cup {NoRow}
    <3>1. CASE row.commissioned /\ ~(meta.active = s /\ Approved(s))
      <4>1. row \in Settings /\ row.version + 1 \in 1..MaxVersion
        BY <1>1, <3>1, Defaults DEF Start, BoundRow, Unapproved, Default, TypeOK, Settings
      <4> QED
        BY <3>1, <4>1, Defaults DEF BoundRow, Unapproved, Settings
    <3> QED
      BY <3>1 DEF BoundRow, TypeOK
  <2>2. BoundMeta(s) \in Metadata
    <3>1. [Cleared(meta) EXCEPT !.active = s] \in Metadata
      BY MetadataFacts DEF TypeOK, Metadata
    <3> QED
      BY <3>1 DEF BoundMeta, TypeOK
  <2> QED
    BY <1>1, <2>1, <2>2, LoadedFacts DEF Start, TypeOK, Anyone
<1>2. CASE DevelopmentStart \/ LegacyStart
  BY <1>2, LoadedFacts DEF DevelopmentStart, LegacyStart, StartUnbound, TypeOK, Anyone
<1>3. CASE Stop
  BY <1>3, Defaults DEF Stop, TypeOK
<1>4. ASSUME NEW t \in Threads, NEW version \in 1..MaxVersion, NEW commissioned \in BOOLEAN,
             Read(t, version, commissioned)
      PROVE TypeOK'
  <2> DEFINE new == [version |-> version, commissioned |-> commissioned,
                     by |-> IF commissioned THEN running ELSE None,
                     bound |-> IF commissioned THEN meta.active ELSE None]
  <2>1. new \in Settings
    BY <1>4 DEF Read, TypeOK, Settings, Metadata
  <2>2. puts' \in [Threads -> [stage : Stages, settings : Settings]]
    BY <1>4, <2>1 DEF Read, TypeOK, Stages
  <2> QED
    BY <1>4, <2>2 DEF Read, TypeOK
<1>5. ASSUME NEW t \in Threads, Write(t) PROVE TypeOK'
  <2>1. row' \in Settings
    BY <1>5 DEF Write, TypeOK
  <2>2. meta' \in Metadata
    BY <1>5, ApprovalFacts DEF Write, TypeOK
  <2> QED
    BY <1>5, <2>1, <2>2 DEF Write, TypeOK, Stages
<1>6. ASSUME NEW t \in Threads, WriteFails(t) PROVE TypeOK'
  BY <1>6, Defaults DEF WriteFails, TypeOK
<1>7. ASSUME NEW t \in Threads, Update(t) PROVE TypeOK'
  BY <1>7, Defaults DEF Update, TypeOK
<1>8. CASE UNCHANGED vars
  BY <1>8 DEF vars, TypeOK
<1> QED
  BY <1>1, <1>2, <1>3, <1>4, <1>5, <1>6, <1>7, <1>8 DEF Next

(* Every variable stays within its type, whatever the handlers and the     *)
(* releases do: no version leaves its range.                               *)
THEOREM TypeCorrectness == Spec => []TypeOK
  BY TypeInit, TypeStep, PTL DEF Spec

-----------------------------------------------------------------------------
(* What makes CommissionedForThisSource inductive: the metadata may be     *)
(* older than the row, because a release that keeps none has changed the   *)
(* row since, but then its version is behind the row's, for ever.          *)

(* Nothing is under way while no release runs. *)
AtRest == running = None => \A t \in Threads : puts[t].stage = "idle"

(* A release that binds its source has it on record. *)
ActiveIsRunning == Binds => meta.active = running

(* A commissioning was made under a source, by a release or a process in    *)
(* development mode.                                                       *)
MadeUnder(settings, source) ==
    settings.bound = source /\ settings.by \in {source, Simulated}

(* An approval of the row's very version names the source it was made      *)
(* under.                                                                  *)
ApprovalIsTrue ==
    /\ meta.version <= row.version
    /\ meta.active = None => meta.source = None /\ meta.version = 0
    /\ row.commissioned /\ meta.source # None /\ meta.version = row.version
          => MadeUnder(row, meta.source)

(* What a PUT is about to store is commissioned by the process that runs,  *)
(* under the source it finds active, and is new to metadata that will not  *)
(* be told of it.                                                          *)
PutsAreTrue ==
    \A t \in Threads : puts[t].stage # "idle" =>
        /\ puts[t].settings.commissioned =>
              puts[t].settings.by = running /\ puts[t].settings.bound = meta.active
        /\ running = LegacySource /\ puts[t].stage = "write"
              => meta.version < puts[t].settings.version

IInv ==
    /\ TypeOK /\ AtRest /\ ActiveIsRunning /\ ApprovalIsTrue /\ PutsAreTrue
    /\ CommissionedForThisSource

LEMMA InvInit == Init => IInv
<1> SUFFICES ASSUME Init PROVE IInv
  OBVIOUS
<1>1. TypeOK
  BY TypeInit
<1> QED
  BY <1>1, SettingsAssumption, Defaults
  DEF IInv, Init, AtRest, ActiveIsRunning, ApprovalIsTrue, MadeUnder, PutsAreTrue,
     Binds, CommissionedForThisSource, Resting

LEMMA InvStep == IInv /\ [Next]_vars => IInv'
<1> SUFFICES ASSUME IInv, [Next]_vars PROVE IInv'
  OBVIOUS
<1> USE SettingsAssumption
<1>0. TypeOK /\ TypeOK'
  BY TypeStep DEF IInv
<1>1. ASSUME NEW s \in Sources, Start(s) PROVE IInv'
  <2>1. row'.commissioned => /\ row' = row /\ meta' = meta /\ meta.active = s
                             /\ MadeUnder(row, s) /\ mem' = row
    <3>1. row'.commissioned => row' = row /\ meta.active = s /\ Approved(s)
      BY <1>1, Defaults DEF Start, BoundRow, Unapproved, Default
    <3>2. Approved(s) => MadeUnder(row, s)
      BY DEF Approved, IInv, ApprovalIsTrue
    <3> QED
      BY <1>0, <1>1, <3>1, <3>2, LoadedFacts, Defaults DEF Start, BoundMeta, Loaded, TypeOK
  <2>2. ApprovalIsTrue'
    <3>1. CASE meta.active = s /\ Approved(s)
      BY <1>0, <1>1, <3>1 DEF Start, BoundRow, BoundMeta, IInv, ApprovalIsTrue, MadeUnder
    <3>2. CASE ~(meta.active = s /\ Approved(s))
      <4>1. meta' = [Cleared(meta) EXCEPT !.active = s] /\ meta'.source = None /\ meta'.version = 0
            /\ meta'.active = s
        BY <1>0, <1>1, <3>2 DEF Start, BoundMeta, Cleared, TypeOK, Metadata
      <4>2. row'.version \in 0..MaxVersion
        BY <1>0, LoadedFacts DEF TypeOK
      <4> QED
        BY <4>1, <4>2 DEF ApprovalIsTrue
    <3> QED
      BY <3>1, <3>2
  <2>3. ActiveIsRunning' /\ AtRest'
    BY <1>0, <1>1 DEF Start, BoundMeta, Cleared, ActiveIsRunning, AtRest, TypeOK, Metadata
  <2>4. PutsAreTrue'
    BY <1>1 DEF Start, PutsAreTrue, AtRest, IInv
  <2>5. CommissionedForThisSource'
    <3>1. mem'.commissioned => mem' = row'
      BY <1>0, <1>1, LoadedFacts DEF Start, TypeOK
    <3> QED
      BY <1>1, <2>1, <3>1 DEF Start, CommissionedForThisSource, MadeUnder
  <2> QED
    BY <1>0, <2>2, <2>3, <2>4, <2>5 DEF IInv
<1>2. CASE DevelopmentStart \/ LegacyStart
  BY <1>0, <1>2 DEF DevelopmentStart, LegacyStart, StartUnbound, IInv, AtRest, ActiveIsRunning,
     ApprovalIsTrue, MadeUnder, PutsAreTrue, Binds, CommissionedForThisSource
<1>3. CASE Stop
  BY <1>0, <1>3 DEF Stop, IInv, AtRest, ActiveIsRunning, ApprovalIsTrue, MadeUnder, PutsAreTrue,
     Binds, CommissionedForThisSource, Resting
<1>4. ASSUME NEW t \in Threads, NEW version \in 1..MaxVersion, NEW commissioned \in BOOLEAN,
             Read(t, version, commissioned)
      PROVE IInv'
  <2>1. PutsAreTrue'
    <3> SUFFICES ASSUME NEW u \in Threads, puts'[u].stage # "idle"
                 PROVE /\ puts'[u].settings.commissioned =>
                             puts'[u].settings.by = running /\ puts'[u].settings.bound = meta.active
                       /\ running = LegacySource /\ puts'[u].stage = "write"
                             => meta.version < puts'[u].settings.version
      BY <1>4 DEF Read, PutsAreTrue
    <3>1. CASE u = t
      BY <1>0, <1>4, <3>1, Defaults DEF Read, IInv, ApprovalIsTrue, TypeOK, Settings, Metadata
    <3>2. CASE u # t
      BY <1>0, <1>4, <3>2 DEF Read, IInv, PutsAreTrue, TypeOK
    <3> QED
      BY <3>1, <3>2
  <2> QED
    BY <1>0, <1>4, <2>1 DEF Read, IInv, AtRest, ActiveIsRunning, ApprovalIsTrue, MadeUnder, Binds,
       CommissionedForThisSource
<1>5. ASSUME NEW t \in Threads, Write(t) PROVE IInv'
  <2> DEFINE settings == puts[t].settings
  <2>1. /\ running # None /\ row' = settings /\ meta' = Approval(settings)
        /\ UNCHANGED <<mem, running>> /\ puts[t].stage = "write"
    BY <1>5 DEF Write, IInv, AtRest
  <2>2. settings \in Settings /\ settings.version \in 1..MaxVersion /\ meta \in Metadata
    BY <1>0 DEF TypeOK, Settings
  <2>3. /\ settings.commissioned => settings.by = running /\ settings.bound = meta.active
        /\ running = LegacySource => meta.version < settings.version
    BY <2>1 DEF IInv, PutsAreTrue
  <2>4. /\ meta'.active = meta.active
        /\ running = LegacySource \/ (settings.commissioned /\ meta.active = None) => meta' = meta
        /\ running # LegacySource /\ ~settings.commissioned => meta'.source = None /\ meta'.version = 0
        /\ running # LegacySource /\ settings.commissioned /\ meta.active # None
              => meta'.source = meta.active /\ meta'.version = settings.version
    BY <2>1, <2>2, ApprovalFacts
  <2> HIDE DEF settings
  <2>5. meta.active = None => meta.source = None /\ meta.version = 0
    BY DEF IInv, ApprovalIsTrue
  <2>6. running \in Sources => meta.active = running /\ running # LegacySource
    BY DEF IInv, ActiveIsRunning, Binds
  <2>7. running # LegacySource => running = Simulated \/ running \in Sources
    BY <1>0, <2>1 DEF TypeOK, Anyone
  <2>8. ApprovalIsTrue'
    <3>1. CASE running = LegacySource
      BY <2>1, <2>2, <2>3, <2>4, <2>5, <3>1 DEF ApprovalIsTrue, Metadata
    <3>2. CASE running # LegacySource /\ ~settings.commissioned
      BY <2>1, <2>2, <2>4, <3>2 DEF ApprovalIsTrue
    <3>3. CASE running # LegacySource /\ settings.commissioned /\ meta.active = None
      BY <2>1, <2>2, <2>4, <2>5, <3>3 DEF ApprovalIsTrue
    <3>4. CASE running # LegacySource /\ settings.commissioned /\ meta.active # None
      BY <2>1, <2>2, <2>3, <2>4, <2>6, <2>7, <3>4 DEF ApprovalIsTrue, MadeUnder
    <3> QED
      BY <3>1, <3>2, <3>3, <3>4
  <2>9. ActiveIsRunning'
    BY <2>1, <2>4, <2>6 DEF ActiveIsRunning, Binds
  <2>10. PutsAreTrue'
    <3>1. /\ \A u \in Threads \ {t} : puts'[u] = puts[u]
          /\ puts'[t].stage = "update" /\ puts'[t].settings = settings
      BY <1>0, <1>5 DEF Write, TypeOK, settings
    <3> QED
      BY <2>1, <2>3, <2>4, <3>1 DEF PutsAreTrue, IInv
  <2>11. CommissionedForThisSource'
    BY <2>1, <2>3, <2>6 DEF CommissionedForThisSource, Binds, IInv
  <2>12. AtRest'
    BY <2>1 DEF AtRest
  <2> QED
    BY <1>0, <2>8, <2>9, <2>10, <2>11, <2>12 DEF IInv
<1>6. ASSUME NEW t \in Threads, WriteFails(t) PROVE IInv'
  <2>1. AtRest' /\ PutsAreTrue'
    BY <1>0, <1>6 DEF WriteFails, Resting, AtRest, PutsAreTrue, IInv, TypeOK
  <2> QED
    BY <1>0, <1>6, <2>1 DEF WriteFails, IInv, ActiveIsRunning, ApprovalIsTrue, MadeUnder, Binds,
       CommissionedForThisSource
<1>7. ASSUME NEW t \in Threads, Update(t) PROVE IInv'
  <2>1. AtRest' /\ PutsAreTrue'
    BY <1>0, <1>7 DEF Update, Resting, AtRest, PutsAreTrue, IInv, TypeOK
  <2>2. mem'.commissioned => mem'.by = running /\ mem'.bound = meta.active
    BY <1>7 DEF Update, IInv, PutsAreTrue
  <2> QED
    BY <1>0, <1>7, <2>1, <2>2 DEF Update, IInv, ActiveIsRunning, ApprovalIsTrue, MadeUnder, Binds,
       CommissionedForThisSource
<1>8. CASE UNCHANGED vars
  BY <1>0, <1>8 DEF vars, IInv, AtRest, ActiveIsRunning, ApprovalIsTrue, MadeUnder, PutsAreTrue,
     Binds, CommissionedForThisSource
<1> QED
  BY <1>1, <1>2, <1>3, <1>4, <1>5, <1>6, <1>7, <1>8 DEF Next

(* Automatic supply never rests on a commissioning made under another      *)
(* temperature source, whatever replacements, rollbacks, restarts,         *)
(* processes in development mode and overlapping PUTs there were.          *)
THEOREM CommissioningIsHonest == Spec => []CommissionedForThisSource
<1>1. IInv => CommissionedForThisSource
  BY DEF IInv
<1> QED
  BY InvInit, InvStep, <1>1, PTL DEF Spec

-----------------------------------------------------------------------------
(* What makes MemoryFollowsStore inductive: where the one PUT stands. *)

OnePut ==
    running # None /\ ~overlap =>
        /\ \A t, u \in Threads : puts[t].stage # "idle" /\ puts[u].stage # "idle" => t = u
        /\ (\A t \in Threads : puts[t].stage # "update") => mem = Loaded(row)
        /\ \A t \in Threads : puts[t].stage = "update"
              => row = puts[t].settings /\ Loaded(row) = row

MInv == TypeOK /\ AtRest /\ OnePut

LEMMA MemoryStep == MInv /\ [Next]_vars => MInv'
<1> SUFFICES ASSUME MInv, [Next]_vars PROVE MInv'
  OBVIOUS
<1> USE SettingsAssumption DEF MInv
<1>0. TypeOK'
  BY TypeStep
<1>1. ASSUME NEW s \in Sources, Start(s) PROVE MInv'
  BY <1>0, <1>1 DEF Start, AtRest, OnePut
<1>2. CASE DevelopmentStart \/ LegacyStart
  BY <1>0, <1>2 DEF DevelopmentStart, LegacyStart, StartUnbound, AtRest, OnePut
<1>3. CASE Stop
  BY <1>0, <1>3 DEF Stop, AtRest, OnePut, Resting
<1>4. ASSUME NEW t \in Threads, NEW version \in 1..MaxVersion, NEW commissioned \in BOOLEAN,
             Read(t, version, commissioned)
      PROVE MInv'
  <2>1. AtRest'
    BY <1>4 DEF Read, AtRest
  <2>2. ASSUME ~overlap' PROVE ~overlap /\ \A u \in Threads : puts[u].stage = "idle"
    BY <1>4, <2>2 DEF Read, TypeOK
  <2>3. /\ \A u \in Threads \ {t} : puts'[u] = puts[u]
        /\ puts'[t].stage = "write"
    BY <1>4 DEF Read, TypeOK
  <2>4. OnePut'
    BY <1>4, <2>2, <2>3 DEF Read, OnePut
  <2> QED
    BY <1>0, <2>1, <2>4
<1>5. ASSUME NEW t \in Threads, Write(t) PROVE MInv'
  <2>1. /\ \A u \in Threads \ {t} : puts'[u] = puts[u]
        /\ puts'[t].stage = "update" /\ puts'[t].settings = puts[t].settings
    BY <1>5 DEF Write, TypeOK
  <2>2. AtRest'
    BY <1>5, <2>1 DEF Write, AtRest
  <2>3. OnePut'
    <3>1. row' = puts[t].settings /\ Loaded(row') = row'
      BY <1>5, Defaults, SettingsAssumption DEF Write, Loaded, TypeOK, Settings
    <3> QED
      BY <1>5, <2>1, <3>1 DEF Write, OnePut
  <2> QED
    BY <1>0, <2>2, <2>3
<1>6. ASSUME NEW t \in Threads, WriteFails(t) PROVE MInv'
  <2>1. (\A u \in Threads \ {t} : puts'[u] = puts[u]) /\ puts'[t].stage = "idle"
    BY <1>6 DEF WriteFails, Resting, TypeOK
  <2>2. AtRest' /\ OnePut'
    BY <1>6, <2>1 DEF WriteFails, AtRest, OnePut
  <2> QED
    BY <1>0, <2>2
<1>7. ASSUME NEW t \in Threads, Update(t) PROVE MInv'
  <2>1. (\A u \in Threads \ {t} : puts'[u] = puts[u]) /\ puts'[t].stage = "idle"
    BY <1>7 DEF Update, Resting, TypeOK
  <2>2. AtRest' /\ OnePut'
    BY <1>7, <2>1 DEF Update, AtRest, OnePut
  <2> QED
    BY <1>0, <2>2
<1>8. CASE UNCHANGED vars
  BY <1>0, <1>8 DEF vars, AtRest, OnePut
<1> QED
  BY <1>1, <1>2, <1>3, <1>4, <1>5, <1>6, <1>7, <1>8 DEF Next

(* PUTs that do not overlap leave the service with the settings on disk,   *)
(* also when some of them fail.                                            *)
THEOREM MemoryIsStored == Spec => []MemoryFollowsStore
<1>1. Init => MInv
  BY TypeInit DEF Init, MInv, AtRest, OnePut, Resting
<1>2. MInv => MemoryFollowsStore
  BY DEF MInv, OnePut, MemoryFollowsStore
<1> QED
  BY <1>1, <1>2, MemoryStep, PTL DEF Spec
=============================================================================
