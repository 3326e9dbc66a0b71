----------------------------- MODULE AdminLayers ------------------------------
(***************************************************************************)
(* The managed env block of the Claude settings file                       *)
(* (claude_settings_env.py): an admin store and a deploy-time layer are    *)
(* projected into a file that operators also edit by hand.  The store      *)
(* remembers which keys the last projection wrote.  Admin calls run on     *)
(* threads of one process; only the store's writes are locked.             *)
(*                                                                         *)
(* Credential overlays of MCP servers (mcp_plugin_overlay.py): an admin    *)
(* file over a deploy-time layer, merged by name into the servers the      *)
(* gateway and the installed plugins declare when a session is created.    *)
(* Admin calls run on threads; the file's read-modify-write is locked, the *)
(* reload of the copy in memory is not.                                    *)
(***************************************************************************)
EXTENDS Integers, FiniteSets

CONSTANTS
    Threads,        \* threads of admin calls
    EnvKeys,        \* keys of the env block
    MaxChange,      \* bound on the changes of the env block
    MaxCrash,       \* bound on the restarts
    Names,          \* names of MCP servers
    MaxEdit,        \* bound on the edits of overlays and plugins
    None

VARIABLES
    file,           \* of each env key in the settings file: "none", "hand" or "gw"
    store,          \* the admin's keys and the projected ones, on disk
    mem,            \* the same, as the process last read or wrote them
    layer,          \* the keys GATEWAY_CLAUDE_SETTINGS_ENV declares
    th,             \* where each thread is, the file it read, the keys it wrote
    hand,           \* the keys the operator added and has not removed
    managed,        \* the keys that were ever declared
    changes,
    crashes,
    disk,           \* the overlay file
    loaded,         \* _overlays
    envLayer,       \* GATEWAY_MCP_SERVER_ENV, as it was loaded
    plugins,        \* the names installed plugins declare, and by whom first
    gateway,        \* the names MCP_CONFIG and the manifest declare
    ov,             \* where each thread is and the file it loaded
    given,          \* the overlay each name was last given
    edits

settingsVars == <<file, store, mem, layer, th, hand, managed, changes, crashes>>

Idle == [pc |-> "idle", cur |-> [k \in EnvKeys |-> "none"], written |-> {}]
Nothing == [env |-> {}, proj |-> {}]
Effective == layer \cup mem.env

SettingsTypes ==
  /\ file \in [EnvKeys -> {"none", "hand", "gw"}]
  /\ store \in [env : SUBSET EnvKeys, proj : SUBSET EnvKeys] /\ mem \in [env : SUBSET EnvKeys, proj : SUBSET EnvKeys]
  /\ layer \subseteq EnvKeys /\ hand \subseteq EnvKeys /\ managed \subseteq EnvKeys
  /\ th \in [Threads -> [pc : {"idle", "reload", "project", "write", "remember"},
                         cur : [EnvKeys -> {"none", "hand", "gw"}], written : SUBSET EnvKeys]]
  /\ changes \in 0..MaxChange /\ crashes \in 0..MaxCrash

SettingsInit ==
  /\ file = [k \in EnvKeys |-> "none"] /\ store = Nothing /\ mem = Nothing /\ layer = {}
  /\ th = [t \in Threads |-> Idle] /\ hand = {} /\ managed = {} /\ changes = 0 /\ crashes = 0

At(t, pc) == th[t].pc = pc
Go(t, pc) == th' = [th EXCEPT ![t].pc = pc]
Quiet == \A t \in Threads : At(t, "idle")

\* replace_admin_env, clear_admin_env: the store is read and rewritten under
\* the lock.
Replace(t, E) ==
  /\ At(t, "idle") /\ changes < MaxChange
  /\ store' = [store EXCEPT !.env = E]
  /\ Go(t, "reload") /\ changes' = changes + 1 /\ managed' = managed \cup E
  /\ UNCHANGED <<file, mem, layer, hand, crashes>>

\* The service's reproject, and the second half of a change.
Reload(t) ==
  /\ At(t, "reload") \/ (At(t, "idle") /\ changes < MaxChange)
  /\ changes' = IF At(t, "idle") THEN changes + 1 ELSE changes
  /\ mem' = store /\ Go(t, "project")
  /\ UNCHANGED <<file, store, layer, hand, managed, crashes>>

\* project: the file is read; one that does not parse is left alone.
ReadSettings(t, ok) ==
  /\ At(t, "project")
  /\ th' = [th EXCEPT ![t] = IF ok THEN [@ EXCEPT !.pc = "write", !.cur = file] ELSE Idle]
  /\ UNCHANGED <<file, store, mem, layer, hand, managed, changes, crashes>>

\* Mutant: every key that is not declared is pruned.
KeptNone(t, k) == "none"

\* What becomes of a key the gateway does not declare: one it wrote is pruned.
Kept(t, k) == IF k \in mem.proj THEN "none" ELSE th[t].cur[k]

WriteSettings(t, ok) ==
  /\ At(t, "write")
  /\ IF ok THEN
       /\ file' = [k \in EnvKeys |-> IF k \in Effective THEN "gw" ELSE Kept(t, k)]
       /\ th' = [th EXCEPT ![t] = [@ EXCEPT !.pc = "remember", !.written = Effective]]
     ELSE th' = [th EXCEPT ![t] = Idle] /\ UNCHANGED file
  /\ UNCHANGED <<store, mem, layer, hand, managed, changes, crashes>>

\* What was written is remembered, in the store and in memory.
Remember(t) ==
  /\ At(t, "remember")
  /\ store' = [store EXCEPT !.proj = th[t].written]
  /\ mem' = [mem EXCEPT !.proj = th[t].written]
  /\ th' = [th EXCEPT ![t] = Idle]
  /\ UNCHANGED <<file, layer, hand, managed, changes, crashes>>

\* The gateway restarts, with another layer if the operator changed it:
\* project_at_startup.
Restart(L) ==
  /\ crashes < MaxCrash /\ crashes' = crashes + 1
  /\ layer' = L /\ mem' = store /\ managed' = managed \cup L
  /\ \E t \in Threads :
       th' = [u \in Threads |->
                IF u = t /\ (L \cup store.env # {} \/ store.proj # {}) THEN [Idle EXCEPT !.pc = "project"] ELSE Idle]
  /\ UNCHANGED <<file, store, hand, changes>>

\* The operator edits the file, while the gateway does not.
HandEdit(k) ==
  /\ Quiet /\ changes < MaxChange /\ changes' = changes + 1
  /\ \/ file' = [file EXCEPT ![k] = "hand"] /\ hand' = hand \cup {k}
     \/ file' = [file EXCEPT ![k] = "none"] /\ hand' = hand \ {k}
  /\ UNCHANGED <<store, mem, layer, th, managed, crashes>>

SettingsNext ==
  \/ \E t \in Threads :
       \/ Reload(t) \/ Remember(t)
       \/ \E E \in SUBSET EnvKeys : Replace(t, E)
       \/ \E ok \in BOOLEAN : ReadSettings(t, ok) \/ WriteSettings(t, ok)
  \/ \E L \in SUBSET EnvKeys : Restart(L)
  \/ \E k \in EnvKeys : HandEdit(k)

SettingsSpec == SettingsInit /\ [][SettingsNext]_settingsVars

\* A key the operator added and the gateway was never told to manage stays in
\* the file, whatever projections run and however they are cut off.
HandKeysStay == \A k \in hand \ managed : file[k] = "hand"

-----------------------------------------------------------------------------
(* The credential overlays of MCP servers.                                 *)

\* An overlay is the set of the keys it gives a value; {} is no overlay.
OverlayKeys == {"x", "y"}
Overlays == [Names -> SUBSET OverlayKeys]

overlayVars == <<disk, loaded, envLayer, plugins, gateway, ov, given, edits>>

OverlayTypes ==
  /\ disk \in Overlays /\ loaded \in Overlays /\ envLayer \in Overlays /\ given \in Overlays
  /\ plugins \in [Names -> {"none", "first", "second"}] /\ gateway \subseteq Names
  /\ ov \in [Threads -> [pc : {"idle", "reload", "bind"}, data : Overlays]] /\ edits \in 0..MaxEdit

NoOverlay == [n \in Names |-> {}]

OverlayInit ==
  /\ disk = NoOverlay /\ loaded = NoOverlay /\ given = NoOverlay
  /\ envLayer \in {[n \in Names |-> IF n = m THEN {"x"} ELSE {}] : m \in Names}
  /\ plugins \in {[n \in Names |-> IF n = m THEN w ELSE "none"] : m \in Names, w \in {"first", "second"}}
  /\ gateway \in SUBSET Names
  /\ ov = [t \in Threads |-> [pc |-> "idle", data |-> NoOverlay]] /\ edits = 0

\* Mutant: the change is applied to the copy in memory.
LoadedMem == loaded

\* The file as a writer reads it.
Loaded == disk

\* upsert_overlay, of a server some plugin declares, and delete_overlay (K = {}).
Upsert(t, n, K) ==
  /\ K # {} => plugins[n] # "none"
  /\ ov[t].pc = "idle" /\ edits < MaxEdit /\ edits' = edits + 1
  /\ disk' = [Loaded EXCEPT ![n] = K] /\ given' = [given EXCEPT ![n] = K]
  /\ ov' = [ov EXCEPT ![t].pc = "reload"]
  /\ UNCHANGED <<loaded, envLayer, plugins, gateway>>

\* reload_overlays: the file is read, and the copy bound later.
ReloadOverlays(t) ==
  /\ ov[t].pc = "reload"
  /\ ov' = [ov EXCEPT ![t] = [pc |-> "bind", data |-> disk]]
  /\ UNCHANGED <<disk, loaded, envLayer, plugins, gateway, given, edits>>

Bind(t) ==
  /\ ov[t].pc = "bind"
  /\ loaded' = ov[t].data /\ ov' = [ov EXCEPT ![t].pc = "idle"]
  /\ UNCHANGED <<disk, envLayer, plugins, gateway, given, edits>>

\* A plugin that declares a server comes or goes.
Installs(n, w) ==
  /\ edits < MaxEdit /\ edits' = edits + 1 /\ plugins[n] # w
  /\ plugins' = [plugins EXCEPT ![n] = w]
  /\ UNCHANGED <<disk, loaded, envLayer, gateway, ov, given>>

OverlayNext ==
  \/ \E t \in Threads : ReloadOverlays(t) \/ Bind(t) \/ \E n \in Names, K \in SUBSET OverlayKeys : Upsert(t, n, K)
  \/ \E n \in Names, w \in {"none", "first", "second"} : Installs(n, w)

OverlaySpec == OverlayInit /\ [][OverlayNext]_overlayVars

(* What a session gets, and what the admin's test probes. *)

\* get_effective_overlays: of each key, the layer its value comes from.
EffectiveOverlay(n) == [k \in loaded[n] \cup envLayer[n] |-> IF k \in loaded[n] THEN "file" ELSE "env"]

\* merge_overlay_into_config: the overlay's keys win.
Merged(base, over) == [base |-> base, creds |-> over]

\* apply_overlays: a plugin's server wins with an overlay, the gateway's
\* without; an overlay that nothing declares is stale.
Session(n) ==
  IF plugins[n] # "none" /\ (loaded[n] \cup envLayer[n] # {} \/ n \notin gateway)
  THEN Merged(plugins[n], EffectiveOverlay(n))
  ELSE IF n \in gateway THEN Merged("gateway", EffectiveOverlay(n)) ELSE None

\* test_connection: the gateway's server with the layer's overlay, or else
\* materialize_plugin_server.
Probe(n) ==
  IF n \in gateway THEN Merged("gateway", [k \in envLayer[n] |-> "env"])
  ELSE IF plugins[n] # "none" THEN Merged(plugins[n], EffectiveOverlay(n)) ELSE None

\* An overlay stays in the file as it was given, and reaches the session's
\* server of that name, whatever the other admin saves.
OverlayIsKept ==
  /\ disk = given
  /\ (\A t \in Threads : ov[t].pc = "idle") /\ loaded = disk =>
       \A n \in Names : given[n] # {} /\ (plugins[n] # "none" \/ n \in gateway) =>
         \A k \in given[n] : Session(n).creds[k] = "file"

\* The admin's connection test probes what a new session would run, of a
\* server that only a plugin declares; of a name the gateway declares too it
\* probes the gateway's server, without the file's overlay.
ProbeIsSession == \A n \in Names \ gateway : Probe(n) = Session(n)

-----------------------------------------------------------------------------
\* The two parts share no state.
SettingsStep == SettingsNext /\ UNCHANGED overlayVars
OverlayStep == OverlayNext /\ UNCHANGED settingsVars
=============================================================================
