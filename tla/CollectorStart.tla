--------------------------- MODULE CollectorStart ---------------------------
(***************************************************************************)
(* The start of the collector (apps/collector: config.rs, preflight.rs,    *)
(* control.rs, CollectorRuntime::start) with what it calls: the scan of    *)
(* driver packages (driver-package), the loading of plugins                *)
(* (driver-loader), the registration of devices and their read groups      *)
(* (device-manager).                                                       *)
(*                                                                         *)
(* A scalar setting is represented by the ways it can be wrong: `faults`   *)
(* is the set of settings that are empty, zero or out of range, and each   *)
(* validate is the set of faults it refuses.  A driver package is          *)
(* [id, abi, faults, minimum, default, lib]; its library is                *)
(* [opens, entry, size, abi, functions, creates, probes, grammar, caps].   *)
(* An option that is absent is <<>>, the default domain "".                *)
(***************************************************************************)
EXTENDS ProfileChecks, FiniteSets

Seqs == INSTANCE SequencesExt

VARIABLES
  config,     \* the configuration and the directories it names
  stage,      \* the next step of start, or "running", or "failed"
  registry,   \* the ids of the profiles registered
  plugins,    \* the plugins of the factory: [id, lib]
  devices,    \* device id -> instance, for the devices registered
  up,         \* the parts that run
  polls,      \* the poll tasks: [device, interval, items]
  shown       \* device id -> the retained status published for it

startVars == <<config, stage, registry, plugins, devices, up, polls, shown>>

-----------------------------------------------------------------------------
(* config.rs                                                               *)

\* A site or device name that makes a topic: not empty, no separator
TopicSegment(name) == name \notin {"", "a/b"}

MqttOptions == {"mqtt.broker_host", "mqtt.broker_port", "mqtt.keep_alive_zero",
                "mqtt.max_packet_size", "mqtt.publish_capacity", "mqtt.max_inflight",
                "mqtt.will_empty", "mqtt.tls_path"}
PollOptions == {"poll.request_timeout", "poll.backoff_ms", "poll.backoff_factor",
                "poll.shutdown_drain", "poll.default_interval_ms"}
PipelineOptions == {"pipeline.max_batch_size", "pipeline.flush_interval",
                    "pipeline.input_capacity", "pipeline.drain_timeout"}
BufferOptions == {"buffer.db_path", "buffer.memory_records", "buffer.disk_max_bytes",
                  "buffer.retention_zero", "buffer.retention_long", "buffer.drain_timeout"}
RestOptions == {"rest.listen", "rest.concurrency_zero", "rest.concurrency_max"}
ControlOptions == {"control.namespace", "control.credentials_path", "control.timeout_ms",
                   "control.queue_capacity", "control.audit_timeout_ms",
                   "control.shutdown_grace_ms", "control.journal_empty"}

\* What the parts themselves refuse, when they are built
MqttClientConfig == {"mqtt.broker_host", "mqtt.broker_port", "mqtt.keep_alive_long",
                     "mqtt.client_id_nul", "mqtt.reconnect_min", "mqtt.reconnect_order",
                     "mqtt.publish_capacity", "mqtt.max_inflight", "mqtt.password_alone",
                     "mqtt.field_long", "mqtt.tls_empty"}
TlsFiles == {"mqtt.tls_missing"}
PipelineConfig == PipelineOptions \cup {"pipeline.batch_overflow"}
LocalBufferConfig == BufferOptions \ {"buffer.drain_timeout"}
\* A timeout above zero may still be zero in nanoseconds
PollConfig == {"poll.timeout_tiny", "poll.backoff_ms", "poll.backoff_factor", "poll.shutdown_drain"}

AnyOf(c, faults) == c.faults \cap faults # {}

\* The plugins come from package directories or from the legacy section
DriverSourceOk(c) ==
  /\ c.directories # <<>> => c.legacy = <<>> /\ ~AnyOf(c, {"drivers.directory", "drivers.override_id"})
  /\ c.directories = <<>> /\ c.legacy = <<>> => DOMAIN c.overrides = {}
  /\ c.legacy # <<>> => ~AnyOf(c, {"driver.plugin", "driver.manifest_id"})

\* The device of the last will is configured and enabled
WillOk(c) ==
  c.will # <<>> =>
    /\ TopicSegment(c.will[1])
    /\ \E i \in DOMAIN c.devices : c.devices[i].id = c.will[1] /\ c.devices[i].enabled

\* Control needs its build, its settings and REST on the loopback
ControlOk(c) ==
  c.control => c.control_build /\ ~AnyOf(c, ControlOptions) /\ c.listen = "loopback"

validate(c) ==
  /\ TopicSegment(c.site) /\ ~AnyOf(c, {"session_id"})
  /\ c.devices # <<>>
  /\ \A i \in DOMAIN c.devices :
       /\ TopicSegment(c.devices[i].id)
       /\ c.devices[i].driver # "" /\ c.devices[i].profile # ""
  /\ DistinctBy(c.devices, LAMBDA d : d.id)
  /\ WillOk(c)
  /\ DriverSourceOk(c)
  /\ ~AnyOf(c, MqttOptions \cup PollOptions \cup PipelineOptions \cup BufferOptions \cup RestOptions)
  /\ ControlOk(c)

-----------------------------------------------------------------------------
(* driver-package and driver-loader                                        *)

\* A manifest: schema, id, artifacts inside the package, isolation floor
validate_manifest(p) ==
  /\ p.faults \cap {"schema", "json", "no_artifacts", "path_outside", "hash_form"} = {}
  /\ p.id \notin {"", "a/b"}
  /\ p.default >= p.minimum

\* The artifact of this platform: declared, present, inside, as hashed
discover_package(p) ==
  validate_manifest(p) /\ p.faults \cap {"platform", "missing", "symlink", "hash"} = {}

\* One directory: every package sound, no id twice
scan_directories(dir) ==
  /\ \A i \in DOMAIN dir : discover_package(dir[i])
  /\ DistinctBy(dir, LAMBDA p : p.id)

ABI == <<1, 0>>

\* The function table: long enough, of this version, as declared, complete
validate_api(lib, declared) ==
  /\ lib.size # "short"
  /\ lib.abi[1] = ABI[1] /\ lib.abi[2] <= ABI[2]
  /\ declared = lib.abi
  /\ lib.size = "full" /\ lib.functions

load_plugin(lib, declared) == lib.opens /\ lib.entry = "table" /\ validate_api(lib, declared)

\* A deployment may only tighten the isolation a package asks for
OverrideOk(c, p) == p.id \in DOMAIN c.overrides => c.overrides[p.id] >= p.minimum

\* The plugins registered, or <<>> when one package is refused.  A directory is
\* scanned by itself: an id in two directories is refused by add_plugin.
load_drivers(c) ==
  LET all == Seqs!FlattenSeq(c.directories)
      one == c.legacy
  IN IF c.directories # <<>>
       THEN IF /\ \A i \in DOMAIN c.directories : scan_directories(c.directories[i])
               /\ \A i \in DOMAIN all : OverrideOk(c, all[i]) /\ load_plugin(all[i].lib, all[i].abi)
               /\ DistinctBy(all, LAMBDA p : p.id)
              THEN Ok({[id |-> all[i].id, lib |-> all[i].lib] : i \in DOMAIN all})
              ELSE Err("driver")
       ELSE IF one = <<>> THEN Ok({})
       ELSE IF load_plugin(one[1].lib, one[1].abi) THEN Ok({[id |-> one[1].id, lib |-> one[1].lib]})
       ELSE Err("driver")

-----------------------------------------------------------------------------
(* device-manager                                                          *)

LibOf(id) == (CHOOSE p \in plugins : p.id = id).lib
ProfileOf(id) == config.profiles[CHOOSE i \in DOMAIN config.profiles : config.profiles[i].id = id]

\* A plugin of that id is registered, takes the connection and gives a handle
create_driver(d) ==
  (\E p \in plugins : p.id = d.driver) /\ LibOf(d.driver).creates /\ d.connection = "valid"

DefaultInterval == 5
\* Readable properties in their order; the id of an item is its place
generate_read_items(profile) ==
  LET readable == SelectSeq(profile.properties, LAMBDA p : p.readable)
  IN [i \in DOMAIN readable |->
        [item_id |-> i, property |-> readable[i],
         address |-> readable[i].driver_address, expected_type |-> readable[i].raw_type,
         interval |-> IF readable[i].default_interval_ms = -1 THEN DefaultInterval
                      ELSE readable[i].default_interval_ms]]

\* One group per interval, in the order of the items
group_read_items(items) ==
  [ms \in {items[i].interval : i \in DOMAIN items} |->
     SelectSeq(items, LAMBDA item : item.interval = ms)]

DomainOf(d) == IF d.domain = "" THEN ProfileOf(d.profile).domain ELSE d.domain

CanRegisterDevice(d) ==
  /\ d.profile \in registry
  /\ ProfileOf(d.profile).driver_id = d.driver
  /\ ProfileOf(d.profile).domain = DomainOf(d)
  /\ create_driver(d)

Instance(d) ==
  LET items == generate_read_items(ProfileOf(d.profile))
  IN [device |-> d, profile |-> ProfileOf(d.profile), items |-> items,
      groups |-> group_read_items(items)]

\* A disabled device has no poll task
poll_targets(inst) ==
  IF ~inst.device.enabled THEN {}
  ELSE {[device |-> inst.device.id, interval |-> ms, items |-> inst.groups[ms]] :
          ms \in DOMAIN inst.groups}

-----------------------------------------------------------------------------
(* preflight.rs                                                            *)

\* A plugin that offers no check is let through
validate_profile_addresses(profile, lib) ==
  lib.probes => \A i \in DOMAIN profile.properties :
    LET p == profile.properties[i]
    IN p.readable \/ p.writable => p.driver_address \in lib.grammar

validate_capabilities(profile, lib) ==
  lib.probes =>
    /\ (\E i \in DOMAIN profile.properties : profile.properties[i].writable) => "write" \in lib.caps
    /\ profile.commands # <<>> => "write" \in lib.caps
    /\ profile.acquisition \subseteq lib.caps

\* Addresses and capabilities are asked of the first device of each driver
run_preflight ==
  \A i \in DOMAIN config.devices :
    LET d == config.devices[i]
        first == \A j \in 1..(i - 1) : config.devices[j].driver # d.driver
    IN /\ create_driver(d)
       /\ d.profile \in registry
       /\ ProfileOf(d.profile).driver_id = d.driver
       /\ first => /\ validate_profile_addresses(ProfileOf(d.profile), LibOf(d.driver))
                   /\ validate_capabilities(ProfileOf(d.profile), LibOf(d.driver))

-----------------------------------------------------------------------------
(* CollectorRuntime::start                                                 *)

StartInit(configs) ==
  /\ config \in configs
  /\ stage = "validate"
  /\ registry = {} /\ plugins = {} /\ devices = << >>
  /\ up = {} /\ polls = {} /\ shown = << >>

\* An error returned by `?`: the handles are dropped and their parts end; a
\* spawned poll task would be left to itself
Return == stage' = "failed" /\ up' = {} /\ UNCHANGED polls
AtStage(s) == stage = s /\ UNCHANGED config

Validate ==
  /\ AtStage("validate")
  /\ IF validate(config) THEN stage' = "control" /\ UNCHANGED <<up, polls>> ELSE Return
  /\ UNCHANGED <<registry, plugins, devices, shown>>

\* Credentials, journal and policy, before any part is started
LoadControl ==
  /\ AtStage("control")
  /\ IF config.control /\ AnyOf(config, {"control.credentials", "control.journal"})
       THEN Return ELSE stage' = "profiles" /\ UNCHANGED <<up, polls>>
  /\ UNCHANGED <<registry, plugins, devices, shown>>

LoadProfiles ==
  /\ AtStage("profiles")
  /\ registry' = load_dir(registry, config.profiles)
  /\ IF registry' = registry /\ config.profiles # <<>> THEN Return ELSE stage' = "drivers" /\ UNCHANGED <<up, polls>>
  /\ UNCHANGED <<plugins, devices, shown>>

LoadDrivers ==
  /\ AtStage("drivers")
  /\ LET loaded == load_drivers(config)
     IN IF loaded.ok THEN plugins' = loaded.v /\ stage' = "preflight" /\ UNCHANGED <<up, polls>>
        ELSE plugins' = plugins /\ Return
  /\ UNCHANGED <<registry, devices, shown>>

Preflight ==
  /\ AtStage("preflight")
  /\ IF run_preflight THEN stage' = "register" /\ UNCHANGED <<up, polls>> ELSE Return
  /\ UNCHANGED <<registry, plugins, devices, shown>>

Register ==
  /\ AtStage("register")
  /\ IF \A i \in DOMAIN config.devices : CanRegisterDevice(config.devices[i])
       THEN /\ devices' = [id \in {config.devices[i].id : i \in DOMAIN config.devices} |->
                             Instance(config.devices[CHOOSE i \in DOMAIN config.devices :
                                                       config.devices[i].id = id])]
            /\ stage' = "pipeline" /\ UNCHANGED <<up, polls>>
       ELSE devices' = devices /\ Return
  /\ UNCHANGED <<registry, plugins, shown>>

StartPipeline ==
  /\ AtStage("pipeline")
  /\ IF AnyOf(config, PipelineConfig) THEN Return
     ELSE up' = up \cup {"pipeline"} /\ stage' = "buffer" /\ UNCHANGED polls
  /\ UNCHANGED <<registry, plugins, devices, shown>>

\* The database may not open
OpenBuffer(opens) ==
  /\ AtStage("buffer")
  /\ IF AnyOf(config, LocalBufferConfig) \/ ~opens THEN Return
     ELSE up' = up \cup {"buffer"} /\ stage' = "mqtt" /\ UNCHANGED polls
  /\ UNCHANGED <<registry, plugins, devices, shown>>

\* The client, then the retained status of every device: a disabled one is
\* shown offline.  A publication that fails is repeated by the client.
StartMqtt ==
  /\ AtStage("mqtt")
  /\ IF AnyOf(config, TlsFiles \cup MqttClientConfig) THEN shown' = shown /\ Return
     ELSE /\ up' = up \cup {"mqtt"} /\ stage' = "polls" /\ UNCHANGED polls
          /\ shown' = [id \in DOMAIN devices |->
                         IF devices[id].device.enabled THEN "online" ELSE "offline"]
  /\ UNCHANGED <<registry, plugins, devices>>

\* Every target is checked and spawned; the first refusal ends the start
SpawnPolls ==
  /\ AtStage("polls")
  /\ LET targets == UNION {poll_targets(devices[id]) : id \in DOMAIN devices}
     IN IF targets # {} /\ AnyOf(config, PollConfig) THEN Return
        ELSE polls' = targets /\ stage' = "rest" /\ UNCHANGED up
  /\ UNCHANGED <<registry, plugins, devices, shown>>

(* Mutant of StartRest: a failed bind is returned like any other error.    *)
StartRestByReturn(binds) ==
  /\ AtStage("rest")
  /\ LET control == IF config.control THEN {"control"} ELSE {}
     IN IF config.listen = "none"
          THEN up' = up \cup control /\ stage' = "tasks" /\ UNCHANGED polls
        ELSE IF binds
          THEN up' = up \cup control \cup {"rest"} /\ stage' = "tasks" /\ UNCHANGED polls
        ELSE Return
  /\ UNCHANGED <<registry, plugins, devices, shown>>

\* Control is assembled, then REST binds its address if there is one.  When it
\* cannot, the polls are cancelled and every part is shut down before the error
\* is returned.
StartRest(binds) ==
  /\ AtStage("rest")
  /\ LET control == IF config.control THEN {"control"} ELSE {}
     IN IF config.listen = "none"
          THEN up' = up \cup control /\ stage' = "tasks" /\ UNCHANGED polls
        ELSE IF binds
          THEN up' = up \cup control \cup {"rest"} /\ stage' = "tasks" /\ UNCHANGED polls
        ELSE up' = {} /\ polls' = {} /\ stage' = "failed"
  /\ UNCHANGED <<registry, plugins, devices, shown>>

\* Pump, forward loop and heartbeat
StartTasks ==
  /\ AtStage("tasks")
  /\ up' = up \cup {"pump", "forward", "heartbeat"} /\ stage' = "running"
  /\ UNCHANGED <<registry, plugins, devices, polls, shown>>

Start ==
  \/ Validate \/ LoadControl \/ LoadProfiles \/ LoadDrivers \/ Preflight \/ Register
  \/ StartPipeline \/ StartMqtt \/ SpawnPolls \/ StartTasks
  \/ \E ok \in BOOLEAN : OpenBuffer(ok) \/ StartRest(ok)

-----------------------------------------------------------------------------
Parts == {"pipeline", "buffer", "mqtt", "pump", "forward", "heartbeat"}

(* A start that succeeds has everything the configuration asks for: all    *)
(* parts, and for each readable property of an enabled device exactly one  *)
(* poll task that reads it at its own address and interval, and none for a *)
(* disabled device, which is shown offline.                                *)
AllStarted ==
  stage = "running" =>
    /\ Parts \subseteq up
    /\ "control" \in up => "rest" \in up
    /\ config.will # <<>> => shown[config.will[1]] = "online"
    /\ \A i \in DOMAIN config.devices :
         LET d == config.devices[i]
             props == ProfileOf(d.profile).properties
             Reads(t, p) == \E k \in DOMAIN t.items :
                              /\ t.device = d.id
                              /\ devices[d.id].items[t.items[k].item_id].property = p
                              /\ t.items[k].address = p.driver_address
                              /\ t.interval = p.default_interval_ms \/ p.default_interval_ms = -1
         IN /\ shown[d.id] = "online" <=> d.enabled
            /\ \A k \in DOMAIN props :
                 Cardinality({t \in polls : Reads(t, props[k])}) =
                   (IF d.enabled /\ props[k].readable THEN 1 ELSE 0)

(* A start that fails leaves nothing behind: no part and no poll task that *)
(* goes on reading a device (no partial start, preflight.rs).              *)
NothingLeft == stage = "failed" => up = {} /\ polls = {}

(* Every driver is loaded once, wherever its packages lie, and the one of  *)
(* the first device knows every address its profile uses.                  *)
DriversFit ==
  stage = "running" =>
    /\ \A p, q \in plugins : p.id = q.id => p = q
    /\ LET d == config.devices[1]
           props == ProfileOf(d.profile).properties
       IN LibOf(d.driver).probes =>
            \A k \in DOMAIN props : props[k].readable \/ props[k].writable
                                      => props[k].driver_address \in LibOf(d.driver).grammar

(* The collector runs as configured or not at all.                         *)
StartIsSound == AllStarted /\ NothingLeft /\ DriversFit

(* Does not hold (README, Findings).                                       *)
(* Preflight's list: every profile address validates, for each device.     *)
EveryAddressChecked ==
  stage = "running" =>
    \A i \in DOMAIN config.devices :
      LET d == config.devices[i]
      IN validate_profile_addresses(ProfileOf(d.profile), LibOf(d.driver))
=============================================================================
