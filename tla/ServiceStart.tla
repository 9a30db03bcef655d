---------------------------- MODULE ServiceStart ----------------------------
(***************************************************************************)
(* How a service comes up: main() of the user manager and main() of the    *)
(* gateway, from the command line to the first request.  Each is one       *)
(* thread and a fixed order of calls; an exception in any of them leaves   *)
(* main and ends the process.                                              *)
(*                                                                         *)
(* A configuration is a set of sections of a YAML document.  Of a section  *)
(* the model keeps what decides: its form, `active', whether the path or   *)
(* endpoint is there, and `mode'.  Formats and intervals are left out.     *)
(***************************************************************************)
EXTENDS Naturals

CONSTANTS
    Files,         \* the configuration files that a service may be given
    Unreadable,    \* a file that is not there or is not YAML
    OptionSets,    \* the sets of database options that it may be given
    None

Services  == {"user-manager-service", "gateway-service"}
DbOptions == {"db-user", "db-password", "db-name", "db-host", "db-port"}

LogSections    == {"logs.local", "logs.file", "logs.span"}
TraceSections  == {"traces.local", "traces.export"}
MetricSections == {"metrics.local", "metrics.export"}
Sections       == LogSections \cup TraceSections \cup MetricSections

\* What is written at a section of CURRENT_SERVICE_NAME.
Section ==
    [form   : {"missing", "scalar", "map"},
     active : {"unset", "true", "false", "other"},
     target : BOOLEAN,    \* a path (logs.file) or an endpoint (exports) is given
     mode   : {"unset", "grpc", "other"}]

ASSUME InputsAssumption ==
    /\ \A f \in Files : f = Unreadable \/ f \in [Sections -> Section]
    /\ OptionSets \subseteq SUBSET DbOptions
    /\ None \notin Files \cup {Unreadable}
    /\ \A sections \in SUBSET Sections : None # sections

VARIABLES
    given,         \* what the process is started with; never changes
    stage,         \* where main is
    config,        \* holder.obsConfig
    connection,    \* holder.postgresConfig: where each of its values is from
    environment,   \* holder.environment: USER_MANAGER_HOST is in it
    database,      \* what odb::database is built with
    channel,       \* where the address of the gateway's grpc::Channel is from
    tracing,       \* the tracer provider: none yet, or its processors
    sinks,         \* the sinks of the logging core
    metrics,       \* the meter provider: none yet, or its readers
    logger,        \* default_logger: none yet, or the tracer that it asks
    counter        \* the request counter: none yet, or its kind

holder    == <<config, connection, environment>>
peers     == <<database, channel>>
telemetry == <<tracing, sinks, metrics, logger, counter>>

startVars == <<given, stage, holder, peers, telemetry>>

\* The constructor of ConfigHolder.
DefaultConfig == [s \in Sections |->
    [form |-> "map", active |-> IF s = "logs.local" THEN "true" ELSE "false",
     target |-> FALSE, mode |-> "unset"]]

\* The values of PostgresConfig before any option is looked at.
DefaultConnection == [o \in DbOptions |-> "default"]

Given ==
    [service : Services, wellFormed : BOOLEAN, file : Files \cup {None},
     options : OptionSets, environment : BOOLEAN]

StartInit ==
    /\ given \in Given
    /\ stage = "parse_command_line_args"
    /\ config = DefaultConfig
    /\ connection = None
    /\ environment = FALSE
    /\ database = None
    /\ channel = None
    /\ tracing = None
    /\ sinks = {}
    /\ metrics = None
    /\ logger = None
    /\ counter = None

\* Fault: metrics are set up where they are first shown to work.
AfterLateMetrics(s) ==
    CASE s = "parse_command_line_args" -> "parse_observability_config"
      [] s = "parse_observability_config" -> "parse_service_config"
      [] s = "parse_service_config" -> "initTracer"
      [] s = "initTracer" -> "initLogging"
      [] s = "initLogging" -> "default_logger"
      [] s = "initMetrics" -> "listen"
      [] s = "default_logger" -> "build_service"
      [] s = "build_service" -> "initMetrics"
      [] s = "listen" -> "serving"

\* The order of the calls in both mains.
After(s) ==
    CASE s = "parse_command_line_args" -> "parse_observability_config"
      [] s = "parse_observability_config" -> "parse_service_config"
      [] s = "parse_service_config" -> "initTracer"
      [] s = "initTracer" -> "initLogging"
      [] s = "initLogging" -> "initMetrics"
      [] s = "initMetrics" -> "default_logger"
      [] s = "default_logger" -> "build_service"
      [] s = "build_service" -> "listen"
      [] s = "listen" -> "serving"

IsAt(s) == stage = s
Go      == stage' = After(stage)
Die     == stage' = "dead"

-----------------------------------------------------------------------------
\* An option that does not exist, has no value, or a port that is no uint16_t.
ParseCommandLineArgs ==
    /\ IsAt("parse_command_line_args")
    /\ \/ given.wellFormed /\ Go
       \/ ~given.wellFormed /\ Die
    /\ UNCHANGED <<given, holder, peers, telemetry>>

\* Fault: what the file leaves out stays as it is by default.
MergeObservabilityConfig ==
    /\ IsAt("parse_observability_config")
    /\ \/ given.file = None /\ Go /\ UNCHANGED config
       \/ given.file = Unreadable /\ Die /\ UNCHANGED config
       \/ /\ given.file \notin {None, Unreadable}
          /\ config' = [s \in Sections |->
                           IF given.file[s].form = "missing" THEN config[s] ELSE given.file[s]]
          /\ Go
    /\ UNCHANGED <<given, connection, environment, peers, telemetry>>

\* The file takes the place of the defaults, all of them.
ParseObservabilityConfig ==
    /\ IsAt("parse_observability_config")
    /\ \/ given.file = None /\ Go /\ UNCHANGED config
       \/ given.file = Unreadable /\ Die /\ UNCHANGED config
       \/ given.file \notin {None, Unreadable} /\ Go /\ config' = given.file
    /\ UNCHANGED <<given, connection, environment, peers, telemetry>>

\* Fault: the port is looked for under a misspelt name as well.
CountedAsAll(o) == IF o = "db-user" THEN "db_user" ELSE IF o = "db-port" THEN "db_port" ELSE o

\* The name under which parse_pgsql_config counts an option.
CountedAs(o) == IF o = "db-user" THEN "db_user" ELSE o

ParsePgsqlConfig ==
    /\ IsAt("parse_service_config")
    /\ given.service = "user-manager-service"
    /\ connection' = [o \in DbOptions |->
          IF CountedAs(o) \in given.options THEN "option" ELSE DefaultConnection[o]]
    /\ Go
    /\ UNCHANGED <<given, config, environment, peers, telemetry>>

ParseEnvironment ==
    /\ IsAt("parse_service_config")
    /\ given.service = "gateway-service"
    /\ environment' = given.environment
    /\ Go
    /\ UNCHANGED <<given, config, connection, peers, telemetry>>

-----------------------------------------------------------------------------
\* `node["active"] && node["active"].as<bool>()': a scalar has no subscripts,
\* and a value that is no bool does not convert.
Throws(s)   == config[s].form = "scalar" \/ (config[s].form = "map" /\ config[s].active = "other")
IsActive(s) == config[s].form = "map" /\ config[s].active = "true"

\* What an active section is asked for next.
Misses(s) ==
    /\ IsActive(s)
    /\ \/ s = "logs.file" /\ ~config[s].target
       \/ /\ s \in {"traces.export", "metrics.export"}
          /\ config[s].mode = "other" \/ ~config[s].target

Fails(sections) == \E s \in sections : Throws(s) \/ Misses(s)

Active(sections) == {s \in sections : IsActive(s)}

\* Fault: initTracer copies the node, as the two others do.
InitTracerFromCopy ==
    /\ IsAt("initTracer")
    /\ \/ Fails(TraceSections) /\ Die /\ UNCHANGED tracing
       \/ ~Fails(TraceSections) /\ Go /\ tracing' = Active(TraceSections)
    /\ UNCHANGED <<given, holder, peers, sinks, metrics, logger, counter>>

\* initTracer reads through a reference to const: a section that is missing is
\* an invalid node, and asking it for `active' throws.
InitTracer ==
    /\ IsAt("initTracer")
    /\ LET bad == Fails(TraceSections) \/ \E s \in TraceSections : config[s].form = "missing" IN
       \/ bad /\ Die /\ UNCHANGED tracing
       \/ ~bad /\ Go /\ tracing' = Active(TraceSections)
    /\ UNCHANGED <<given, holder, peers, sinks, metrics, logger, counter>>

\* initLogging reads a copy: a section that is missing comes into being, empty.
InitLogging ==
    /\ IsAt("initLogging")
    /\ \/ Fails(LogSections) /\ Die /\ UNCHANGED sinks
       \/ ~Fails(LogSections) /\ Go /\ sinks' = Active(LogSections)
    /\ UNCHANGED <<given, holder, peers, tracing, metrics, logger, counter>>

\* Fault: the sections are looked for under the name of the logs.
InitMetricsFromLogs ==
    /\ IsAt("initMetrics")
    /\ \/ Fails(LogSections) /\ Die /\ UNCHANGED metrics
       \/ ~Fails(LogSections) /\ Go /\ metrics' = Active(LogSections)
    /\ UNCHANGED <<given, holder, peers, tracing, sinks, logger, counter>>

InitMetrics ==
    /\ IsAt("initMetrics")
    /\ \/ Fails(MetricSections) /\ Die /\ UNCHANGED metrics
       \/ ~Fails(MetricSections) /\ Go /\ metrics' = Active(MetricSections)
    /\ UNCHANGED <<given, holder, peers, tracing, sinks, logger, counter>>

\* The first get() builds the logger, which keeps the tracer's name for good.
DefaultLogger ==
    /\ IsAt("default_logger")
    /\ logger' = IF tracing = None THEN "unnamed" ELSE given.service
    /\ Go
    /\ UNCHANGED <<given, holder, peers, tracing, sinks, metrics, counter>>

\* The constructor of UserServiceImpl and UserController::init create the
\* counter, from the provider that is set or from the one that does nothing.
Counter == IF metrics = None THEN "noop" ELSE "sdk"

\* initDatabase: it connects to nothing yet.
InitDatabase == connection

\* getEnvOrDefault, for the channel, which connects to nothing either.
GetEnvOrDefault == IF environment THEN "environment" ELSE "default"

BuildService ==
    /\ IsAt("build_service")
    /\ \/ /\ given.service = "user-manager-service"
          /\ database' = InitDatabase
          /\ UNCHANGED channel
       \/ /\ given.service = "gateway-service"
          /\ channel' = GetEnvOrDefault
          /\ UNCHANGED database
    /\ counter' = Counter
    /\ Go
    /\ UNCHANGED <<given, holder, tracing, sinks, metrics, logger>>

\* The port may be taken: restbed throws; BuildAndStart returns a null pointer
\* that main dereferences.
Listen ==
    /\ IsAt("listen")
    /\ (Go \/ Die)
    /\ UNCHANGED <<given, holder, peers, telemetry>>

Finished == stage \in {"serving", "dead"} /\ UNCHANGED startVars

StartNext ==
    \/ ParseCommandLineArgs
    \/ ParseObservabilityConfig
    \/ ParsePgsqlConfig
    \/ ParseEnvironment
    \/ InitTracer
    \/ InitLogging
    \/ InitMetrics
    \/ DefaultLogger
    \/ BuildService
    \/ Listen
    \/ Finished

StartSpec == StartInit /\ [][StartNext]_startVars

-----------------------------------------------------------------------------
(***************************************************************************)
(* Properties.                                                             *)
(***************************************************************************)

\* Every variable has its type.
StartTypeOK ==
    /\ config \in [Sections -> Section]
    /\ connection \in {None} \cup [DbOptions -> {"default", "option"}]
    /\ environment \in BOOLEAN
    /\ database \in {None} \cup [DbOptions -> {"default", "option"}]
    /\ channel \in {None, "default", "environment"}
    /\ tracing \in {None} \cup SUBSET TraceSections
    /\ sinks \subseteq LogSections
    /\ metrics \in {None} \cup SUBSET MetricSections
    /\ logger \in {None, "unnamed"} \cup Services
    /\ counter \in {None, "noop", "sdk"}

\* What the operator has asked for: the file, where there is one, is the whole
\* configuration, and a section that it leaves out is off.
Asked(s)  == IF given.file = None THEN DefaultConfig[s] ELSE given.file[s]
WantsOn(s) == Asked(s).form = "map" /\ Asked(s).active = "true"

\* A service that serves has exactly the sinks, span processors and metric
\* readers that its configuration turns on: none from the defaults that a file
\* has replaced, none lost between the three init functions.
ServesAsConfigured == stage = "serving" =>
    /\ sinks = {s \in LogSections : WantsOn(s)}
    /\ tracing = {s \in TraceSections : WantsOn(s)}
    /\ metrics = {s \in MetricSections : WantsOn(s)}

\* Nothing is taken from a provider before it is set: the counter counts, and
\* the logger that is built once names the tracer of the service.
InstrumentsAreReal == stage = "serving" => counter = "sdk" /\ logger = given.service

\* The mistakes that keep a service from starting: a section of the wrong form,
\* an active one without what it needs, and any file that leaves out a section
\* of traces -- while a section of logs or metrics may well be left out.
Mistake(s) ==
    \/ Asked(s).form = "scalar"
    \/ Asked(s).form = "map" /\ Asked(s).active = "other"
    \/ WantsOn(s) /\ s \in {"logs.file", "traces.export", "metrics.export"} /\ ~Asked(s).target
    \/ WantsOn(s) /\ s \in {"traces.export", "metrics.export"} /\ Asked(s).mode = "other"
    \/ Asked(s).form = "missing" /\ s \in TraceSections

Misconfigured ==
    \/ ~given.wellFormed
    \/ given.file = Unreadable
    \/ \E s \in Sections : Mistake(s)

\* The configuration alone decides whether a service gets as far as its port:
\* none serves with a mistake in it, and none dies of a correct one.
ConfigurationDecides ==
    /\ [](stage = "serving" => ~Misconfigured)
    /\ [][stage' = "dead" /\ stage \notin {"listen", "dead"} => Misconfigured]_startVars

\* Where the services go for their data is what they were told, option by
\* option, the database user apart, and the defaults elsewhere.
PeersAsTold == stage = "serving" =>
    /\ given.service = "user-manager-service" => \A o \in DbOptions \ {"db-user"} :
          database[o] = IF o \in given.options THEN "option" ELSE "default"
    /\ given.service = "gateway-service" =>
          channel = IF given.environment THEN "environment" ELSE "default"

-----------------------------------------------------------------------------
(***************************************************************************)
(* What the program says of itself and does not do.                        *)
(***************************************************************************)

\* Of the options that the comment on parse_pgsql_config lists, with --db-user
\* at their head, each one that is given reaches the connection.
OptionsReachTheDatabase ==
    given.service = "user-manager-service" /\ stage = "serving" =>
        \A o \in given.options : database[o] = "option"
=============================================================================
