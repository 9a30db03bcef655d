------------------------- MODULE ServiceStartProofs -------------------------
(***************************************************************************)
(* What ServiceStart shows for every configuration file, not only for one  *)
(* with a slip in a single section.                                        *)
(***************************************************************************)
EXTENDS ServiceStart, TLAPS

\* Where main is once a call has returned.
PastBuild       == {"listen", "serving"}
PastLogger      == PastBuild \cup {"build_service"}
PastMetrics     == PastLogger \cup {"default_logger"}
PastLogging     == PastMetrics \cup {"initMetrics"}
PastTracer      == PastLogging \cup {"initLogging"}
PastService     == PastTracer \cup {"initTracer"}
PastFile        == PastService \cup {"parse_service_config"}
PastCommandLine == PastFile \cup {"parse_observability_config"}
Stages          == PastCommandLine \cup {"parse_command_line_args", "dead"}

\* What each call has left behind, for as long as the service comes up.
ConfigIsAsked ==
    /\ config \in [Sections -> Section]
    /\ stage \in {"parse_command_line_args", "parse_observability_config"} =>
          config = DefaultConfig
    /\ stage \in PastCommandLine => given.wellFormed
    /\ stage \in PastFile => given.file # Unreadable /\ \A s \in Sections : config[s] = Asked(s)

OptionsCounted == [o \in DbOptions |->
    IF CountedAs(o) \in given.options THEN "option" ELSE "default"]

HolderIsTold ==
    /\ connection \in {None} \cup [DbOptions -> {"default", "option"}]
    /\ environment \in BOOLEAN
    /\ stage \in PastService =>
          IF given.service = "user-manager-service" THEN connection = OptionsCounted
                                                    ELSE environment = given.environment

Correct(sections) == \A s \in sections : ~Mistake(s)

TelemetryIsUp ==
    /\ stage \in PastTracer =>
          tracing = {s \in TraceSections : WantsOn(s)} /\ Correct(TraceSections)
    /\ stage \in PastLogging => sinks = {s \in LogSections : WantsOn(s)} /\ Correct(LogSections)
    /\ stage \in PastMetrics =>
          metrics = {s \in MetricSections : WantsOn(s)} /\ Correct(MetricSections)

ServiceIsBuilt ==
    /\ stage \in PastLogger => logger = given.service
    /\ stage \in PastBuild =>
          /\ counter = "sdk"
          /\ IF given.service = "user-manager-service" THEN database = OptionsCounted
             ELSE channel = IF given.environment THEN "environment" ELSE "default"

StartIInv ==
    /\ given \in Given
    /\ stage \in Stages
    /\ StartTypeOK
    /\ ConfigIsAsked
    /\ HolderIsTold
    /\ TelemetryIsUp
    /\ ServiceIsBuilt

-----------------------------------------------------------------------------
(***************************************************************************)
(* Lemmas.                                                                 *)
(***************************************************************************)

\* A section is asked for one thing after the other, and it is a mistake in it
\* that fails.
LEMMA FailureIsMistake ==
    ASSUME NEW sections \in SUBSET Sections,
           config \in [Sections -> Section],
           \A s \in Sections : config[s] = Asked(s)
    PROVE  /\ Active(sections) = {s \in sections : WantsOn(s)}
           /\ Fails(sections) <=>
                \E s \in sections : Mistake(s) /\ ~(Asked(s).form = "missing" /\ s \in TraceSections)
<1>1. \A s \in sections : config[s] = Asked(s) /\ config[s] \in Section
    OBVIOUS
<1>2. Active(sections) = {s \in sections : WantsOn(s)}
    BY <1>1 DEF Active, IsActive, WantsOn
<1>3. ASSUME NEW s \in sections
      PROVE  Throws(s) \/ Misses(s) <=>
                Mistake(s) /\ ~(Asked(s).form = "missing" /\ s \in TraceSections)
    BY <1>1, <1>3 DEF Throws, Misses, Mistake, IsActive, WantsOn
<1>4. Fails(sections) <=>
        \E s \in sections : Mistake(s) /\ ~(Asked(s).form = "missing" /\ s \in TraceSections)
    BY <1>3 DEF Fails
<1> QED
    BY <1>2, <1>4

\* The sections that the three init functions ask for are all there are.
LEMMA SectionsAreThree ==
    /\ TraceSections \in SUBSET Sections
    /\ LogSections \in SUBSET Sections
    /\ MetricSections \in SUBSET Sections
    /\ TraceSections \cap LogSections = {}
    /\ TraceSections \cap MetricSections = {}
    BY DEF Sections, TraceSections, LogSections, MetricSections

\* initTracer succeeds on traces without a mistake, and dies of any.
LEMMA TracerDecides ==
    ASSUME config \in [Sections -> Section], \A s \in Sections : config[s] = Asked(s)
    PROVE  Fails(TraceSections) \/ (\E s \in TraceSections : config[s].form = "missing")
             <=> ~Correct(TraceSections)
<1>1. TraceSections \in SUBSET Sections
    BY SectionsAreThree
<1>2. Fails(TraceSections) <=> \E s \in TraceSections :
         Mistake(s) /\ ~(Asked(s).form = "missing" /\ s \in TraceSections)
    BY <1>1, FailureIsMistake
<1>3. \A s \in TraceSections : config[s].form = "missing" => Mistake(s)
    BY <1>1 DEF Mistake
<1>4. \A s \in TraceSections : config[s] = Asked(s)
    BY <1>1
<1> QED
    BY <1>2, <1>3, <1>4 DEF Correct

\* The two others as well.
LEMMA OthersDecide ==
    ASSUME NEW sections \in {LogSections, MetricSections},
           config \in [Sections -> Section], \A s \in Sections : config[s] = Asked(s)
    PROVE  Fails(sections) <=> ~Correct(sections)
<1>1. sections \in SUBSET Sections /\ sections \cap TraceSections = {}
    BY SectionsAreThree
<1>2. Fails(sections) <=> \E s \in sections :
         Mistake(s) /\ ~(Asked(s).form = "missing" /\ s \in TraceSections)
    BY <1>1, FailureIsMistake
<1> QED
    BY <1>1, <1>2 DEF Correct

-----------------------------------------------------------------------------
(***************************************************************************)
(* The inductive invariant.                                                *)
(***************************************************************************)

\* What the process starts with.
LEMMA StartBegins == StartInit => StartIInv
<1> SUFFICES ASSUME StartInit PROVE StartIInv
    OBVIOUS
<1> USE DEF StartInit
<1>1. DefaultConfig \in [Sections -> Section]
    BY DEF DefaultConfig, Section
<1>2. StartTypeOK
    BY <1>1 DEF StartTypeOK
<1>3. stage \in Stages /\ stage \notin PastCommandLine
    BY DEF Stages, PastCommandLine, PastFile, PastService, PastTracer, PastLogging, PastMetrics,
           PastLogger, PastBuild
<1>4. ConfigIsAsked
    BY <1>1, <1>3 DEF ConfigIsAsked, PastCommandLine
<1>5. HolderIsTold /\ TelemetryIsUp /\ ServiceIsBuilt
    BY <1>3 DEF HolderIsTold, TelemetryIsUp, ServiceIsBuilt, PastCommandLine, PastFile, PastService,
           PastTracer, PastLogging, PastMetrics, PastLogger
<1> QED
    BY <1>2, <1>3, <1>4, <1>5 DEF StartIInv

\* No call breaks it.
LEMMA StartStep == StartIInv /\ [StartNext]_startVars => StartIInv'
<1> SUFFICES ASSUME StartIInv, [StartNext]_startVars PROVE StartIInv'
    OBVIOUS
<1> USE DEF StartIInv, holder, peers, telemetry, IsAt, Go, Die, After
<1> USE DEF PastBuild, PastLogger, PastMetrics, PastLogging, PastTracer, PastService, PastFile,
            PastCommandLine, Stages
<1>1. CASE ParseCommandLineArgs
    BY <1>1 DEF ParseCommandLineArgs, StartTypeOK, ConfigIsAsked, HolderIsTold, TelemetryIsUp,
                ServiceIsBuilt
<1>2. CASE ParseObservabilityConfig
    <2>1. /\ stage = "parse_observability_config"
          /\ stage' \in {"parse_service_config", "dead"}
          /\ UNCHANGED <<given, connection, environment, peers, telemetry>>
        BY <1>2 DEF ParseObservabilityConfig
    <2>2. config = DefaultConfig /\ given.wellFormed
        BY <2>1 DEF ConfigIsAsked
    <2>3. ConfigIsAsked'
        <3>1. CASE given.file \in {None, Unreadable} /\ UNCHANGED config
            <4>1. stage' # "dead" => given.file = None
                BY <1>2, <2>1, <3>1 DEF ParseObservabilityConfig
            <4>2. given.file = None => \A t \in Sections : config[t] = Asked(t)
                BY <2>2 DEF Asked
            <4>3. stage' # "dead" => given.file # Unreadable
                BY <1>2, InputsAssumption DEF ParseObservabilityConfig
            <4> QED
                BY <2>1, <2>2, <3>1, <4>1, <4>2, <4>3 DEF ConfigIsAsked, Asked
        <3>2. CASE given.file \notin {None, Unreadable} /\ config' = given.file
            <4>1. given.file \in [Sections -> Section]
                BY <3>2, InputsAssumption DEF Given
            <4> QED
                BY <2>1, <2>2, <3>2, <4>1 DEF ConfigIsAsked, Asked
        <3> QED
            BY <1>2, <3>1, <3>2 DEF ParseObservabilityConfig
    <2> QED
        BY <2>1, <2>3 DEF StartTypeOK, ConfigIsAsked, HolderIsTold, TelemetryIsUp, ServiceIsBuilt
<1>3. CASE ParsePgsqlConfig
    <2>1. /\ stage = "parse_service_config"
          /\ stage' = "initTracer"
          /\ given.service = "user-manager-service"
          /\ UNCHANGED <<given, config, environment, peers, telemetry>>
        BY <1>3 DEF ParsePgsqlConfig
    <2>2. connection' = OptionsCounted
        BY <1>3 DEF ParsePgsqlConfig, OptionsCounted, DefaultConnection
    <2>3. OptionsCounted \in [DbOptions -> {"default", "option"}]
        BY DEF OptionsCounted
    <2>4. OptionsCounted' = OptionsCounted
        BY <2>1 DEF OptionsCounted
    <2> HIDE DEF OptionsCounted
    <2> QED
        BY <2>1, <2>2, <2>3, <2>4 DEF StartTypeOK, ConfigIsAsked, Asked, HolderIsTold, TelemetryIsUp,
                                      ServiceIsBuilt
<1>4. CASE ParseEnvironment
    <2>1. /\ stage = "parse_service_config"
          /\ stage' = "initTracer"
          /\ given.service # "user-manager-service"
          /\ environment' = given.environment
          /\ UNCHANGED <<given, config, connection, peers, telemetry>>
        BY <1>4 DEF ParseEnvironment
    <2>2. given.environment \in BOOLEAN
        BY DEF Given
    <2> QED
        BY <2>1, <2>2 DEF StartTypeOK, ConfigIsAsked, Asked, HolderIsTold, TelemetryIsUp, ServiceIsBuilt
<1>5. CASE InitTracer
    <2>1. /\ stage = "initTracer"
          /\ UNCHANGED <<given, holder, peers, sinks, metrics, logger, counter>>
        BY <1>5 DEF InitTracer
    <2>2. config \in [Sections -> Section] /\ \A s \in Sections : config[s] = Asked(s)
        BY <2>1 DEF ConfigIsAsked
    <2>3. \/ stage' = "dead" /\ UNCHANGED tracing
          \/ /\ stage' = "initLogging"
             /\ tracing' = {s \in TraceSections : WantsOn(s)}
             /\ Correct(TraceSections)
        BY <1>5, <2>2, TracerDecides, FailureIsMistake, SectionsAreThree DEF InitTracer
    <2>4. UNCHANGED <<Correct(TraceSections), {s \in TraceSections : WantsOn(s)}>>
        BY <2>1 DEF Correct, Mistake, WantsOn, Asked
    <2> QED
        BY <2>1, <2>3, <2>4 DEF StartTypeOK, ConfigIsAsked, Asked, HolderIsTold, OptionsCounted,
                                TelemetryIsUp, ServiceIsBuilt
<1>6. CASE InitLogging
    <2>1. /\ stage = "initLogging"
          /\ UNCHANGED <<given, holder, peers, tracing, metrics, logger, counter>>
        BY <1>6 DEF InitLogging
    <2>2. config \in [Sections -> Section] /\ \A s \in Sections : config[s] = Asked(s)
        BY <2>1 DEF ConfigIsAsked
    <2>3. \/ stage' = "dead" /\ UNCHANGED sinks
          \/ /\ stage' = "initMetrics"
             /\ sinks' = {s \in LogSections : WantsOn(s)}
             /\ Correct(LogSections)
        BY <1>6, <2>2, OthersDecide, FailureIsMistake, SectionsAreThree DEF InitLogging
    <2>4. UNCHANGED <<Correct(LogSections), {s \in LogSections : WantsOn(s)},
                      Correct(TraceSections), {s \in TraceSections : WantsOn(s)}>>
        BY <2>1 DEF Correct, Mistake, WantsOn, Asked
    <2> QED
        BY <2>1, <2>3, <2>4 DEF StartTypeOK, ConfigIsAsked, Asked, HolderIsTold, OptionsCounted,
                                TelemetryIsUp, ServiceIsBuilt
<1>7. CASE InitMetrics
    <2>1. /\ stage = "initMetrics"
          /\ UNCHANGED <<given, holder, peers, tracing, sinks, logger, counter>>
        BY <1>7 DEF InitMetrics
    <2>2. config \in [Sections -> Section] /\ \A s \in Sections : config[s] = Asked(s)
        BY <2>1 DEF ConfigIsAsked
    <2>3. \/ stage' = "dead" /\ UNCHANGED metrics
          \/ /\ stage' = "default_logger"
             /\ metrics' = {s \in MetricSections : WantsOn(s)}
             /\ Correct(MetricSections)
        BY <1>7, <2>2, OthersDecide, FailureIsMistake, SectionsAreThree DEF InitMetrics
    <2>4. UNCHANGED <<Correct(LogSections), {s \in LogSections : WantsOn(s)},
                      Correct(TraceSections), {s \in TraceSections : WantsOn(s)},
                      Correct(MetricSections), {s \in MetricSections : WantsOn(s)}>>
        BY <2>1 DEF Correct, Mistake, WantsOn, Asked
    <2> QED
        BY <2>1, <2>3, <2>4 DEF StartTypeOK, ConfigIsAsked, Asked, HolderIsTold, OptionsCounted,
                                TelemetryIsUp, ServiceIsBuilt
<1>8. CASE DefaultLogger
    <2>1. /\ stage = "default_logger"
          /\ stage' = "build_service"
          /\ UNCHANGED <<given, holder, peers, tracing, sinks, metrics, counter>>
          /\ logger' = IF tracing = None THEN "unnamed" ELSE given.service
        BY <1>8 DEF DefaultLogger
    <2>2. tracing = {s \in TraceSections : WantsOn(s)}
        BY <2>1 DEF TelemetryIsUp
    <2>3. tracing # None
        BY <2>2, InputsAssumption, SectionsAreThree
    <2>4. given.service \in Services
        BY DEF Given
    <2>5. UNCHANGED <<Correct(LogSections), {s \in LogSections : WantsOn(s)},
                      Correct(TraceSections), {s \in TraceSections : WantsOn(s)},
                      Correct(MetricSections), {s \in MetricSections : WantsOn(s)}>>
        BY <2>1 DEF Correct, Mistake, WantsOn, Asked
    <2> QED
        BY <2>1, <2>3, <2>4, <2>5 DEF StartTypeOK, ConfigIsAsked, Asked, HolderIsTold, OptionsCounted,
                                      TelemetryIsUp, ServiceIsBuilt
<1>9. CASE BuildService
    <2>1. /\ stage = "build_service"
          /\ stage' = "listen"
          /\ UNCHANGED <<given, holder, tracing, sinks, metrics, logger>>
          /\ counter' = IF metrics = None THEN "noop" ELSE "sdk"
        BY <1>9 DEF BuildService, Counter
    <2>2. metrics = {s \in MetricSections : WantsOn(s)}
        BY <2>1 DEF TelemetryIsUp
    <2>3. metrics # None
        BY <2>2, InputsAssumption, SectionsAreThree
    <2>4. \/ /\ given.service = "user-manager-service"
             /\ database' = connection
             /\ connection = OptionsCounted
             /\ UNCHANGED channel
          \/ /\ given.service # "user-manager-service"
             /\ channel' = IF given.environment THEN "environment" ELSE "default"
             /\ UNCHANGED database
        BY <1>9, <2>1 DEF BuildService, InitDatabase, GetEnvOrDefault, HolderIsTold
    <2>5. UNCHANGED <<Correct(LogSections), {s \in LogSections : WantsOn(s)},
                      Correct(TraceSections), {s \in TraceSections : WantsOn(s)},
                      Correct(MetricSections), {s \in MetricSections : WantsOn(s)}, OptionsCounted>>
        BY <2>1 DEF Correct, Mistake, WantsOn, Asked, OptionsCounted
    <2> QED
        BY <2>1, <2>3, <2>4, <2>5 DEF StartTypeOK, ConfigIsAsked, Asked, HolderIsTold, TelemetryIsUp,
                                      ServiceIsBuilt
<1>10. ASSUME stage \in {"listen", "serving", "dead"}, stage' \in {stage, "serving", "dead"},
              stage = "dead" => stage' = "dead",
              UNCHANGED <<given, holder, peers, telemetry>>
       PROVE  StartIInv'
    <2>1. UNCHANGED <<Correct(LogSections), {s \in LogSections : WantsOn(s)},
                      Correct(TraceSections), {s \in TraceSections : WantsOn(s)},
                      Correct(MetricSections), {s \in MetricSections : WantsOn(s)}, OptionsCounted>>
        BY <1>10 DEF Correct, Mistake, WantsOn, Asked, OptionsCounted
    <2> QED
        BY <1>10, <2>1 DEF StartTypeOK, ConfigIsAsked, Asked, HolderIsTold, TelemetryIsUp, ServiceIsBuilt
<1>11. CASE Listen
    BY <1>10, <1>11 DEF Listen
<1>12. CASE UNCHANGED startVars
    BY <1>12 DEF startVars, StartTypeOK, ConfigIsAsked, Asked, HolderIsTold, OptionsCounted,
                 TelemetryIsUp, Correct, Mistake, WantsOn, ServiceIsBuilt
<1> QED
    BY <1>1, <1>2, <1>3, <1>4, <1>5, <1>6, <1>7, <1>8, <1>9, <1>11, <1>12 DEF StartNext, Finished

\* The invariant holds in every state.
LEMMA StartAlways == StartSpec => []StartIInv
    BY StartBegins, StartStep, PTL DEF StartSpec

-----------------------------------------------------------------------------
(***************************************************************************)
(* The theorems.                                                           *)
(***************************************************************************)

\* Every variable has its type from the command line to the first request.
THEOREM StartTypes == StartSpec => []StartTypeOK
<1>1. StartIInv => StartTypeOK
    BY DEF StartIInv
<1> QED
    BY <1>1, StartAlways, PTL

\* A service serves with the sinks, processors and readers that it was told to
\* have, whatever its file turns on, leaves out or misspells.
THEOREM AsConfigured == StartSpec => []ServesAsConfigured
<1>1. StartIInv => ServesAsConfigured
    BY DEF StartIInv, ServesAsConfigured, TelemetryIsUp, PastBuild, PastLogger, PastMetrics,
           PastLogging, PastTracer
<1> QED
    BY <1>1, StartAlways, PTL

\* A service that serves counts, and its records name its own tracer.
THEOREM RealInstruments == StartSpec => []InstrumentsAreReal
<1>1. StartIInv => InstrumentsAreReal
    BY DEF StartIInv, InstrumentsAreReal, ServiceIsBuilt, PastBuild, PastLogger
<1> QED
    BY <1>1, StartAlways, PTL

\* The services go where they were told to, the database user apart.
THEOREM RightPeers == StartSpec => []PeersAsTold
<1>1. ASSUME StartIInv PROVE PeersAsTold
    <2>1. ASSUME stage = "serving", given.service = "user-manager-service"
          PROVE  database = OptionsCounted
        BY <1>1, <2>1 DEF StartIInv, ServiceIsBuilt, PastBuild
    <2>2. \A o \in DbOptions \ {"db-user"} :
             OptionsCounted[o] = IF o \in given.options THEN "option" ELSE "default"
        BY DEF OptionsCounted, CountedAs
    <2>3. ASSUME stage = "serving", given.service = "gateway-service"
          PROVE  channel = IF given.environment THEN "environment" ELSE "default"
        BY <1>1, <2>3 DEF StartIInv, ServiceIsBuilt, PastBuild
    <2> QED
        BY <2>1, <2>2, <2>3 DEF PeersAsTold
<1> QED
    BY <1>1, StartAlways, PTL

\* A service that serves has no mistake in its configuration.
LEMMA ServesCorrectly == StartIInv => (stage = "serving" => ~Misconfigured)
<1> SUFFICES ASSUME StartIInv, stage = "serving" PROVE ~Misconfigured
    OBVIOUS
<1>1. given.wellFormed /\ given.file # Unreadable
    BY DEF StartIInv, ConfigIsAsked, PastCommandLine, PastFile, PastService, PastTracer, PastLogging,
           PastMetrics, PastLogger, PastBuild
<1>2. Correct(TraceSections) /\ Correct(LogSections) /\ Correct(MetricSections)
    BY DEF StartIInv, TelemetryIsUp, PastTracer, PastLogging, PastMetrics, PastLogger, PastBuild
<1>3. \A s \in Sections : ~Mistake(s)
    BY <1>2 DEF Correct, Sections
<1> QED
    BY <1>1, <1>3 DEF Misconfigured

\* One that dies before its port has one.
LEMMA DiesOfMistake ==
    StartIInv /\ [StartNext]_startVars
        => [stage' = "dead" /\ stage \notin {"listen", "dead"} => Misconfigured]_startVars
<1> SUFFICES ASSUME StartIInv, StartNext, stage' = "dead", stage \notin {"listen", "dead"}
             PROVE  Misconfigured
    OBVIOUS
<1> USE DEF IsAt, Go, Die, After
<1>1. CASE ParseCommandLineArgs
    BY <1>1 DEF ParseCommandLineArgs, Misconfigured
<1>2. CASE ParseObservabilityConfig
    BY <1>2 DEF ParseObservabilityConfig, Misconfigured
<1>3. ASSUME NEW sections \in {TraceSections, LogSections, MetricSections}, ~Correct(sections)
      PROVE  Misconfigured
    BY <1>3, SectionsAreThree DEF Correct, Misconfigured
<1>4. stage \in PastFile => config \in [Sections -> Section] /\ \A s \in Sections : config[s] = Asked(s)
    BY DEF StartIInv, ConfigIsAsked
<1>5. CASE InitTracer
    <2>1. stage \in PastFile
        BY <1>5 DEF InitTracer, PastFile, PastService
    <2> QED
        BY <1>3, <1>4, <1>5, <2>1, TracerDecides DEF InitTracer
<1>6. CASE InitLogging
    <2>1. stage \in PastFile
        BY <1>6 DEF InitLogging, PastFile, PastService, PastTracer
    <2> QED
        BY <1>3, <1>4, <1>6, <2>1, OthersDecide DEF InitLogging
<1>7. CASE InitMetrics
    <2>1. stage \in PastFile
        BY <1>7 DEF InitMetrics, PastFile, PastService, PastTracer, PastLogging
    <2> QED
        BY <1>3, <1>4, <1>7, <2>1, OthersDecide DEF InitMetrics
<1>8. CASE ParsePgsqlConfig \/ ParseEnvironment \/ DefaultLogger \/ BuildService
    BY <1>8 DEF ParsePgsqlConfig, ParseEnvironment, DefaultLogger, BuildService
<1>9. CASE Listen \/ Finished
    BY <1>9 DEF Listen, Finished, startVars
<1> QED
    BY <1>1, <1>2, <1>5, <1>6, <1>7, <1>8, <1>9 DEF StartNext

\* Nothing but a mistake in what it was given keeps a service from its port,
\* and no mistake goes through.
THEOREM OnlyConfigurationDecides == StartSpec => ConfigurationDecides
    BY StartAlways, ServesCorrectly, DiesOfMistake, PTL DEF StartSpec, ConfigurationDecides
=============================================================================
