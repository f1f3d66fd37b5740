------------------------ MODULE MCComponents ------------------------
(***************************************************************************)
(* One run over the components whose state nothing else shares: a          *)
(* behaviour picks one of them and runs it by itself, so the state spaces  *)
(* add up instead of multiplying.                                          *)
(***************************************************************************)
EXTENDS SseFraming, StreamTranslation, DialectConversion, Metering, RequestEdge,
        Limiter, Coordination, ConsoleSessions,
        ConsolePages, LedgerMigration, SchedulerSetup, Databases, TLC

CONSTANTS b1, b2, b3, k1, n1, d1, d2, u1

VARIABLE bench    \* the component this behaviour is about

benchVars == <<bench, framingVars, streamVars, conversionVars, meteringVars, edgeVars,
              limiterVars, storeVars, documentVars, sessionVars, pageVars, migrationVars, twinVars, setupVars,
              connectionVars, queryVars>>

\* Everybody else stands in one initial state and takes no step.
Runs(who) == bench = who

FramingIdle ==
    /\ text = <<>> /\ framed = <<>>
    /\ FramingInit

StreamIdle ==
    /\ client = "openai" /\ wire = "openai" /\ wanted = TRUE
    /\ StreamInit

ConversionIdle ==
    /\ speaks = "openai" /\ channel = "openai" /\ request = NoBody
    /\ ConversionInit

MeteringIdle ==
    /\ model = CHOOSE m \in Models : TRUE
    /\ group = 1 /\ streamed = FALSE
    /\ spent = [k \in UsageKinds |-> 0]
    /\ usage = Reported("other", spent, FALSE)
    /\ MeteringInit

EdgeIdle ==
    /\ task = "failure"
    /\ subject = CHOOSE s \in Subjects.failure : TRUE
    /\ EdgeInit

PagesIdle ==
    /\ page = "users"
    /\ PagesInit

MigrationIdle ==
    /\ hot = [r \in Rows |-> Paid]
    /\ MigrationInit

TwinsIdle ==
    /\ family = "pool"
    /\ TwinsInit

SetupIdle ==
    /\ jobs = {}
    /\ SetupInit

QueriesIdle ==
    /\ indexed = "none"
    /\ QueryInit

BenchInit ==
    /\ bench \in {"framing", "stream", "conversion", "metering", "edge", "limiter",
                  "store", "document", "session", "pages", "migration", "twins", "setup",
                  "connection", "query"}
    /\ IF Runs("framing") THEN FramingInit ELSE FramingIdle
    /\ IF Runs("stream") THEN StreamInit ELSE StreamIdle
    /\ IF Runs("conversion") THEN ConversionInit ELSE ConversionIdle
    /\ IF Runs("metering") THEN MeteringInit ELSE MeteringIdle
    /\ IF Runs("edge") THEN EdgeInit ELSE EdgeIdle
    /\ LimiterInit
    /\ StoreInit
    /\ DocumentInit
    /\ SessionInit
    /\ IF Runs("pages") THEN PagesInit ELSE PagesIdle
    /\ IF Runs("migration") THEN MigrationInit ELSE MigrationIdle
    /\ IF Runs("twins") THEN TwinsInit ELSE TwinsIdle
    /\ IF Runs("setup") THEN SetupInit ELSE SetupIdle
    /\ ConnectionInit
    /\ IF Runs("query") THEN QueryInit ELSE QueriesIdle

FramingSteps ==
    /\ Runs("framing") /\ FramingNext
    /\ UNCHANGED <<bench, streamVars, conversionVars, meteringVars, edgeVars,
                    limiterVars, storeVars, documentVars, sessionVars,
                    pageVars, migrationVars, twinVars, setupVars,
                    connectionVars, queryVars>>

StreamSteps ==
    /\ Runs("stream") /\ StreamNext
    /\ UNCHANGED <<bench, framingVars, conversionVars, meteringVars,
                    edgeVars, limiterVars, storeVars, documentVars,
                    sessionVars, pageVars, migrationVars, twinVars,
                    setupVars,
                    connectionVars, queryVars>>

ConversionSteps ==
    /\ Runs("conversion") /\ ConversionNext
    /\ UNCHANGED <<bench, framingVars, streamVars, meteringVars, edgeVars,
                    limiterVars, storeVars, documentVars, sessionVars,
                    pageVars, migrationVars, twinVars, setupVars,
                    connectionVars, queryVars>>

MeteringSteps ==
    /\ Runs("metering") /\ MeteringNext
    /\ UNCHANGED <<bench, framingVars, streamVars, conversionVars, edgeVars,
                    limiterVars, storeVars, documentVars, sessionVars,
                    pageVars, migrationVars, twinVars, setupVars,
                    connectionVars, queryVars>>

EdgeSteps ==
    /\ Runs("edge") /\ EdgeNext
    /\ UNCHANGED <<bench, framingVars, streamVars, conversionVars,
                    meteringVars, limiterVars, storeVars, documentVars,
                    sessionVars, pageVars, migrationVars, twinVars,
                    setupVars,
                    connectionVars, queryVars>>

LimiterSteps ==
    /\ Runs("limiter") /\ LimiterNext
    /\ UNCHANGED <<bench, framingVars, streamVars, conversionVars,
                    meteringVars, edgeVars, storeVars, documentVars,
                    sessionVars, pageVars, migrationVars, twinVars,
                    setupVars,
                    connectionVars, queryVars>>

StoreSteps ==
    /\ Runs("store") /\ StoreNext
    /\ UNCHANGED <<bench, framingVars, streamVars, conversionVars,
                    meteringVars, edgeVars, limiterVars, documentVars,
                    sessionVars, pageVars, migrationVars, twinVars,
                    setupVars,
                    connectionVars, queryVars>>

DocumentSteps ==
    /\ Runs("document") /\ DocumentNext
    /\ UNCHANGED <<bench, framingVars, streamVars, conversionVars,
                    meteringVars, edgeVars, limiterVars, storeVars,
                    sessionVars, pageVars, migrationVars, twinVars,
                    setupVars,
                    connectionVars, queryVars>>

SessionSteps ==
    /\ Runs("session") /\ SessionNext
    /\ UNCHANGED <<bench, framingVars, streamVars, conversionVars,
                    meteringVars, edgeVars, limiterVars, storeVars,
                    documentVars, pageVars, migrationVars, twinVars,
                    setupVars,
                    connectionVars, queryVars>>

PagesSteps ==
    /\ Runs("pages") /\ PagesNext
    /\ UNCHANGED <<bench, framingVars, streamVars, conversionVars,
                    meteringVars, edgeVars, limiterVars, storeVars,
                    documentVars, sessionVars, migrationVars, twinVars,
                    setupVars,
                    connectionVars, queryVars>>

MigrationSteps ==
    /\ Runs("migration") /\ MigrationNext
    /\ UNCHANGED <<bench, framingVars, streamVars, conversionVars,
                    meteringVars, edgeVars, limiterVars, storeVars,
                    documentVars, sessionVars, pageVars, twinVars, setupVars,
                    connectionVars, queryVars>>

TwinsSteps ==
    /\ Runs("twins") /\ TwinsNext
    /\ UNCHANGED <<bench, framingVars, streamVars, conversionVars,
                    meteringVars, edgeVars, limiterVars, storeVars,
                    documentVars, sessionVars, pageVars, migrationVars,
                    setupVars,
                    connectionVars, queryVars>>

SetupSteps ==
    /\ Runs("setup") /\ SetupNext
    /\ UNCHANGED <<bench, framingVars, streamVars, conversionVars,
                    meteringVars, edgeVars, limiterVars, storeVars,
                    documentVars, sessionVars, pageVars, migrationVars,
                    twinVars, connectionVars, queryVars>>

ConnectionSteps ==
    /\ Runs("connection") /\ ConnectionNext
    /\ UNCHANGED <<bench, framingVars, streamVars, conversionVars,
                    meteringVars, edgeVars, limiterVars, storeVars,
                    documentVars, sessionVars, pageVars, migrationVars,
                    twinVars, setupVars, queryVars>>

QuerySteps ==
    /\ Runs("query") /\ QueryNext
    /\ UNCHANGED <<bench, framingVars, streamVars, conversionVars,
                    meteringVars, edgeVars, limiterVars, storeVars,
                    documentVars, sessionVars, pageVars, migrationVars,
                    twinVars, setupVars, connectionVars>>

BenchNext ==
    \/ FramingSteps \/ StreamSteps \/ ConversionSteps \/ MeteringSteps
    \/ EdgeSteps \/ LimiterSteps \/ StoreSteps \/ DocumentSteps
    \/ SessionSteps \/ PagesSteps \/ MigrationSteps \/ TwinsSteps
    \/ SetupSteps \/ ConnectionSteps \/ QuerySteps

BenchSpec == BenchInit /\ [][BenchNext]_benchVars

Side(groups) == [groups |-> groups, dotted |-> <<>>, early |-> FALSE]
V4(bytes) == [v4 |-> bytes, head |-> Side(<<>>), tail |-> Side(<<>>), compressed |-> FALSE]
V6(head, tail, compressed) == [v4 |-> <<>>, head |-> head, tail |-> tail, compressed |-> compressed]

\* The forms of a text: dotted, mapped with a dotted tail or in groups, with
\* and without "::", with too few and too many groups, a dotted part too early.
SmallTexts ==
    {V4(<<a, b>>) : a \in Byte, b \in Byte}
      \cup {V6(Side(<<>>), [Side(<<3>>) EXCEPT !.dotted = <<a, b>>], TRUE) :
              a \in {0, 2}, b \in Byte}
      \cup {V6(Side(<<>>), Side(<<3, a, b>>), TRUE) : a \in {0, 2}, b \in Byte}
      \cup {V6(Side(<<1>>), Side(<<a>>), TRUE) : a \in Byte}
      \cup {V6(Side(<<1, 0, a, b>>), Side(<<>>), FALSE) : a \in {0, 3}, b \in {0, 3}}
      \cup {V6(Side(<<>>), Side(<<>>), TRUE), V6(Side(<<>>), Side(<<0, 1, 2, 3>>), TRUE),
            V6(Side(<<1, 2>>), Side(<<>>), FALSE),
            V6([groups |-> <<1>>, dotted |-> <<1, 2>>, early |-> TRUE], Side(<<>>), FALSE)}

\* Whoever acts in a component: requests, console calls, callers, rows.
Interchangeable == Permutations({b1, b2})
==============================================================================
