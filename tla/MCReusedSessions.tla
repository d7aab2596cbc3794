-------------------------- MODULE MCReusedSessions --------------------------
(***************************************************************************)
(* The sessions whose objects keep a pool, a client and parameters that    *)
(* the Setup of a next job replaces under the calls of the job before, for *)
(* TLC: a behaviour is one of one of the four sessions.  They share the    *)
(* variables that mean the same.                                           *)
(***************************************************************************)
EXTENDS RabbitMQMassiveQueue

CONSTANTS
    MaxSetups,
    MaxSize

ASSUME SizeAssumption == MaxSize \in Nat

VARIABLES
    kind,  \* the session
    failed, client, clients, prod, cons, progress, offset,  \* pulsar
    links, setups, params, transport, measured, completed,  \* http-get
    size  \* kafka

pulsarVars == <<failed, client, clients, prod, cons>>
httpVars   == <<links, setups, params, transport>>
countVars  == <<measured, completed>>
gaugeVars  == <<progress, offset>>
mcVars     == <<kind, vars, pulsarVars, gaugeVars, httpVars, countVars, size>>

Pulsar == INSTANCE PulsarMassiveQueue
Http   == INSTANCE HttpGet
Kafka  == INSTANCE KafkaProducer WITH written <- measured, success <- completed

PulsarRests ==
    /\ failed = [u \in Calls |-> FALSE]
    /\ client = 1 /\ clients = {1}
    /\ prod = [u \in Calls |-> Nil] /\ cons = [u \in Calls |-> Nil]

HttpRests ==
    /\ links = [u \in Calls |-> 1]
    /\ setups = 0
    /\ params = CHOOSE p \in Http!NoProxy : p.h2
    /\ transport = Http!Asked(params)

QueuesRest ==
    /\ sub = [u \in Calls |-> "none"]
    /\ ready = [u \in Calls |-> 0] /\ got = [u \in Calls |-> 0]
    /\ raced = [u \in Calls |-> FALSE]

PoolRests ==
    /\ pool = [u \in Calls |-> "none"] /\ view = [u \in Calls |-> <<>>]
    /\ pub = [u \in Calls |-> Nil] /\ subc = [u \in Calls |-> Nil]
    /\ conns = <<>> /\ open = {} /\ dialled = 0 /\ lock = Nil
    /\ leaked = [c \in 1..MaxDials |-> 0] /\ full = {}

SendRests   == sent = [u \in Calls |-> 0] /\ limit = Messages
CountsRest  == measured = 0 /\ completed = 0 /\ size = 0
GaugeRests  == progress = 0 /\ offset = 0

MCInit ==
    \/ /\ kind = "rabbitmq" /\ Init
       /\ PulsarRests /\ GaugeRests /\ HttpRests /\ CountsRest
    \/ /\ kind = "pulsar" /\ Pulsar!Init
       /\ PoolRests /\ HttpRests /\ CountsRest
    \/ /\ kind = "http" /\ Http!Init /\ size = 0
       /\ SendRests /\ QueuesRest /\ PoolRests /\ PulsarRests
    \/ /\ kind = "kafka" /\ Kafka!Init
       /\ QueuesRest /\ PoolRests /\ PulsarRests /\ HttpRests

\* A step of session k leaves the variables of the others alone.
Of(k, others) == kind = k /\ UNCHANGED <<kind, others>>

OfRabbitMQ == Of("rabbitmq", <<pulsarVars, gaugeVars, httpVars, countVars, size>>)
OfPulsar   == Of("pulsar", <<chanVars, poolVars, channels, httpVars, countVars, size>>)
OfHttp     ==
    Of("http", <<sent, limit, queueVars, chanVars, poolVars, channels, pulsarVars, size>>)
OfKafka    == Of("kafka", <<queueVars, chanVars, poolVars, channels, pulsarVars, httpVars>>)

MCNext ==
    \/ Next /\ OfRabbitMQ
    \/ Pulsar!Next /\ OfPulsar
    \/ Http!Next /\ OfHttp
    \/ Kafka!Next /\ OfKafka

\* Goroutines run and the pool's lock is granted.  A call of a library returns:
\* an HTTP request by the client's timeout of a minute, an operation of Pulsar by
\* its timeouts, and one of RabbitMQ because the heartbeat that Dial asks for ends
\* the connection to a silent broker, and one that keeps it up is taken to answer,
\* and to deliver what is published on a connection that stays open.  A call of
\* Kafka has no deadline, and may hang.  Behaviours end, so that fairness to all
\* the calls at once is fairness to each.
MCSpec ==
    /\ MCInit /\ [][MCNext]_mcVars
    /\ WF_mcVars(\E u \in Calls :
         \/ OfRabbitMQ /\ (PoolStep(u) \/ MainStep(u) \/ SubStep(u))
         \/ OfPulsar /\ (Pulsar!MainStep(u) \/ Pulsar!SubStep(u))
         \/ OfHttp /\ Http!CallStep(u)
         \/ OfKafka /\ Kafka!CallStep(u))

-----------------------------------------------------------------------------
\* The gauge of calls in progress is short by those that were under way when a
\* next job's Setup reset it, however they end, so that it may be negative; the
\* other counters of http-get and kafka:producer balance without such calls.
CountersBalance ==
    /\ kind = "pulsar" => Pulsar!GaugeOff
    /\ kind = "http" => Http!CountersBalance
    /\ kind = "kafka" => Kafka!CountersBalance

\* A Setup of http-get that succeeds leaves the client that its parameters ask
\* for; and the parameters that end the process are known.
SetupAsAsked == kind = "http" => Http!SetupAsAsked

\* The publishing connection of a call is gone, and the subscriber's is not:
\* a lost message is waited for without end.
CutOff(u) == Live(subc, u) /\ ~Live(pub, u)

\* Calls return, whatever breaks under them.  The exceptions are a process that
\* has ended; with RabbitMQ two channels on different connections of which the
\* publishing one breaks, and a Setup that changes queueMessages under the call;
\* and with Kafka a broker that is silent.
EveryCallReturns ==
    <>[](\A u \in UnderWay :
            \/ ~alive
            \/ kind = "rabbitmq" /\ (CutOff(u) \/ raced[u])
            \/ kind = "kafka" /\ main[u] = "hung")
=============================================================================
