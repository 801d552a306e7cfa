----------------------------- MODULE RabbitSurface -----------------------------
(***************************************************************************)
(* What an application declares of RabbitMQ, as the profiler describes it: *)
(* which registrations golevelup performs for a decorated handler          *)
(* (rabbitmq-discover-source.ts), the options each was merged from         *)
(* (rabbitmq-subscription.describe.ts) and the topology around them        *)
(* (rabbitmq-topology.describe.ts).                                        *)
(*                                                                         *)
(* A configuration is a function over the keys it sets; an option bag too. *)
(***************************************************************************)
EXTENDS Sequences, SequencesExt, FiniteSets, TLC

CONSTANTS RsNone, RsEmpty  \* undefined; the empty string

At(bag, key) == IF key \in DOMAIN bag THEN bag[key] ELSE RsNone
Unique(seq) == FoldLeft(LAMBDA kept, x : IF Contains(kept, x) THEN kept ELSE Append(kept, x),
                        <<>>, seq)
OrLabel(name, label) == IF name \in {RsNone, RsEmpty} THEN label ELSE name
DefaultLabel == "(default)"
GeneratedQueue == "(broker-generated)"

(* formatEmptyValue: an empty exchange is the default one.                 *)
Shown(key, value, exchanges) ==
    IF value # RsEmpty THEN value ELSE IF key \in exchanges THEN DefaultLabel ELSE "(empty)"
ExchangeKeys == {"deadLetterExchange", "dead-letter-exchange", "x-dead-letter-exchange",
                 "alternate-exchange", "exchange"}
(* Options as shown: what was never set is left out.                       *)
Put(bag) ==
    [key \in {k \in DOMAIN bag : bag[k] # RsNone} |-> Shown(key, bag[key], ExchangeKeys)]

-----------------------------------------------------------------------------
(* The connections the container holds, managed or on their own, and what  *)
(* each was configured with, unless it refuses to tell.                    *)
DiscoverConnections(held) == SelectSeq(Unique(held), LAMBDA c : c.readable)

(* golevelup's own lookup: no key, the decorator alone; a key nobody       *)
(* configured, no registration.                                            *)
ModuleHandlerConfigs(connection, key) ==
    IF key = RsNone THEN <<RsNone>>
    ELSE IF key \in DOMAIN connection.handlers THEN connection.handlers[key] ELSE <<>>
Merged(config, moduleConfig) ==
    IF moduleConfig = RsNone THEN config ELSE moduleConfig @@ config
Subscription(config, connection, registered) ==
    [config |-> config, connection |-> connection, registered |-> registered]
ResolvedOn(config, connection) ==
    LET key == IF At(config, "name") # RsNone THEN config.name ELSE connection.defaultHandler
        found == ModuleHandlerConfigs(connection, key)
    IN  IF found = <<>> THEN <<Subscription(config, connection.name, FALSE)>>
        ELSE [i \in DOMAIN found |->
                Subscription(Merged(config, found[i]), connection.name, TRUE)]
ResolveSubscriptions(config, connections) ==
    LET pinned == At(config, "connection")
        targets == IF pinned = RsNone THEN connections
                   ELSE SelectSeq(connections, LAMBDA c : c.name = pinned)
    IN  IF connections = <<>> THEN <<Subscription(config, RsNone, TRUE)>>
        ELSE IF targets = <<>> THEN <<Subscription(config, pinned, TRUE)>>
        ELSE FlattenSeq([i \in DOMAIN targets |-> ResolvedOn(config, targets[i])])

(* The path of an entry, in words.                                         *)
Locator(config) ==
    LET exchange == At(config, "exchange")
        target == IF At(config, "routingKey") # RsNone THEN config.routingKey
                  ELSE At(config, "queue")
    IN  IF exchange \notin {RsNone, RsEmpty} /\ target \notin {RsNone, RsEmpty}
        THEN <<exchange, target>>
        ELSE IF exchange # RsNone THEN <<exchange>>
        ELSE IF target # RsNone THEN <<target>> ELSE <<DefaultLabel>>

QueueOptionKeys == {"durable", "messageTtl", "deadLetterExchange"}
BehaviourKeys == {"errorHandler", "deserializer"}
OnlyKeys(bag, keys) == [key \in DOMAIN bag \cap keys |-> bag[key]]
SubscriptionItems(config, connection) ==
    Put([queue |-> OrLabel(At(config, "queue"), GeneratedQueue),
         exchange |-> OrLabel(At(config, "exchange"), DefaultLabel),
         routingKey |-> IF At(config, "routingKey") = RsEmpty THEN RsNone
                        ELSE At(config, "routingKey"),
         connection |-> connection, handlerConfig |-> At(config, "name"),
         channel |-> IF At(config, "queueOptions") = RsNone THEN RsNone
                      ELSE At(config.queueOptions, "channel")])
QueueOptionItems(config) ==
    LET options == At(config, "queueOptions")
    IN  IF options = RsNone THEN <<>>
        ELSE Put((IF At(options, "arguments") = RsNone THEN <<>> ELSE options.arguments)
                 @@ OnlyKeys(options, QueueOptionKeys))
BehaviourItems(config) == Put(OnlyKeys(config, BehaviourKeys))
DescribeSubscription(config, connection) ==
    LET bindings == IF At(config, "bindings") = RsNone THEN <<>> ELSE config.bindings
        groups == << [label |-> "Subscription", items |-> SubscriptionItems(config, connection)],
                     [label |-> "Bindings", items |-> bindings],
                     [label |-> "Queue options", items |-> QueueOptionItems(config)],
                     [label |-> "Behaviour", items |-> BehaviourItems(config)] >>
    IN  SelectSeq(groups, LAMBDA g : g.items # <<>>)

-----------------------------------------------------------------------------
(* The topology: one item per connection, exchange, queue and binding,     *)
(* which names its connection only where there are several.                *)
FormatUri(uri) == [host |-> uri.host, secret |-> IF uri.text /\ uri.secret THEN "masked" ELSE RsNone]
Item(name, detail, flags, attributes) ==
    [name |-> name, detail |-> detail, flags |-> flags, attributes |-> Put(attributes)]
ConnectionItem(c) ==
    Item(c.name, [i \in DOMAIN c.uris |-> FormatUri(c.uris[i])], c.flags,
         [prefetch |-> c.prefetch,
          handlers |-> IF DOMAIN c.handlers = {} THEN RsNone ELSE DOMAIN c.handlers])
OfConnection(label, options) == options @@ ("connection" :> label)
ExchangeItem(x, c, label) ==
    Item(OrLabel(x.name, DefaultLabel), IF x.kind = RsNone THEN c.defaultKind ELSE x.kind, x.flags,
         OfConnection(label, x.options))
(* Without an exchange, a queue is fed through the default one.            *)
QueueItem(q, c, label) ==
    Item(OrLabel(q.name, GeneratedQueue),
         <<OrLabel(q.exchange, DefaultLabel)>>
           \o SelectSeq(q.routingKeys, LAMBDA key : key \notin {RsNone, RsEmpty}),
         q.flags, OfConnection(label, q.options))
BindingItem(b, c, label) ==
    Item(<<OrLabel(b.source, DefaultLabel), b.destination>>, b.pattern, {}, OfConnection(label, b.options))

Section(label, items) == [label |-> label, items |-> items]
DescribeTopology(connections) ==
    LET label(c) == IF Len(connections) > 1 THEN c.name ELSE RsNone
        each(field, Describe(_, _, _)) ==
            FlattenSeq([i \in DOMAIN connections |->
                LET c == connections[i]
                IN  [j \in DOMAIN c[field] |-> Describe(c[field][j], c, label(c))]])
        declared == << Section("Exchanges", each("exchanges", ExchangeItem)),
                       Section("Queues", each("queues", QueueItem)),
                       Section("Exchange bindings", each("bindings", BindingItem)) >>
    IN  IF connections = <<>> THEN <<>>
        ELSE <<Section("Connections", [i \in DOMAIN connections |-> ConnectionItem(connections[i])])>>
             \o SelectSeq(declared, LAMBDA s : s.items # <<>>)
=============================================================================
