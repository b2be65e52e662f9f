--------------------------- MODULE MCApplierNodes ---------------------------
(* Commands for model-checking ApplierNodes. *)
EXTENDS ApplierNodes

CONSTANTS d, counters

K(n) == <<d, n>>

\* The counter of the sequential keys.
C == <<counters, 0>>

Upsert(up) == [kind |-> "upsert", up |-> up]

AsIs(k, meta) == [key |-> k, match |-> AtLeast(1), op |-> "as_is", val |-> 0,
                  meta |-> meta]

\* Records that expire, that stop to expire, that expire before they are
\* written, and entries without a time.
TtlCommands ==
    {[kind |-> "blank"], Upsert(Delete(K(0)))}
      \cup {Upsert(Update(K(0), 1, m)) : m \in {NoMeta, ExpireAt(2)}}
      \cup {Upsert(AsIs(K(0), ExpireAt(3))), Upsert(Update(K(1), 1, Ttl(1)))}

Put(k, v, match) == [op |-> "put", key |-> k, val |-> v, meta |-> NoMeta,
                     match |-> match]

PutTtl(k, v) == [op |-> "put", key |-> k, val |-> v, meta |-> Ttl(1),
                 match |-> {}]

Del(k) == [op |-> "delete", key |-> k, match |-> {}]

Increase(k, delta, floor, match) ==
    [op |-> "increase", key |-> k, delta |-> delta, floor |-> floor, match |-> match]

Sequential == [op |-> "sequential", dir |-> d, seqKey |-> C, val |-> Text,
               meta |-> Ttl(1)]

Prefix == [op |-> "prefix", dir |-> d]

Leaf(k, target, op, n) ==
    [type |-> "leaf", cond |-> [key |-> k, target |-> target, op |-> op, n |-> n]]

Exists == Leaf(K(0), "seq", "ge", 1)

IsText == Leaf(K(1), "value", "eq", Text)

Crowded == Leaf(K(0), "prefix", "gt", 1)

Either == [type |-> "or", children |-> <<IsText, Crowded>>]

Both == [type |-> "and", children |-> <<Exists, Either>>]

Vacuous == [type |-> "or", children |-> <<>>]

MCPredicates == {AlwaysTrue, Exists, IsText, Crowded, Either, Both, Vacuous}

Txn(branches) == [kind |-> "txn", branches |-> branches]

Branch(pred, ops) == [pred |-> pred, ops |-> ops]

SequenceTxn ==
    Txn(<<Branch(Both, <<Del(K(0)), Put(K(1), 1, {})>>),
          Branch(Exists, <<Sequential, Increase(C, -1, 2, {})>>),
          Branch(Vacuous, <<Increase(C, 0, 0, {0}), Sequential>>)>>)

RequestTxn ==
    [kind |-> "txn_request", operations |-> <<Branch(IsText, <<PutTtl(K(1), 0)>>)>>,
     condition |-> Crowded, if_then |-> <<Put(K(0), Text, {1})>>,
     else_then |-> <<[op |-> "get", key |-> K(0)], PutTtl(K(0), 0), Del(K(1))>>]

SystemCommands ==
    {[kind |-> "membership", members |-> {1}],
     [kind |-> "add_node", id |-> 1, node |-> "a", overriding |-> FALSE],
     [kind |-> "add_node", id |-> 1, node |-> "b", overriding |-> TRUE],
     [kind |-> "remove_node", id |-> 1],
     [kind |-> "set_feature", feature |-> "f", enable |-> TRUE],
     [kind |-> "set_feature", feature |-> "f", enable |-> FALSE]}

PrefixTxn == Txn(<<Branch(Exists, <<Prefix, PutTtl(K(1), 1)>>)>>)

\* Every operation and every command.
TxnCommands ==
    {SequenceTxn, RequestTxn, PrefixTxn, Upsert(Delete(K(0)))} \cup SystemCommands
=============================================================================
