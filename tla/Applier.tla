------------------------------ MODULE Applier ------------------------------
(***************************************************************************)
(* What one raft log entry does to the state machine (raft-store crate,     *)
(* applier/ and state_machine_api_ext.rs): expired keys are removed, the    *)
(* command runs on the primary and the expire index, and the changes are    *)
(* sent to the watchers.  Only pure operators live here, on a state machine *)
(* record s; ApplierNodes gives them steps.                                 *)
(*                                                                         *)
(* A key is a pair of a directory, which is its prefix, and a number, the   *)
(* one put_sequential formats.                                              *)
(***************************************************************************)
EXTENDS Integers, Sequences, FiniteSets

CONSTANTS Dirs,         \* the key prefixes
          MaxU64,       \* the greatest u64
          Never,        \* no expiration; expires_at_ms() of a record without one
          Predicates    \* the predicates of the transactions, with children

ASSUME WidthAssumption == MaxU64 \in Nat /\ Never \in Nat

AlwaysTrue == [type |-> "and", children |-> <<>>]

ASSUME PredicatesAssumption ==
    /\ AlwaysTrue \in Predicates
    /\ \A p \in Predicates : p.type # "leaf" =>
         \A i \in DOMAIN p.children : p.children[i] \in Predicates

Key == Dirs \X (0 .. MaxU64)

\* Values are JSON numbers of one digit or a text that is no number; their
\* order is that of their bytes.
Text == MaxU64 + 1

Value == 0 .. Text

Record == [seq : Nat \ {0}, val : Value, exp : Nat]

Absent == [seq |-> 0, val |-> 0, exp |-> Never]

Assign(f, x, y) == [z \in DOMAIN f \cup {x} |-> IF z = x THEN y ELSE f[z]]

Remove(f, x) == [z \in DOMAIN f \ {x} |-> f[z]]

Empty == [x \in {} |-> x]

\* get_maybe_expired_kv
Lookup(s, k) == IF k \in DOMAIN s.kv THEN s.kv[k] ELSE Absent

\* list_kv: the live keys of a prefix.
ListKv(s, dir) == {k \in DOMAIN s.kv : k[1] = dir}

(***************************************************************************)
(* Upsert: the primary index, the expire index, the change.                 *)
(***************************************************************************)
\* The meta of an upsert: a ttl, an expire time, or neither.
Ttl(ms) == [ttl |-> ms, at |-> Never]

ExpireAt(ms) == [ttl |-> Never, at |-> ms]

NoMeta == [ttl |-> Never, at |-> Never]

Any == [type |-> "ge", seq |-> 0]

AtLeast(n) == [type |-> "ge", seq |-> n]

Exact(n) == [type |-> "exact", seq |-> n]

Update(k, v, meta) ==
    [key |-> k, match |-> Any, op |-> "update", val |-> v, meta |-> meta]

\* UpsertKV::delete matches any existing record.
Delete(k) ==
    [key |-> k, match |-> AtLeast(1), op |-> "delete", val |-> 0, meta |-> NoMeta]

\* CmdContext::resolve_meta_spec: a ttl overrides an expire time.
ResolveMeta(t, meta) == IF meta.ttl # Never THEN t + meta.ttl ELSE meta.at

MatchSeq(match, seq) ==
    IF match.type = "ge" THEN seq >= match.seq ELSE seq = match.seq

\* Mutant: an update does not take a new seq.
WrittenSeqNotBumped(s, up, exp) ==
    LET prev == Lookup(s, up.key)
    IN  CASE up.op = "update" -> [seq |-> s.seq, val |-> up.val, exp |-> exp]
          [] up.op = "delete" -> Absent
          [] up.op = "as_is"  -> IF prev = Absent THEN Absent
                                 ELSE [prev EXCEPT !.exp = exp]

\* The record an operation writes, before its expire time is looked at.
Written(s, up, exp) ==
    LET prev == Lookup(s, up.key)
    IN  CASE up.op = "update" -> [seq |-> s.seq + 1, val |-> up.val, exp |-> exp]
          [] up.op = "delete" -> Absent
          [] up.op = "as_is"  -> IF prev = Absent THEN Absent
                                 ELSE [prev EXCEPT !.seq = s.seq + 1, !.exp = exp]

\* upsert_kv_primary_index: the sequence counter and the resulting record.  A
\* record that is expired already is written, then deleted at once.
PrimaryIndex(s, t, up) ==
    LET exp     == ResolveMeta(t, up.meta)
        written == Written(s, up, exp)
    IN  IF ~MatchSeq(up.match, Lookup(s, up.key).seq)
        THEN [seq |-> s.seq, result |-> Lookup(s, up.key)]
        ELSE [seq    |-> IF written = Absent THEN s.seq ELSE s.seq + 1,
              result |-> IF exp < t THEN Absent ELSE written]

\* Mutant: the entry of the replaced record stays.
UpdateExpireIndexKeepsOld(index, key, removed, added) ==
    IF removed = added \/ added.exp = Never THEN index
    ELSE Assign(index, <<added.exp, added.seq>>, key)

\* update_expire_index
UpdateExpireIndex(index, key, removed, added) ==
    LET less == IF removed.exp = Never THEN index
                ELSE Remove(index, <<removed.exp, removed.seq>>)
    IN  IF removed = added THEN index
        ELSE IF added.exp = Never THEN less
        ELSE Assign(less, <<added.exp, added.seq>>, key)

\* push_change does nothing when nothing changed.
PushChange(s, key, prev, result) ==
    IF prev = result THEN s
    ELSE [s EXCEPT !.changes =
            Append(@, [key |-> key, prev |-> prev, result |-> result])]

\* Mutant: a change is reported only if the key has a value afterwards.
UpsertKvSilentDelete(s, t, up) ==
    LET prev == Lookup(s, up.key)
        p    == PrimaryIndex(s, t, up)
        s1   == [s EXCEPT
                   !.seq   = p.seq,
                   !.kv    = IF p.result = Absent THEN Remove(@, up.key)
                             ELSE Assign(@, up.key, p.result),
                   !.index = UpdateExpireIndex(@, up.key, prev, p.result)]
    IN  IF p.result = Absent THEN s1 ELSE PushChange(s1, up.key, prev, p.result)

\* Applier::upsert_kv
UpsertKv(s, t, up) ==
    LET prev == Lookup(s, up.key)
        p    == PrimaryIndex(s, t, up)
        s1   == [s EXCEPT
                   !.seq   = p.seq,
                   !.kv    = IF p.result = Absent THEN Remove(@, up.key)
                             ELSE Assign(@, up.key, p.result),
                   !.index = UpdateExpireIndex(@, up.key, prev, p.result)]
    IN  PushChange(s1, up.key, prev, p.result)
(***************************************************************************)
(* Expiration: clean_expired_kvs.                                           *)
(***************************************************************************)
\* Mutant: a record that expires at this very moment is listed too.
ListExpireIndexInclusive(s, t) ==
    {<<e[1], e[2], s.index[e]>> :
       e \in {x \in DOMAIN s.index : s.start <= x[1] /\ x[1] <= t}}

\* list_expire_index: from the last cleanup time up to the time of the entry,
\* that one excluded.
ListExpireIndex(s, t) ==
    {<<e[1], e[2], s.index[e]>> :
       e \in {x \in DOMAIN s.index : s.start <= x[1] /\ x[1] < t}}

\* The order of ExpireKey.
FirstExpired(es) ==
    CHOOSE e \in es : \A o \in es : e[1] < o[1] \/ (e[1] = o[1] /\ e[2] <= o[2])

(***************************************************************************)
(* Transactions: predicates.                                                *)
(***************************************************************************)
Compare(l, op, r) ==
    CASE op = "eq" -> l = r  [] op = "ne" -> l # r
      [] op = "lt" -> l < r  [] op = "le" -> l <= r
      [] op = "gt" -> l > r  [] op = "ge" -> l >= r

AtMost(n, limit) == IF n <= limit THEN n ELSE limit

\* Mutant: counting stops one key too early.
CompareKeyCountShort(s, dir, op, n) ==
    Compare(AtMost(Cardinality(ListKv(s, dir)), n), op, n)

\* KeysWithPrefix(n): counting stops after n + 1 keys; n + 1 is a u64, without
\* overflow checks in a release build.
CompareKeyCount(s, dir, op, n) ==
    LET limit == (n + 1) % (MaxU64 + 1)
    IN  Compare(AtMost(Cardinality(ListKv(s, dir)), limit), op, n)

\* eval_condition
EvalCondition(s, c) ==
    CASE c.target = "seq"    -> Compare(Lookup(s, c.key).seq, c.op, c.n)
      [] c.target = "value"  -> /\ c.key \in DOMAIN s.kv
                                /\ Compare(s.kv[c.key].val, c.op, c.n)
      [] c.target = "prefix" -> CompareKeyCount(s, c.key[1], c.op, c.n)

\* eval_predicate: an empty Or is true.
EvalPredicate(s, pred) ==
    LET eval[p \in Predicates] ==
          CASE p.type = "and"  -> \A i \in DOMAIN p.children : eval[p.children[i]]
            [] p.type = "or"   -> \/ \E i \in DOMAIN p.children : eval[p.children[i]]
                                  \/ p.children = <<>>
            [] p.type = "leaf" -> EvalCondition(s, p.cond)
    IN  eval[pred]

\* apply_kv_transaction: the operations of the first branch that matches.
ChooseBranch(s, branches) ==
    LET matched == {i \in DOMAIN branches : EvalPredicate(s, branches[i].pred)}
        first   == CHOOSE i \in matched : \A j \in matched : i <= j
    IN  IF matched = {} THEN <<>> ELSE branches[first].ops

\* From<&TxnRequest>: the request's own branches, the condition branch, and
\* else_then unless it is empty.
FromTxnRequest(req) ==
    req.operations
      \o <<[pred |-> req.condition, ops |-> req.if_then]>>
      \o (IF req.else_then = <<>> THEN <<>>
          ELSE <<[pred |-> AlwaysTrue, ops |-> req.else_then]>>)

(***************************************************************************)
(* Transactions: operations.                                                *)
(***************************************************************************)
\* u64::saturating_add_signed
SaturatingAdd(n, delta) ==
    IF n + delta < 0 THEN 0 ELSE AtMost(n + delta, MaxU64)

\* A value that is no number counts as 0.
Counter(s, k) == LET v == Lookup(s, k).val IN IF v = Text THEN 0 ELSE v

\* match_seq of an operation is optional: a set of at most one number.
Matches(s, op) == op.match = {} \/ Lookup(s, op.key).seq \in op.match

WithMatch(up, match) ==
    IF match = {} THEN up
    ELSE [up EXCEPT !.match = Exact(CHOOSE seq \in match : TRUE)]

\* execute_fetch_increase_u64: first the floor, then the addition.
FetchIncrease(s, t, op) ==
    LET before == Counter(s, op.key)
        after  == SaturatingAdd(IF before < op.floor THEN op.floor ELSE before,
                                op.delta)
    IN  IF ~Matches(s, op) THEN s ELSE UpsertKv(s, t, Update(op.key, after, NoMeta))

\* execute_put_sequential: the number before the increase names the key.
PutSequential(s, t, op) ==
    LET fetch == [key |-> op.seqKey, match |-> {}, delta |-> 1, floor |-> 0]
    IN  UpsertKv(FetchIncrease(s, t, fetch), t,
                 Update(<<op.dir, Counter(s, op.seqKey)>>, op.val, op.meta))

\* execute_op.  delete_by_prefix lists its keys here and deletes them one by
\* one, see DeleteListed.
ExecuteOp(s, t, op) ==
    CASE op.op = "get"        -> s
      [] op.op = "put"        -> UpsertKv(s, t, WithMatch(Update(op.key, op.val, op.meta),
                                                          op.match))
      [] op.op = "delete"     -> UpsertKv(s, t, WithMatch(Delete(op.key), op.match))
      [] op.op = "prefix"     -> [s EXCEPT !.listed = ListKv(s, op.dir)]
      [] op.op = "increase"   -> FetchIncrease(s, t, op)
      [] op.op = "sequential" -> PutSequential(s, t, op)

\* Mutant: the loop deletes from the primary index only.
DeleteListedPrimaryOnly(s, t, k) ==
    LET s1 == [s EXCEPT !.kv = Remove(@, k)]
    IN  [PushChange(s1, k, Lookup(s, k), Absent) EXCEPT !.listed = @ \ {k}]

\* The loop of execute_delete_by_prefix: upsert_kv has reported the change
\* when it is reported again.
DeleteListed(s, t, k) ==
    LET prev == Lookup(s, k)
        s1   == UpsertKv(s, t, Delete(k))
    IN  [PushChange(s1, k, prev, Lookup(s1, k)) EXCEPT !.listed = @ \ {k}]

(***************************************************************************)
(* Commands on the system data.                                             *)
(***************************************************************************)
\* apply_add_node
AddNode(s, c) ==
    IF c.id \in DOMAIN s.nodes /\ ~c.overriding THEN s
    ELSE [s EXCEPT !.nodes = Assign(@, c.id, c.node)]

\* apply_remove_node
RemoveNode(s, c) == [s EXCEPT !.nodes = Remove(@, c.id)]

\* apply_set_feature
SetFeature(s, c) ==
    [s EXCEPT !.features = IF c.enable THEN @ \cup {c.feature} ELSE @ \ {c.feature}]

\* apply and apply_cmd: what remains to be done are the operations of a
\* transaction.
ApplyCmd(s, t, c) ==
    CASE c.kind = "blank"       -> s
      [] c.kind = "membership"  -> [s EXCEPT !.members = c.members]
      [] c.kind = "add_node"    -> AddNode(s, c)
      [] c.kind = "remove_node" -> RemoveNode(s, c)
      [] c.kind = "set_feature" -> SetFeature(s, c)
      [] c.kind = "upsert"      -> UpsertKv(s, t, c.up)
      [] c.kind = "txn_request" -> [s EXCEPT !.ops = ChooseBranch(s, FromTxnRequest(c))]
      [] c.kind = "txn"         -> [s EXCEPT !.ops = ChooseBranch(s, c.branches)]
=============================================================================
