---------------------------- MODULE CacheOperations ----------------------------
(***************************************************************************)
(* The key-value operations of a cache (cache.go): what each one refuses,  *)
(* the opcode and the values it writes, in their order, and how it reads   *)
(* the answer; and the node, which decodes a request by its opcode alone   *)
(* and executes it.  Sending is the business of the channel modules: here  *)
(* a request that is sent is answered.                                     *)
(***************************************************************************)
EXTENDS Integers, Sequences, SequencesExt, FiniteSetsExt

CONSTANTS Keys, Values, \* what is stored
          Absent,       \* Go's nil, and "no entry"
          Policies,     \* the expiry policies [creation, access, update] of the handles in use, or Absent
          MaxKeys       \* the most keys one call names

(* A duration is any int64; the client sends nil for no key or value.      *)
ASSUME OperationsAssumption ==
    /\ Policies \subseteq [creation : Int, access : Int, update : Int] \cup {Absent}
    /\ MaxKeys \in Nat

VARIABLES store, \* on the node: the value of every key, or Absent
          last   \* the last call: its arguments, what it returned, the policy it ran under

operationVars == <<store, last>>

NilOr(S) == S \cup {Absent}

(* The lists of arguments of a call that names several keys.               *)
Lists(S) == BoundedSeq(NilOr(S), MaxKeys)

-----------------------------------------------------------------------------
(* Durations, in nanoseconds in Go and in milliseconds on the wire.        *)

DurationUnchanged == -2
DurationEternal   == -1
Millisecond       == 1000000

DurationToMillis(d) == CASE d > 0                  -> d \div Millisecond
                         [] d <= DurationUnchanged -> DurationUnchanged
                         [] OTHER                  -> d

MillisToDuration(m) == IF m > 0 THEN m * Millisecond ELSE m

(* Mutant: the order of the fields of the struct.                          *)
InStructOrder(p) ==
    IF p = Absent THEN <<>>
    ELSE <<DurationToMillis(p.creation), DurationToMillis(p.access), DurationToMillis(p.update)>>

(* writeCacheInfo: what follows the flags.                                 *)
PolicyCells(p) ==
    IF p = Absent THEN <<>>
    ELSE <<DurationToMillis(p.creation), DurationToMillis(p.update), DurationToMillis(p.access)>>

(* How the node reads it.                                                  *)
NodePolicy(cells) ==
    IF cells = <<>> THEN Absent ELSE [creation |-> cells[1], update |-> cells[2], access |-> cells[3]]

-----------------------------------------------------------------------------
(* What an operation is for a map s: its effect and its result, of         *)
(* arguments a that have names.                                            *)

Single(op, s, a) ==
    LET k         == a.key
        old       == s[k]
        Put(v)    == [s EXCEPT ![k] = v]
        Without   == [s EXCEPT ![k] = Absent]
        When(c, t, r) == [store |-> IF c THEN t ELSE s, ret |-> r]
    IN  CASE op = "Get"               -> When(FALSE, s, old)
          [] op = "Put"               -> When(TRUE, Put(a.value), Absent)
          [] op = "GetAndPut"         -> When(TRUE, Put(a.value), old)
          [] op = "GetAndReplace"     -> When(old # Absent, Put(a.value), old)
          [] op = "GetAndPutIfAbsent" -> When(old = Absent, Put(a.value), old)
          [] op = "GetAndRemove"      -> When(TRUE, Without, old)
          [] op = "PutIfAbsent"       -> When(old = Absent, Put(a.value), old = Absent)
          [] op = "Replace"           -> When(old # Absent, Put(a.value), old # Absent)
          [] op = "ReplaceIfEquals"   -> When(old = a.oldValue, Put(a.newValue), old = a.oldValue)
          [] op = "Remove"            -> When(TRUE, Without, old # Absent)
          [] op = "RemoveIfEquals"    -> When(old = a.oldValue, Without, old = a.oldValue)
          [] op = "ContainsKey"       -> When(FALSE, s, old # Absent)
          [] op = "Clear"             -> When(TRUE, Without, Absent)

Several(op, s, a) ==
    LET found == {k \in Range(a.keys) : s[k] # Absent}
        Gone  == [k \in Keys |-> IF k \in Range(a.keys) THEN Absent ELSE s[k]]
        Puts  == [k \in Keys |-> LET at == {i \in DOMAIN a.keys : a.keys[i] = k}
                                IN  IF at = {} THEN s[k] ELSE a.values[Max(at)]]
    IN  CASE op = "GetAll"       -> [store |-> s, ret |-> {<<k, s[k]>> : k \in found}]
          [] op = "PutAll"       -> [store |-> Puts, ret |-> Absent]
          [] op = "ContainsKeys" -> [store |-> s, ret |-> found = Range(a.keys)]
          [] op \in {"RemoveKeys", "ClearKeys"} -> [store |-> Gone, ret |-> Absent]

Whole(op, s) ==
    IF op = "Size" THEN [store |-> s, ret |-> Cardinality({k \in Keys : s[k] # Absent})]
    ELSE [store |-> [k \in Keys |-> Absent], ret |-> Absent]

Meaning(op, s, a) ==
    CASE "key" \in DOMAIN a  -> Single(op, s, a)
      [] "keys" \in DOMAIN a -> Several(op, s, a)
      [] OTHER               -> Whole(op, s)

-----------------------------------------------------------------------------
(* The node: which operation an opcode is, and which arguments it takes    *)
(* from the values of the request, in their order.                         *)

NodeOp(code) ==
    <<"Get", "Put", "PutIfAbsent", "GetAll", "PutAll", "GetAndPut", "GetAndReplace", "GetAndRemove",
      "GetAndPutIfAbsent", "Replace", "ReplaceIfEquals", "ContainsKey", "ContainsKeys", "ClearAll",
      "Clear", "ClearKeys", "Remove", "RemoveIfEquals", "RemoveKeys", "RemoveAll", "Size">>[code - 999]

NodeArguments(op, cells) ==
    CASE op \in {"Get", "GetAndRemove", "ContainsKey", "Remove", "Clear"} -> [key |-> cells[1]]
      [] op \in {"Put", "PutIfAbsent", "GetAndPut", "GetAndReplace", "GetAndPutIfAbsent", "Replace"}
                                 -> [key |-> cells[1], value |-> cells[2]]
      [] op = "RemoveIfEquals"   -> [key |-> cells[1], oldValue |-> cells[2]]
      [] op = "ReplaceIfEquals"  -> [key |-> cells[1], oldValue |-> cells[2], newValue |-> cells[3]]
      [] op \in {"GetAll", "ContainsKeys", "RemoveKeys", "ClearKeys"}
                                 -> [keys |-> SubSeq(cells, 2, 1 + cells[1])]
      [] op = "PutAll"           -> [keys   |-> [i \in 1..cells[1] |-> cells[2 * i]],
                                     values |-> [i \in 1..cells[1] |-> cells[2 * i + 1]]]
      [] OTHER                   -> <<>>

NodeRuns(code, cells, s) == Meaning(NodeOp(code), s, NodeArguments(NodeOp(code), cells))

-----------------------------------------------------------------------------
(* A call that is refused, or has nothing to do, without a request.        *)
Returns(op, a, err, ret) ==
    /\ last' = [op |-> op, args |-> a, err |-> err, ret |-> ret, policy |-> Absent, ran |-> Absent]
    /\ UNCHANGED store

(* A request of the given opcode and values, and its answer.               *)
Sends(op, a, code, cells) ==
    \E p \in Policies :
        LET r == NodeRuns(code, cells, store)
        IN  /\ store' = r.store
            /\ last' = [op |-> op, args |-> a, err |-> FALSE, ret |-> r.ret,
                        policy |-> p, ran |-> NodePolicy(PolicyCells(p))]

(* An operation on one key: no argument may be nil.                        *)
OnKey(op, a, code, cells) ==
    IF Absent \in Range(cells) THEN Returns(op, a, TRUE, Absent) ELSE Sends(op, a, code, cells)

(* Mutant: nil keys are passed over.                                       *)
SkipsNil(op, a, code, ret, cells) ==
    LET given == SelectSeq(cells, LAMBDA c : c # Absent)
    IN  IF given = <<>> THEN Returns(op, a, FALSE, ret)
        ELSE Sends(op, a, code, <<Len(given)>> \o given)

(* On several keys: nothing to do for none, and the request is given up    *)
(* while it is written when one of them is nil.                            *)
OnKeys(op, a, code, ret, cells) ==
    CASE cells = <<>>         -> Returns(op, a, FALSE, ret)
      [] Absent \in Range(cells) -> Returns(op, a, TRUE, Absent)
      [] OTHER                -> Sends(op, a, code, <<Len(cells)>> \o cells)

Get          == \E k \in NilOr(Keys) : OnKey("Get", [key |-> k], 1000, <<k>>)
ContainsKey  == \E k \in NilOr(Keys) : OnKey("ContainsKey", [key |-> k], 1011, <<k>>)
RemoveKey    == \E k \in NilOr(Keys) : OnKey("Remove", [key |-> k], 1016, <<k>>)
GetAndRemove == \E k \in NilOr(Keys) : OnKey("GetAndRemove", [key |-> k], 1007, <<k>>)
ClearKey     == \E k \in NilOr(Keys) : OnKey("Clear", [key |-> k], 1014, <<k>>)

Put == \E k \in NilOr(Keys), v \in NilOr(Values) :
           OnKey("Put", [key |-> k, value |-> v], 1001, <<k, v>>)
PutIfAbsent == \E k \in NilOr(Keys), v \in NilOr(Values) :
           OnKey("PutIfAbsent", [key |-> k, value |-> v], 1002, <<k, v>>)
GetAndPut == \E k \in NilOr(Keys), v \in NilOr(Values) :
           OnKey("GetAndPut", [key |-> k, value |-> v], 1005, <<k, v>>)
GetAndReplace == \E k \in NilOr(Keys), v \in NilOr(Values) :
           OnKey("GetAndReplace", [key |-> k, value |-> v], 1006, <<k, v>>)
GetAndPutIfAbsent == \E k \in NilOr(Keys), v \in NilOr(Values) :
           OnKey("GetAndPutIfAbsent", [key |-> k, value |-> v], 1008, <<k, v>>)
Replace == \E k \in NilOr(Keys), v \in NilOr(Values) :
           OnKey("Replace", [key |-> k, value |-> v], 1009, <<k, v>>)
RemoveIfEquals == \E k \in NilOr(Keys), v \in NilOr(Values) :
           OnKey("RemoveIfEquals", [key |-> k, oldValue |-> v], 1017, <<k, v>>)

ReplaceIfEquals == \E k \in NilOr(Keys), v, w \in NilOr(Values) :
    OnKey("ReplaceIfEquals", [key |-> k, oldValue |-> v, newValue |-> w], 1010, <<k, v, w>>)

GetAll       == \E ks \in Lists(Keys) : OnKeys("GetAll", [keys |-> ks], 1003, {}, ks)
ContainsKeys == \E ks \in Lists(Keys) : OnKeys("ContainsKeys", [keys |-> ks], 1012, TRUE, ks)
RemoveKeys   == \E ks \in Lists(Keys) : OnKeys("RemoveKeys", [keys |-> ks], 1018, Absent, ks)
ClearKeys    == \E ks \in Lists(Keys) : OnKeys("ClearKeys", [keys |-> ks], 1015, Absent, ks)

(* PutAll writes the number of the pairs, then each key before its value.  *)
PutAll == \E ks \in Lists(Keys), vs \in Lists(Values) :
    LET a     == [keys |-> ks, values |-> vs]
        cells == [c \in 1..2 * Len(ks) |-> IF c % 2 = 1 THEN ks[c \div 2 + 1] ELSE vs[c \div 2]]
    IN  /\ Len(ks) = Len(vs)
        /\ CASE ks = <<>>           -> Returns("PutAll", a, FALSE, Absent)
             [] Absent \in Range(cells) -> Returns("PutAll", a, TRUE, Absent)
             [] OTHER               -> Sends("PutAll", a, 1004, <<Len(ks)>> \o cells)

RemoveAll == Sends("RemoveAll", <<>>, 1019, <<>>)
ClearAll  == Sends("ClearAll", <<>>, 1013, <<>>)
Size      == Sends("Size", <<>>, 1020, <<>>)

OperationInit ==
        /\ store = [k \in Keys |-> Absent]
        /\ last = [op |-> "None", args |-> <<>>, err |-> FALSE, ret |-> Absent, policy |-> Absent, ran |-> Absent]

OperationNext ==
        \/ Get \/ ContainsKey \/ RemoveKey \/ GetAndRemove \/ ClearKey
        \/ Put \/ PutIfAbsent \/ GetAndPut \/ GetAndReplace \/ GetAndPutIfAbsent
        \/ Replace \/ RemoveIfEquals \/ ReplaceIfEquals
        \/ GetAll \/ ContainsKeys \/ RemoveKeys \/ ClearKeys \/ PutAll
        \/ RemoveAll \/ ClearAll \/ Size

OperationSpec == OperationInit /\ [][OperationNext]_operationVars

-----------------------------------------------------------------------------
(* Correctness.                                                            *)

Given(a) == UNION {IF f \in {"keys", "values"} THEN Range(a[f]) ELSE {a[f]} : f \in DOMAIN a}

(* An operation does to the entries of the cache, and returns, what its    *)
(* name and its documentation say of its own arguments; one that is given  *)
(* a nil, be it the last of many keys, fails and leaves every entry alone. *)
CallMeans ==
    IF Absent \in Given(last'.args)
    THEN last'.err /\ store' = store
    ELSE /\ ~last'.err
         /\ store' = Meaning(last'.op, store, last'.args).store
         /\ last'.ret = Meaning(last'.op, store, last'.args).ret

OperationsMean == [][CallMeans]_operationVars

(* The policy of the handle is the one the node runs the operation under,  *)
(* cut to whole milliseconds, and the durations that have a meaning of     *)
(* their own (zero, eternal, unchanged) keep it.                           *)
PolicyArrives ==
    last.policy # Absent =>
        \A d \in {"creation", "access", "update"} :
            LET asked == last.policy[d]
                runs  == MillisToDuration(last.ran[d])
            IN  /\ asked > 0 => asked - runs \in 0..Millisecond - 1
                /\ asked \in DurationUnchanged..0 => runs = asked
                /\ asked < DurationUnchanged => runs = DurationUnchanged
=============================================================================
