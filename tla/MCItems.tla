------------------------------ MODULE MCItems -------------------------------
(***************************************************************************)
(* Every list of up to three capabilities out of a set that takes each way *)
(* through store_all_transfers, on a command that is otherwise in order;   *)
(* and every command that differs from it in its signer entries, in one    *)
(* part of meta, in the payload, the network or the type.                  *)
(***************************************************************************)
EXTENDS Items

Args(name, args) ==
  [object |-> TRUE, name |-> name, hasArgs |-> TRUE, args |-> args, large |-> FALSE]
NoArgs(name) == [Args(name, <<>>) EXCEPT !.hasArgs = FALSE]

T == "coin.TRANSFER"
X == "coin.TRANSFER_XCHAIN"
R == "coin.ROTATE"

MCCaps ==
  { Args(T, <<"device", "principal", "number">>),
    Args(T, <<"principal", "name", "decimal">>),
    Args(T, <<"device", "principal">>),
    Args(T, <<"bare", "principal", "number", "name">>),
    Args(X, <<"device", "principal", "decimal", "name">>),
    Args(X, <<"principal", "name", "number">>),
    Args(R, <<"device">>),
    Args(R, <<"principal", "name">>),
    Args("coin.GAS", <<>>),
    NoArgs("coin.GAS"),
    Args("mod.CAP", <<"device", "number">>),
    Args("ns.mod.CAP", <<>>),
    [Args("mod.CAP", <<"long">>) EXCEPT !.large = TRUE],
    Args("mod.CAP", [j \in 1 .. 6 |-> "number"]) }

BadCaps ==
  {Args(T, <<a, b, n>>) : a \in {"device", "escaped", "empty", "other"},
                          b \in {"principal", "long", "escaped"},
                          n \in {"number", "longNumber", "other"}}
  \cup {Args(X, <<"device", "principal", n, c>>) :
          n \in {"number", "other"}, c \in {"name", "number", "escaped"}}
  \cup {NoArgs(name) : name \in {T, X, R, "mod.CAP"}}
  \cup {Args(name, <<>>) : name \in {"missing", "empty", "long", "escaped"}}
  \cup {Args(R, <<"long">>)}
  \cup {[Args("mod.CAP", <<>>) EXCEPT !.object = FALSE]}

List(caps) == [kind |-> "array", caps |-> caps]
NoList(kind) == [kind |-> kind, caps |-> <<>>]

Signer(pubKey, addr, clist) ==
  [object |-> TRUE, pubKey |-> pubKey, addr |-> addr, clist |-> clist]

Fields ==
  [creationTime |-> "number", ttl |-> "number", gasLimit |-> "number",
   chainId |-> "name", gasPrice |-> "number", sender |-> "device"]

Base ==
  [type |-> "Json", verifiers |-> FALSE, networkId |-> "name", signersKind |-> "array",
   signers |-> <<Signer("key", "missing", List(<<Args(T, <<"device", "principal", "number">>)>>))>>,
   meta |-> [kind |-> "object", fields |-> Fields],
   payload |-> [kind |-> "exec", pactId |-> "missing", step |-> "missing"]]

Lists == UNION {[1 .. n -> MCCaps] : n \in 1 .. 3} \cup {<<c>> : c \in BadCaps}

Clists ==
  {List(caps) : caps \in Lists} \cup {List(<<>>)}
  \cup {NoList(kind) : kind \in {"missing", "null", "scalar"}}
  \cup {[kind |-> "object", caps |-> <<[NoArgs("missing") EXCEPT !.object = FALSE]>>]}

Signers ==
  {Signer(p, a, clist) :
     p \in {"key", "KEY", "unquoted", "other", "escaped", "missing"},
     a \in {"key", "KEY", "other", "escaped", "missing"},
     clist \in {List(<<Args("coin.GAS", <<>>)>>), NoList("missing")}}
  \cup {[Signer("key", "missing", NoList("null")) EXCEPT !.object = FALSE]}

MetaFields ==
  {[Fields EXCEPT ![k] = v] : k \in DOMAIN Fields,
     v \in {"name", "number", "escaped", "null", "empty", "long", "longNumber", "other"}}
  \cup {[k \in keys |-> Fields[k]] : keys \in SUBSET DOMAIN Fields}
  \cup {[k \in DOMAIN Fields \cup {"extra"} |-> IF k = "extra" THEN "name" ELSE Fields[k]]}

Payloads ==
  [kind : {"exec", "cont", "other"},
   pactId : {"missing", "name", "escaped", "empty"}, step : {"missing", "number", "longNumber", "other"}]

MCCommands ==
  {[Base EXCEPT !.signers[1].clist = clist] : clist \in Clists}
  \cup {[Base EXCEPT !.signers = <<s, t>>] : s \in Signers, t \in Signers}
  \cup {[Base EXCEPT !.signers = <<>>], [Base EXCEPT !.signersKind = "other"]}
  \cup {[Base EXCEPT !.meta = [kind |-> kind, fields |-> Fields]] : kind \in {"missing", "null", "other"}}
  \cup {[Base EXCEPT !.meta.fields = fields] : fields \in MetaFields}
  \cup {[Base EXCEPT !.payload = payload] : payload \in Payloads}
  \cup {[Base EXCEPT !.networkId = v] :
          v \in {"missing", "null", "escaped", "empty", "long", "other"}}
  \cup {[Base EXCEPT !.verifiers = TRUE], [Base EXCEPT !.type = "Hash"], [Base EXCEPT !.type = "Transfer"]}
=============================================================================
