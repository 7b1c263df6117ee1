-------------------------------- MODULE MCGateway --------------------------------
(***************************************************************************)
(* The instance of Wire that TLC checks.  Addresses have two bytes, words  *)
(* two digits, and the numbers and limits are scaled down so that each     *)
(* limit is met from both sides.                                           *)
(***************************************************************************)
EXTENDS Wire

MCEoa == <<1, 1>>
MCContract == <<2, 1>>
MCNobody == <<3, 1>>
MCStranger == <<4, 1>>
MCZero == <<0, 0>>
MCAddress == {MCEoa, MCContract, MCNobody, MCStranger, MCZero}
MCEntrypoint == {MCContract}

\* What is signed: recipients of every kind with every kind of v, numbers
\* around each limit, encodings with leading zeros, and gasless payloads.
Base == [nonce |-> 1, gasPrice |-> 1, gasLimit |-> 5, to |-> MCContract, value |-> 1,
         data |-> <<0, 1>>, v |-> 45, r |-> 300, s |-> 7, signer |-> MCEoa, padded |-> {}]
Quantities == {"nonce", "gasPrice", "gasLimit", "value", "v", "r", "s"}
Payload == <<9, 2, 1, 1>>
MCDraft ==
  {[Base EXCEPT !.to = to, !.data = data, !.v = v, !.signer = signer, !.gasPrice = gp] :
     to \in {DEPLOY_TO_ADDRESS, MCEoa, MCContract, MCNobody, MCZero, <<7>>},
     data \in {<<>>, <<0, 1>>, Payload}, v \in {27, 28, 45, 46, 48},
     signer \in {MCEoa, MCNobody}, gp \in {0, 1}}
  \cup {[Base EXCEPT !.padded = {f}, !.v = v, !.gasPrice = p] : f \in Quantities, v \in {28, 46}, p \in {0, 2}}
  \cup {[Base EXCEPT ![f] = n, !.to = to, !.signer = signer] :
          f \in Quantities \ {"v"}, n \in {0, 1, 2, 3, 7, 8, 20}, to \in {MCNobody, MCContract},
          signer \in {MCEoa, MCNobody}}
  \cup {[Base EXCEPT !.v = v] : v \in {0, 26, 33, 34, 35}}
  \cup {[Base EXCEPT !.data = d, !.gasPrice = 0, !.gasLimit = g, !.padded = p] :
          d \in {Payload, <<9, 7, 1, 1>>, <<9, 2, 1, 7>>, <<9, 2, 1, 1, 0>>, <<0, 0, 0, 0>>},
          g \in {5, 6}, p \in {{}, {"gasPrice"}}}

MCForeign ==
  {[chain_id |-> c, from_id |-> from, to_id |-> to, nonce |-> 2, args |-> a,
    signature |-> <<0, 1, 0, 7, 1>>] :
     c \in {0, 5}, from \in {MCEoa, MCContract}, to \in {MCContract, MCEoa},
     a \in [callKind : {0, 3}, gasLimit : {4, 6}, gasPrice : {1}, value : {1}, inputSize : {0, 2, 5},
            rest : {<<>>, <<1, 0>>, <<1, 0, 3, 1>>, <<5>>}]}
  \cup
  {[chain_id |-> 5, from_id |-> MCEoa, to_id |-> MCContract, nonce |-> 2,
    args |-> [callKind |-> 0, gasLimit |-> 6, gasPrice |-> 1, value |-> 1, inputSize |-> 2, rest |-> <<1, 0>>],
    signature |-> <<0, 1, 0, 7, 1, 1>>]}

System(created) == [service_flag |-> 2, data |-> <<3, 3>> \o created \o <<0>>]
User(data, topics) ==
  [service_flag |-> 3, data |-> MCContract \o <<Len(data)>> \o data \o <<Len(topics)>> \o topics]
Pay == [service_flag |-> 1, data |-> <<2, 1, 1, 1, 2, 0, 9>>]
MCReceipt ==
  {[exit_code |-> 0, logs |-> <<Pay, System(MCNobody), User(<<>>, <<>>), User(<<6, 5>>, <<8, 9>>)>>],
   [exit_code |-> 1, logs |-> <<User(<<1>>, <<2>>), System(MCZero)>>],
   [exit_code |-> 2, logs |-> <<Pay>>],
   [exit_code |-> 0, logs |-> <<System(MCZero), User(<<1, 2, 3>>, <<>>)>>]}
MCWorld ==
  {[account |-> [a \in MCAddress |-> CASE a = MCEoa -> "eoa" [] a = MCContract -> "contract" [] OTHER -> "none"],
    balance |-> [a \in MCAddress |-> IF a \in {MCEoa, MCNobody, MCContract} THEN 30 ELSE 0],
    minGasPrice |-> 1]}

MCClass == DOMAIN M!Schemas
MCDamage == {-8, -4, -1, 1, 4}

\* Logs with none to two topics in two blocks, and filters of every form.
MCLog ==
  LET topics == <<<<>>, <<"s">>, <<"s", "t">>, <<"t", "t">>, <<"t", "s">>>>
  IN {[id |-> n, block |-> (n + 4) \div 5, hash |-> (n + 4) \div 5,
       address |-> IF n % 2 = 0 THEN "a" ELSE "b", topics |-> topics[((n - 1) % 5) + 1]] : n \in 1 .. 10}
MCPollId == {-1, 3}
One(value, upper) == [list |-> FALSE, texts |-> <<Text(value, upper)>>]
List(texts) == [list |-> TRUE, texts |-> texts]
TextS == Text("s", FALSE)
TextT == Text("t", FALSE)
Entry == {Anything, One("s", FALSE), One("t", TRUE), List(<<>>), List(<<TextS>>), List(<<TextS, TextT>>), List(<<TextS, Null>>)}
Topics == UNION {[1 .. n -> Entry] : n \in 0 .. 2} \cup {<<Anything, Anything, Anything>>}
Addresses == {Anything, One("a", FALSE), One("b", TRUE), List(<<>>), List(<<Text("a", FALSE), Text("b", FALSE)>>)}
MCFilter ==
  {[address |-> a, topics |-> f, fromBlock |-> r[1], toBlock |-> r[2], blockHash |-> r[3]] :
     a \in Addresses, f \in Topics, r \in {<<1, 2, {}>>, <<2, 2, {}>>, <<2, 1, {}>>, <<0, 0, {1}>>}}

\* One connection: lists of heads and of logs, a filter for all logs and one
\* for some.
MCSubscriptionId == {1, 2}
MCEthNewHead == {"head", "next"}
MCHeads == {<<"head", "next">>}
MCBatch == {{[address |-> "a", topics |-> <<"s">>], [address |-> "b", topics |-> <<"s", "t">>]}}
MCLogQuery ==
  {[address |-> Anything, topics |-> <<>>],
   [address |-> One("b", FALSE), topics |-> <<Anything, One("t", FALSE)>>]}

\* Prices around each rounding and each limit of the gas price.
MCQuote == {0, 4, 6, 20}
MCTtl == {-2, 0, 30, 3630}

=============================================================================
