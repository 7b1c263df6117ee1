--------------------------------- MODULE Wire ---------------------------------
(***************************************************************************)
(* The gateway, and what it exchanges with a node: a message in the        *)
(* molecule encoding, written by one program and read by another           *)
(* (Schemas).  A message is followed while the parts of Gateway rest.      *)
(***************************************************************************)
EXTENDS Gateway

M == INSTANCE Schemas

CONSTANTS
    Class,      \* the generated classes followed, out of DOMAIN M!Schemas
    Shape,      \* how many items the vectors of a message have
    Damage      \* by how much a byte may differ in what somebody else sends

ASSUME WireAssumption == Class \subseteq DOMAIN M!Schemas /\ Shape \subseteq Nat

VARIABLE message    \* {}, or the message that is followed

wireVars == <<gatewayVars, message>>

WireInit == GatewayInit /\ message = {}

\* A value of a type in which no two neighbouring fields are alike.
Sample(type, k) ==
    LET RECURSIVE sample(_, _)
        sample(t, seed) ==
          CASE t.kind = "byte" -> seed
            [] t.kind = "array" -> [i \in 1 .. t.size |-> seed]
            [] t.kind \in {"struct", "table"} ->
                 [i \in DOMAIN t.fields |-> sample(t.fields[i][2], seed + i)]
            [] t.kind \in {"fixvec", "dynvec"} -> [i \in 1 .. k |-> sample(t.item, seed + 16 * i)]
            [] t.kind = "option" -> IF k = 0 THEN <<>> ELSE <<sample(t.item, seed)>>
            [] t.kind = "union" ->
                 LET item == (k % Len(t.items)) + 1
                 IN [item |-> item, value |-> sample(t.items[item], seed)]
    IN sample(type, 1)

\* A message is serialised.
SerializeMessage ==
    /\ message = {}
    /\ \E class \in Class, k \in Shape :
         LET type == M!Schemas[class]
         IN message' = {[class |-> class, intact |-> TRUE, value |-> Sample(type, k),
                         buf |-> M!Serialize(type, Sample(type, k))]}

\* Somebody sends bytes of his own: an offset, a count or another first byte of
\* a word differs from a message's.
ForgeMessage ==
    \E sent \in message :
       /\ sent.intact
       /\ \E word \in 0 .. 6, by \in Damage :
            LET at == 4 * word + 1
            IN /\ at <= Len(sent.buf)
               /\ sent.buf[at] + by \in 0 .. 255
               /\ message' = {[sent EXCEPT !.intact = FALSE, !.value = <<>>,
                                           !.buf = [@ EXCEPT ![at] = @ + by]]}

Exchange ==
    /\ asked = {} /\ TransactionRests /\ ConnectionRests /\ OracleRests
    /\ SerializeMessage \/ ForgeMessage
    /\ UNCHANGED gatewayVars

WireNext ==
    \/ message = {} /\ GatewayNext /\ UNCHANGED message
    \/ Exchange

WireSpec == WireInit /\ [][WireNext]_wireVars

-----------------------------------------------------------------------------

\* What a generated class serialises it validates and reads back field by
\* field, and no shorter piece of it passes for a whole message; the empty
\* buffer is one of an option (godwoken/schemas/index.js).
MoleculeRoundTrips ==
    \A sent \in message :
       sent.intact =>
         LET type == M!Schemas[sent.class]
         IN /\ M!Validate(type, sent.buf)
            /\ M!ExactFields(type, sent.buf)
            /\ M!Read(type, sent.buf) = sent.value
            /\ \A n \in 0 .. Len(sent.buf) - 1 :
                 M!Validate(type, SubSeq(sent.buf, 1, n)) => type.kind = "option" /\ n = 0

\* Whatever bytes somebody sends: if validate() takes them and every table has
\* the fields that its class knows, they are the serialisation of the value
\* that is read from them, so that the gateway and a node that reads the same
\* bytes see one value (godwoken/schemas/index.js, used by parse-tx.ts:90-112).
MoleculeCanonical ==
    \A sent \in message :
       LET type == M!Schemas[sent.class]
       IN M!Validate(type, sent.buf) /\ M!ExactFields(type, sent.buf) =>
            M!Serialize(type, M!Read(type, sent.buf)) = sent.buf

=============================================================================
