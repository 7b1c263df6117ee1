----------------------------- MODULE PriceOracle -----------------------------
(***************************************************************************)
(* The CKB price of the master's oracle and the gas prices derived from it *)
(* (api-server/src/price-oracle.ts on base/worker.ts, and                  *)
(* base/gas-price.ts).  A poll asks three sources and writes the price to  *)
(* Redis, where it expires; workers read it.                               *)
(*                                                                         *)
(* Prices are integers, in a unit of which PRECISION make one millionth    *)
(* of a dollar; a missing value is {}, a value {v}.                        *)
(***************************************************************************)
EXTENDS Integers, Sequences, FiniteSets

CONSTANTS
    PRECISION,
    GAS_PRICE_DIVIDER,
    MIN_GAS_PRICE_LOWER_LIMIT, MIN_GAS_PRICE_UPPER_LIMIT,
    CACHE_EXPIRED_TIME, PRICE_UPDATE_WINDOW,    \* in milliseconds
    ThresholdPercent,                           \* PRICE_DIFF_PERCENTAGE_THRESHOLD
    BLOCK_CONGESTION_GAS_USED,
    GasPriceCached,         \* gasPriceCacheSeconds is configured
    Quote,                  \* what a source that works answers
    WildQuote,              \* what a source that does not work may answer
    Ttl,                    \* remaining times of the price, in seconds
    MedianGasPrice, GasUsed \* what the database may answer

ASSUME OracleAssumption ==
    /\ PRECISION \in Nat \ {0} /\ GAS_PRICE_DIVIDER \in Nat
    /\ MIN_GAS_PRICE_LOWER_LIMIT \in Nat /\ MIN_GAS_PRICE_UPPER_LIMIT \in Nat
    /\ MIN_GAS_PRICE_LOWER_LIMIT <= MIN_GAS_PRICE_UPPER_LIMIT
    /\ Quote \subseteq Nat /\ WildQuote \subseteq Nat /\ MedianGasPrice \subseteq Nat
    /\ ThresholdPercent \in Nat /\ GasPriceCached \in BOOLEAN

VARIABLES
    price,          \* {} or the price in Redis
    running,        \* isRunning of the oracle's worker
    loops,          \* how many loops are scheduled
    gasPriceCache   \* {} or the gas price in Redis

oracleVars == <<price, running, loops, gasPriceCache>>

OracleInit == price = {} /\ running = TRUE /\ loops = 1 /\ gasPriceCache = {}

-----------------------------------------------------------------------------
(* Gas prices                                                              *)

\* Rounded to millionths, halves up.
enlargeCkbPrice(p) == (2 * p + PRECISION) \div (2 * PRECISION)

\* A price that rounds to zero makes every division fail.
GasPriceThrows(p) == enlargeCkbPrice(p) = 0
toGasPrice(p) == GAS_PRICE_DIVIDER \div enlargeCkbPrice(p)

toMinGasPrice(p) ==
    IF toGasPrice(p) > MIN_GAS_PRICE_UPPER_LIMIT THEN MIN_GAS_PRICE_UPPER_LIMIT
    ELSE IF toGasPrice(p) < MIN_GAS_PRICE_LOWER_LIMIT THEN MIN_GAS_PRICE_LOWER_LIMIT
    ELSE toGasPrice(p)

minGasPrice(cached) ==
    IF cached = {} THEN MIN_GAS_PRICE_LOWER_LIMIT ELSE toMinGasPrice(CHOOSE p \in cached : TRUE)

\* The median of recent transactions, but the minimal price while blocks are
\* far from full.
gasPrice(median, minimal, lastBlockGasUsed) ==
    IF median < minimal \/ lastBlockGasUsed < BLOCK_CONGESTION_GAS_USED THEN minimal ELSE median

-----------------------------------------------------------------------------
(* Polling                                                                 *)

Source == {"coingecko", "binance", "cryptocom"}

\* Mutant: the last of the sorted prices.
MedianLast(low, middle, high) == low <= middle /\ high <= middle

\* The middle one of three prices, the average of two, none of fewer: answers[s]
\* is {} when a request failed.  The unit of prices is fine enough to halve.
Median(low, middle, high) == low <= middle /\ middle <= high
average(p, q) == (p + q) \div 2
pollPrice(answers) ==
    LET answered == {s \in Source : answers[s] # {}}
    IN IF answered = Source
       THEN {m \in UNION {answers[t] : t \in Source} :
               \E s, t, u \in Source :
                  /\ {s, t, u} = Source /\ m \in answers[t]
                  /\ \E low \in answers[s], high \in answers[u] : Median(low, m, high)}
       ELSE UNION {{average(p, q) : p \in answers[o[1]], q \in answers[o[2]]} :
                   o \in {o \in answered \X answered : o[1] # o[2]}}

\* More than the threshold, in percent of the old price.
isPriceDiffOverThreshold(new, old) ==
    100 * (IF new > old THEN new - old ELSE old - new) > ThresholdPercent * old

\* The time to live is in seconds, the times it is compared with in milliseconds.
MustUpdate(new, ttl) ==
    \/ price = {}
    \/ ttl <= CACHE_EXPIRED_TIME - PRICE_UPDATE_WINDOW
    \/ \E old \in price : isPriceDiffOverThreshold(new, old)

\* At most one source does not work: requests fail, or one of three answers
\* whatever it likes.
Answers ==
    {a \in [Source -> {{}} \cup {{p} : p \in Quote \cup WildQuote}] :
       LET wild == {s \in Source : ~(a[s] \subseteq Quote)}
       IN Cardinality(wild) <= (IF \E s \in Source : a[s] = {} THEN 0 ELSE 1)}

\* executePoll, and the loop that schedules it again, or stops when Redis fails.
ExecutePoll ==
    /\ running /\ loops > 0
    /\ \E answers \in Answers, ttl \in Ttl :
         \/ /\ \E new \in pollPrice(answers) : MustUpdate(new, ttl) /\ price' = {new}
            /\ UNCHANGED <<running, loops>>
         \/ /\ \A new \in pollPrice(answers) : ~MustUpdate(new, ttl)
            /\ UNCHANGED <<price, running, loops>>
         \/ running' = FALSE /\ loops' = loops - 1 /\ UNCHANGED price
    /\ UNCHANGED gasPriceCache

\* The interval of startForever.
LivenessCheck ==
    /\ ~running
    /\ running' = TRUE /\ loops' = loops + 1
    /\ UNCHANGED <<price, gasPriceCache>>

\* eth_gasPrice.
GasPrice ==
    /\ gasPriceCache = {}
    /\ \A p \in price : ~GasPriceThrows(p)
    /\ \E median \in MedianGasPrice, used \in GasUsed :
         gasPriceCache' = IF GasPriceCached THEN {gasPrice(median, minGasPrice(price), used)} ELSE {}
    /\ UNCHANGED <<price, running, loops>>

Expire ==
    \/ price # {} /\ price' = {} /\ UNCHANGED <<running, loops, gasPriceCache>>
    \/ gasPriceCache # {} /\ gasPriceCache' = {} /\ UNCHANGED <<price, running, loops>>

OracleNext == ExecutePoll \/ LivenessCheck \/ GasPrice \/ Expire

OracleSpec == OracleInit /\ [][OracleNext]_oracleVars

-----------------------------------------------------------------------------

\* One source that fails or lies never moves the price out of the range of the
\* others (price-oracle.ts:262-282), a stopped oracle is restarted with one loop
\* and never runs two (worker.ts:26-83), and no gas price is suggested below
\* the lower limit, whatever the price was when it was cached
\* (price-oracle.ts:106-152).
PriceSound ==
    /\ \A p \in price : \E low, high \in Quote : low <= p /\ p <= high
    /\ loops = (IF running THEN 1 ELSE 0)
    /\ \A g \in gasPriceCache : MIN_GAS_PRICE_LOWER_LIMIT <= g

=============================================================================
