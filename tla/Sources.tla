------------------------------ MODULE Sources ------------------------------
(***************************************************************************)
(* Source.parse of the six sources (sources/): one answer, read as JSON,   *)
(* validated, and turned into a reading. DolarApi, Bitso, ARQ and CriptoYa *)
(* say a price and its time; Binance's card price is the inverse of what   *)
(* it says, and its P2P price the median of ads, both as of the answer.    *)
(*                                                                         *)
(* An answer has whatever the world put in it. That a field is there, and  *)
(* of its type, is "wellFormed"; what the field says, and which of several *)
(* quotes it is in, is data. A number of JSON can be negative; a text of   *)
(* digits cannot. A quotation of the card is digits / Base ^ decimals.     *)
(***************************************************************************)
EXTENDS Decimals, Sequences, FiniteSetsExt

CONSTANTS
    Names,        \* the sources: see Answers
    Answers(_),   \* Answers(s): the bodies a source may be given
    Moments,      \* when the answer may arrive
    Book,         \* what a source asks for: a book, an exchange, a pair
    Top, Amount, MinFinishRate,   \* of BinanceP2PMedian
    MaxNumber,    \* the largest result of a Decimal operation
    Precision,    \* of the context _INVERSE
    MaxInverse    \* bound: of the first digit of an inverse, and, negated, too

ASSUME SourcesAssumption ==
    /\ Names \subseteq {"dolarapi", "bitso", "arq", "criptoya", "criptoya_one", "card", "p2p"}
    /\ Moments \subseteq Nat
    /\ Top \in Nat /\ Top % 2 = 1
    /\ Amount \in Nat /\ MaxNumber \in Nat /\ MinFinishRate \in Int
    /\ Precision \in Nat \ {0} /\ MaxInverse \in Nat

VARIABLES
    source, answer, fetchedAt,   \* self and the arguments of parse
    stage,
    chosen,                      \* the quotation, or the cheapest usable prices in order
    result                       \* what parse returned or raised

parseVars == <<source, answer, fetchedAt, stage, chosen, result>>

Nothing == [kind |-> "nothing"]
Reading(price, asOf) == [kind |-> "reading", price |-> price, asOf |-> asOf]
MalformedResponseError == [kind |-> "malformed"]
NoQuoteError == [kind |-> "no quote"]
Raised(exception) == [kind |-> "raised", exception |-> exception]

(* A quote of an answer, as far as parse looks at it: a price with its time *)
(* (the ticker of Bitso, and of DolarApi, ARQ and CriptoYa), a way to pay   *)
(* with a card, and an ad.                                                  *)
Forms == {"zoned", "naive", "no time", "epoch", "epoch out of range"}
Ticker(Price) ==
    [book : STRING, wellFormed : BOOLEAN, price : Price, time : [form : Forms, at : Nat]]
Method == [book : STRING, wellFormed : BOOLEAN, suspended : BOOLEAN, digits : Nat, decimals : Nat]
AdOfList == [book : STRING, wellFormed : BOOLEAN, price : Int, min : Int, max : Int, left : Int,
             merchant : BOOLEAN, rate : Int]
Quote(s) ==
    CASE s = "card" -> Method
      [] s = "p2p" -> AdOfList
      [] s \in {"bitso", "arq"} -> Ticker(Nat)
      [] OTHER -> Ticker(Int)

(* What json.loads raises that load_json does not catch: an int of more digits than Python     *)
(* converts, a Decimal of an exponent out of its range, and values nested too deep.            *)
LoadErrors == {"ValueError", "InvalidOperation", "RecursionError"}

(* What the world can put in an answer: text is what json.loads makes of it, quotes are any,   *)
(* of which some sources give one. The quotations are those whose inverse has its first digit  *)
(* within the bound.                                                                           *)
OneQuoted == {"dolarapi", "bitso", "criptoya_one"}
ASSUME AnswersAssumption ==
    \A s \in Names : \A a \in Answers(s) :
        /\ a.text \in {"JSON", "not JSON"} \union LoadErrors
        /\ a.quotes \in Seq(Quote(s))
        /\ s \in OneQuoted /\ a.text = "JSON" => Len(a.quotes) = 1
        /\ s = "card" => \A i \in 1 .. Len(a.quotes) : /\ a.quotes[i].digits <= Power[MaxInverse]
                                                      /\ a.quotes[i].decimals <= MaxInverse

ParseInit ==
    /\ source \in Names
    /\ answer \in Answers(source)
    /\ fetchedAt \in Moments
    /\ stage = "loading"
    /\ chosen = <<>>
    /\ result = Nothing

End(what) ==
    /\ stage' = "done"
    /\ result' = what
    /\ UNCHANGED <<source, answer, fetchedAt, chosen>>

(* load_json: what is not JSON is malformed; the other errors of json.loads leave parse.       *)
LoadJson ==
    /\ stage = "loading"
    /\ \/ answer.text = "not JSON" /\ End(MalformedResponseError)
       \/ answer.text \in LoadErrors /\ End(Raised(answer.text))
       \/ /\ answer.text = "JSON"
          /\ stage' = "reading"
          /\ UNCHANGED <<source, answer, fetchedAt, chosen, result>>

----------------------------------------------------------------------------
(* A time as text: with a zone, without one, or no time at all. aware_iso. *)
AwareIso(price, time) ==
    IF time.form = "zoned" THEN Reading(price, time.at) ELSE MalformedResponseError

(* ARQ's times have no zone and are UTC; one with a zone would be a change. *)
NaiveUtc(price, time) ==
    IF time.form = "naive" THEN Reading(price, time.at) ELSE MalformedResponseError

(* Mutant: only one of the exceptions of fromtimestamp is turned into a ValueError. *)
EpochSecondsOSError(price, time) ==
    CASE time.form = "epoch" -> Reading(price, time.at)
      [] time.form = "epoch out of range" -> Raised("OverflowError")
      [] OTHER -> MalformedResponseError

EpochSeconds(price, time) ==
    IF time.form = "epoch" THEN Reading(price, time.at) ELSE MalformedResponseError

(* Mutant: whatever book an answer is of. *)
IsOfBookAny(quote) == TRUE

IsOfBook(quote) == quote.book = Book

Quotes == 1 .. Len(answer.quotes)
Matching == {i \in Quotes : IsOfBook(answer.quotes[i])}
AllWellFormed == \A i \in Quotes : answer.quotes[i].wellFormed

(* DolarApiMep and BitsoBid: the answer is one quote, which says what of. *)
ParseOneQuote ==
    /\ stage = "reading"
    /\ LET quote == answer.quotes[1]
       IN  IF quote.wellFormed /\ IsOfBook(quote)
           THEN End(AwareIso(quote.price, quote.time))
           ELSE End(MalformedResponseError)
ParseDolarApi == source = "dolarapi" /\ ParseOneQuote
ParseBitso == source = "bitso" /\ ParseOneQuote

(* ArqBid: exactly one of the tickers is of its book. *)
ParseArq ==
    /\ stage = "reading" /\ source = "arq"
    /\ LET ticker == answer.quotes[CHOOSE i \in Matching : TRUE]
       IN  IF AllWellFormed /\ Cardinality(Matching) = 1
           THEN End(NaiveUtc(ticker.price, ticker.time))
           ELSE End(MalformedResponseError)

(* CriptoYaBid: one exchange of a JSON object, in which the last of equal keys counts. What    *)
(* the others hold is not looked at.                                                           *)
ParseCriptoYa ==
    /\ stage = "reading" /\ source = "criptoya"
    /\ LET exchange == answer.quotes[Max(Matching)]
       IN  IF Matching # {} /\ exchange.wellFormed
           THEN End(EpochSeconds(exchange.price, exchange.time))
           ELSE End(MalformedResponseError)

(* CriptoYaBid without an exchange: the answer is the quote, and says not what of. *)
ParseCriptoYaOne ==
    /\ stage = "reading" /\ source = "criptoya_one"
    /\ LET quote == answer.quotes[1]
       IN  IF quote.wellFormed
           THEN End(EpochSeconds(quote.price, quote.time))
           ELSE End(MalformedResponseError)

----------------------------------------------------------------------------
(* BinanceCardPrice, up to the division: the first method that is the card. *)
ChooseCard ==
    /\ stage = "reading" /\ source = "card"
    /\ LET card == answer.quotes[Min(Matching)]
       IN  IF ~AllWellFormed THEN End(MalformedResponseError)
           ELSE IF Matching = {} THEN End(NoQuoteError)
           ELSE IF card.suspended THEN End(NoQuoteError)
           ELSE IF card.digits = 0 THEN End(MalformedResponseError)
           ELSE /\ stage' = "inverting"
                /\ chosen' = <<card.digits, card.decimals>>
                /\ UNCHANGED <<source, answer, fetchedAt, result>>

(* Base ^ n, and 1 for a negative n. *)
Shift(n) == IF n > 0 THEN Power[n] ELSE 1

(* The fraction num / den in whole units of Base ^ exp, rounded down, or (mutant) to the       *)
(* nearest.                                                                                    *)
InUnitsNearest(num, den, exp) ==
    (2 * num * Shift(-exp) + den * Shift(exp)) \div (2 * den * Shift(exp))

InUnits(num, den, exp) == (num * Shift(-exp)) \div (den * Shift(exp))

(* The exponent of the first digit of num / den. *)
FirstDigit(num, den) ==
    CHOOSE e \in -MaxInverse .. MaxInverse : InUnits(num, den, e) \in 1 .. Base - 1

(* 1 / quotation, to Precision digits and then to MaxDecimals decimals. quantize refuses a     *)
(* result of more digits than the context has.                                                 *)
Invert ==
    /\ stage = "inverting"
    /\ LET num == Power[chosen[2]]
           den == chosen[1]
           last == FirstDigit(num, den) + 1 - Precision   \* the exponent of the last digit
           quotient == InUnits(num, den, last)
           steps == InUnits(quotient * Shift(last), Shift(-last), -MaxDecimals)
       IN  IF steps < Power[Precision]
           THEN End(Reading(steps, fetchedAt))
           ELSE End(MalformedResponseError)

----------------------------------------------------------------------------
(* _usable, up to its product: a merchant, with enough orders completed, who takes the amount. *)
Trusted(ad) ==
    /\ ad.merchant /\ ad.rate >= MinFinishRate
    /\ ad.min <= Amount /\ Amount <= ad.max
Usable(ad) == Trusted(ad) /\ ad.left * ad.price >= Amount

(* The k-th lowest price of the usable ads: fewer than k are below it. *)
UsableAds == {i \in Quotes : Usable(answer.quotes[i])}
CheaperThan(price) == {i \in UsableAds : answer.quotes[i].price < price}
UpToPrice(price) == {i \in UsableAds : answer.quotes[i].price <= price}
IsNthCheapest(k, price) == Cardinality(CheaperThan(price)) < k /\ k <= Cardinality(UpToPrice(price))
NthCheapest(k) ==
    answer.quotes[CHOOSE i \in UsableAds : IsNthCheapest(k, answer.quotes[i].price)].price

(* BinanceP2PMedian, up to the median. The product of two numbers of an answer can be larger   *)
(* than a Decimal is, of either sign: decimal.Overflow, which parse does not catch. (Products  *)
(* of the model are exact; those of the code are rounded to 28 digits.)                        *)
FilterAds ==
    /\ stage = "reading" /\ source = "p2p"
    /\ IF ~AllWellFormed \/ Matching # Quotes THEN End(MalformedResponseError)
       ELSE IF \E i \in Quotes :
                   Trusted(answer.quotes[i])
                   /\ answer.quotes[i].left * answer.quotes[i].price
                          \notin -MaxNumber .. MaxNumber
       THEN End(Raised("Overflow"))
       ELSE IF Cardinality(UsableAds) < Top THEN End(NoQuoteError)
       ELSE /\ stage' = "pricing"
            /\ chosen' = [k \in 1 .. Top |-> NthCheapest(k)]
            /\ UNCHANGED <<source, answer, fetchedAt, result>>

(* Mutant: half way between the cheapest and the dearest of the Top cheapest. *)
MiddleMean == (chosen[1] + chosen[Top]) \div 2

(* The median of the Top cheapest. *)
Middle == chosen[(Top + 1) \div 2]

TakeMedian ==
    /\ stage = "pricing"
    /\ End(Reading(Middle, fetchedAt))

ParseNext ==
    \/ LoadJson
    \/ ParseDolarApi \/ ParseBitso \/ ParseArq \/ ParseCriptoYa \/ ParseCriptoYaOne
    \/ ChooseCard \/ Invert
    \/ FilterAds \/ TakeMedian

ParseSpec == ParseInit /\ [][ParseNext]_parseVars

----------------------------------------------------------------------------
(* The state is of its type, and parse has ended when it has a result. Of what this module     *)
(* models, only json.loads and the product of two numbers of an ad raise more than the two     *)
(* errors of the contract: a field of another type, no quote, a zero, a time out of range and  *)
(* a result of too many digits are all one of those two.                                       *)
ParseTypeOK ==
    /\ source \in Names /\ fetchedAt \in Moments
    /\ \A i \in Quotes : answer.quotes[i] \in Quote(source)
    /\ stage \in {"loading", "reading", "inverting", "pricing", "done"}
    /\ (stage = "done") <=> (result # Nothing)
    /\ result.kind \in {"nothing", "reading", "malformed", "no quote", "raised"}
    /\ result.kind = "reading" => result.price \in Int /\ result.asOf \in Nat
    /\ result.kind = "raised" => result.exception \in LoadErrors \union {"Overflow"}
    /\ result.kind = "raised" /\ answer.text = "JSON" => result.exception = "Overflow"

(* A reading of a source that says its own times is one quote: its price and its time come     *)
(* from the same one, which is of the book or exchange asked for, if the answer says, in the   *)
(* form of time that source is known to use; and no other ticker of ARQ's answer claims to be  *)
(* that book.                                                                                  *)
KnownForm == [dolarapi |-> "zoned", bitso |-> "zoned", arq |-> "naive", criptoya |-> "epoch",
              criptoya_one |-> "epoch"]
ReadingIsOneQuote ==
    result.kind = "reading" /\ source \in DOMAIN KnownForm =>
        LET quotes == {i \in Quotes : source = "criptoya_one" \/ answer.quotes[i].book = Book}
        IN  /\ \E i \in quotes : /\ answer.quotes[i].price = result.price
                                 /\ answer.quotes[i].time = [form |-> KnownForm[source],
                                                             at |-> result.asOf]
            /\ source = "arq" => \A i, j \in quotes : i = j

(* The card's price is the exact inverse of the quotation, rounded down once, although it is   *)
(* computed with two roundings (binance_card.py:103): what a person gets is never overstated,  *)
(* nor understated by a step.                                                                  *)
InverseIsRoundedDown ==
    result.kind = "reading" /\ source = "card" =>
        LET scale == Power[chosen[2] + MaxDecimals]
        IN  result.price * chosen[1] <= scale /\ scale < (result.price + 1) * chosen[1]

(* Fewer ads than half of Top, wherever they are in the answer and whatever they say, cannot   *)
(* take the P2P price below the cheapest usable ad of the others, nor above the middle price   *)
(* of the Top cheapest of the others, also where prices are equal.                             *)
OutliersAreOutvoted ==
    result.kind = "reading" /\ source = "p2p" =>
        LET upTo(i, others) == {j \in others : answer.quotes[j].price <= answer.quotes[i].price}
        IN  \A k \in 1 .. (Top - 1) \div 2 : \A bad \in kSubset(k, UsableAds) :
                LET others == UsableAds \ bad
                IN  /\ \E i \in others : result.price >= answer.quotes[i].price
                    /\ \A i \in others : Cardinality(upTo(i, others)) >= (Top + 1) \div 2
                                         => result.price <= answer.quotes[i].price

----------------------------------------------------------------------------
(* The inductive invariant of the proofs: what is chosen is a quotation    *)
(* within the bound, or has the middle one of the Top cheapest prices.     *)
ChosenIsOfAnswer ==
    /\ stage = "inverting" => /\ source = "card" /\ chosen[1] \in 1 .. Power[MaxInverse]
                              /\ chosen[2] \in 0 .. MaxInverse
    /\ stage = "pricing" => /\ source = "p2p" /\ Middle \in Int
                            /\ IsNthCheapest((Top + 1) \div 2, Middle)

ParseIInv ==
    /\ ParseTypeOK /\ answer \in Answers(source) /\ (stage = "reading" => answer.text = "JSON")
    /\ ChosenIsOfAnswer
    /\ ReadingIsOneQuote /\ InverseIsRoundedDown /\ OutliersAreOutvoted

=============================================================================
