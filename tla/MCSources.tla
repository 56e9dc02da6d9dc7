----------------------------- MODULE MCSources -----------------------------
(***************************************************************************)
(* An instance of Sources for TLC: every source with every answer of up to *)
(* two quotes or five ads, and quotations of up to six digits in base 2.   *)
(***************************************************************************)
EXTENDS Sources

Bodies(quotes) ==
    [text : {"JSON"}, quotes : quotes]
    \union [text : {"not JSON"} \union LoadErrors, quotes : {<<>>}]
Lists(n, S) == UNION {[1 .. k -> S] : k \in 0 .. n}

MCQuotes(prices) == [book : {"asked", "other"}, wellFormed : BOOLEAN, price : prices,
                     time : [form : Forms, at : {1, 2}]]
CardMethods == [book : {"asked", "other"}, wellFormed : {TRUE}, suspended : BOOLEAN,
                digits : 0 .. 40, decimals : 0 .. 5]

Ad == [book |-> "asked", wellFormed |-> TRUE, merchant |-> TRUE, rate |-> 1, min |-> 1, max |-> 9,
       left |-> 6, price |-> 2]
Ads == {Ad, [Ad EXCEPT !.price = 1], [Ad EXCEPT !.price = 7], [Ad EXCEPT !.price = 3],
        [Ad EXCEPT !.price = 1, !.merchant = FALSE], [Ad EXCEPT !.price = 1, !.rate = 0],
        [Ad EXCEPT !.min = 6], [Ad EXCEPT !.max = 4], [Ad EXCEPT !.left = 2],
        [Ad EXCEPT !.left = 9, !.price = 9],
        [Ad EXCEPT !.left = -3, !.price = -2]}
OddAds == {[Ad EXCEPT !.wellFormed = FALSE], [Ad EXCEPT !.book = "other"],
           [Ad EXCEPT !.price = -2], [Ad EXCEPT !.left = -9, !.price = 9],
           [Ad EXCEPT !.rate = -1], [Ad EXCEPT !.min = -1], [Ad EXCEPT !.max = -1]}

MCAnswers(s) ==
    CASE s \in {"dolarapi", "criptoya_one"} -> Bodies([1 .. 1 -> MCQuotes({-1, 1, 2})])
      [] s = "bitso" -> Bodies([1 .. 1 -> MCQuotes({1, 2})])
      [] s = "arq" -> Bodies(Lists(2, MCQuotes({1, 2})))
      [] s = "criptoya" -> Bodies(Lists(2, MCQuotes({-1, 1})))
      [] s = "card" -> Bodies({<<>>} \union (CardMethods \X {[CHOOSE m \in CardMethods :
                                                                m.book = "asked" EXCEPT !.digits = 3]})
                              \union {<<[book |-> "asked", wellFormed |-> FALSE, suspended |-> FALSE,
                                         digits |-> 3, decimals |-> 0]>>})
      [] s = "p2p" -> Bodies(Lists(5, Ads) \union Lists(2, Ads \union OddAds))

=============================================================================
