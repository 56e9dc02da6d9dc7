------------------------------ MODULE MCConfig ------------------------------
(***************************************************************************)
(* An instance of Config for TLC: a file of two series, each a sound one   *)
(* with up to one change, or of one series with up to two; and files that  *)
(* cannot be read.                                                         *)
(***************************************************************************)
EXTENDS Config

Row == [garbled |-> FALSE, columns |-> TRUE, zoned |-> TRUE,
        amount |-> 4, fee |-> 1, listed |-> 4, final |-> 2]
Rows == {Row} \union
        {[Row EXCEPT !.garbled = TRUE], [Row EXCEPT !.columns = FALSE],
         [Row EXCEPT !.zoned = FALSE], [Row EXCEPT !.fee = 4], [Row EXCEPT !.fee = 0],
         [Row EXCEPT !.fee = -1], [Row EXCEPT !.final = 3], [Row EXCEPT !.final = 4],
         [Row EXCEPT !.final = 0], [Row EXCEPT !.listed = 0]}
Mixed == {Row, [Row EXCEPT !.final = 3], [Row EXCEPT !.fee = 4], [Row EXCEPT !.garbled = TRUE]}
Samples == [header : {"known"}, rows : {<<>>} \union {<<r>> : r \in Rows} \union (Mixed \X Mixed)
                                       \union {<<r, Row, Row>> : r \in Mixed}]
           \union [header : {"absent", "garbled", "other columns"}, rows : {<<>>}]

Hours == [weekdays |-> {0, 4}, opens |-> 2, closes |-> 3, quoted |-> TRUE, offset |-> FALSE,
          zone |-> "here"]
SomeHours == {Hours, [Hours EXCEPT !.weekdays = {}], [Hours EXCEPT !.weekdays = {0, 7}],
              [Hours EXCEPT !.closes = 2], [Hours EXCEPT !.quoted = FALSE],
              [Hours EXCEPT !.offset = TRUE], [Hours EXCEPT !.zone = "nowhere"]}

Sound == [id |-> "p2p", sources |-> <<"a">>, every |-> 2, maxAge |-> 3, hours |-> None,
          plausible |-> [min |-> 1, max |-> 2], indicative |-> FALSE, samples |-> None]
SoundCard == [Sound EXCEPT !.id = "card", !.indicative = TRUE,
                           !.samples = [header |-> "known", rows |-> <<Row>>]]

Changes(e) ==
    {[e EXCEPT !.id = i] : i \in {"p2p", "card", "other"}}
    \union {[e EXCEPT !.sources = s] : s \in {<<>>, <<"a", "b">>, <<"b", "b">>, <<"a", "c">>}}
    \union {[e EXCEPT !.every = m] : m \in {0, 3, 4, 5}}
    \union {[e EXCEPT !.maxAge = m] : m \in {0, 1, 4, 5}}
    \union {[e EXCEPT !.hours = h] : h \in SomeHours}
    \union {[e EXCEPT !.plausible.min = m] : m \in {0, 2, 3}}
    \union {[e EXCEPT !.indicative = ~e.indicative]}
    \union {[e EXCEPT !.samples = s] : s \in Samples}

One == {Sound, SoundCard}
Changed == One \union UNION {Changes(e) : e \in One}

MCFiles ==
    [text : {"yaml"}, series : {<<>>}]
    \union [text : {"yaml"}, series : {<<e>> : e \in UNION {Changes(c) : c \in Changed}}]
    \union [text : {"yaml"}, series : {<<e, f>> : e \in One, f \in Changed}]
    \union [text : {"yaml"}, series : {<<e, f>> : e \in Changed, f \in One}]
    \union [text : {"yaml"}, series : {<<Sound, SoundCard, e>> : e \in One}]
    \union [text : Texts \ {"yaml"}, series : {<<Sound>>}]

=============================================================================
