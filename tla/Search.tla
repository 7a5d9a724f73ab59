------------------------------- MODULE Search -------------------------------
(***************************************************************************)
(* The search language of the lists: utils/searchParser.js in the browser, *)
(* backend/search/parser.go on the server, the "advanced" panels that write*)
(* and read queries (AppController.js), and the matching of local records. *)
(*                                                                         *)
(* A text is a sequence of atoms: words, the space, the colon, the quote   *)
(* and the operators.  Letter case is left out.                            *)
(***************************************************************************)
EXTENDS Integers, Sequences, SequencesExt

Space == " "
Colon == ":"
Quote == "\""
Dots == ".."
Operators == {">=", "<=", ">", "<"}
Days == <<"d1", "d2", "d3">>

Has(text, atom) == \E i \in DOMAIN text : text[i] = atom
At(text, atom) == SelectInSeq(text, LAMBDA a : a = atom)
Before(text, atom) == SubSeq(text, 1, At(text, atom) - 1)
After(text, atom) == SubSeq(text, At(text, atom) + 1, Len(text))
Includes(text, val) ==
  \E i \in 1 .. Len(text) + 1 - Len(val) : SubSeq(text, i, i + Len(val) - 1) = val

--------------------------------------------------------------------------------
(* Text to query. *)

Tokenize(input) ==
  LET End(s) == IF s.current = <<>> THEN s
                ELSE [s EXCEPT !.tokens = Append(@, s.current), !.current = <<>>]
      Step(s, c) ==
        CASE c = Quote -> [s EXCEPT !.current = Append(@, c), !.inQuote = ~@]
          [] c = Space /\ ~s.inQuote -> End(s)
          [] OTHER -> [s EXCEPT !.current = Append(@, c)]
  IN End(FoldLeft(Step, [tokens |-> <<>>, current |-> <<>>, inQuote |-> FALSE],
                  input)).tokens

RemoveQuotes(s) ==
  IF Len(s) >= 2 /\ s[1] = Quote /\ s[Len(s)] = Quote THEN SubSeq(s, 2, Len(s) - 1)
  ELSE s

Filter(key, operator, value, maxValue) ==
  [key |-> key, operator |-> operator, value |-> value, maxValue |-> maxValue]

IsFilter(token) ==
  Has(token, Colon) /\ Before(token, Colon) # <<>> /\ After(token, Colon) # <<>>

(* What follows the second ".." of a value is dropped. *)
ToFilter(token) ==
  LET key == Before(token, Colon)
      val == After(token, Colon)
      upTo(s) == IF Has(s, Dots) THEN Before(s, Dots) ELSE s
  IN CASE Has(val, Dots) ->
            Filter(key, Dots, RemoveQuotes(upTo(val)),
                   RemoveQuotes(upTo(After(val, Dots))))
       [] ~Has(val, Dots) /\ Head(val) \in Operators ->
            Filter(key, Head(val), RemoveQuotes(Tail(val)), <<>>)
       [] OTHER -> Filter(key, "=", RemoveQuotes(val), <<>>)

ParseQuery(queryString) ==
  LET tokens == Tokenize(queryString)
      filters == SelectSeq(tokens, IsFilter)
      words == SelectSeq(tokens, LAMBDA t : ~IsFilter(t))
  IN [filters |-> [i \in DOMAIN filters |-> ToFilter(filters[i])],
      tokens |-> [i \in DOMAIN words |-> RemoveQuotes(words[i])]]

\* Mutant: the server leaves the quotes around words.
ServerParseQuoted(queryString) ==
  LET tokens == Tokenize(queryString)
      filters == SelectSeq(tokens, IsFilter)
  IN [filters |-> [i \in DOMAIN filters |-> ToFilter(filters[i])],
      tokens |-> SelectSeq(tokens, LAMBDA t : ~IsFilter(t))]
(* The server's parser: an unquoted second colon makes free text of the    *)
(* token, quotes are kept around the ends of a range.                      *)
ServerParse(queryString) ==
  LET tokens == Tokenize(queryString)
      plain(t) == /\ IsFilter(t)
                  /\ Has(After(t, Colon), Colon) => Head(After(t, Colon)) = Quote
      filters == SelectSeq(tokens, plain)
      words == SelectSeq(tokens, LAMBDA t : ~plain(t))
      served(t) == LET val == After(t, Colon)
                   IN IF Has(val, Dots)
                      THEN Filter(Before(t, Colon), Dots, Before(val, Dots),
                                  After(val, Dots))
                      ELSE ToFilter(t)
  IN [filters |-> [i \in DOMAIN filters |-> served(filters[i])],
      tokens |-> [i \in DOMAIN words |-> IF Has(words[i], Colon) THEN words[i]
                                         ELSE RemoveQuotes(words[i])]]

--------------------------------------------------------------------------------
(* Query to text. *)

\* Mutant: never quoted.
NeverQuoted(s) == s
QuoteIfNeed(s) == IF Has(s, Space) THEN <<Quote>> \o s \o <<Quote>> ELSE s

Written(f) ==
  f.key \o <<Colon>> \o
    CASE f.operator = Dots -> QuoteIfNeed(f.value) \o <<Dots>> \o QuoteIfNeed(f.maxValue)
      [] f.operator = "=" -> QuoteIfNeed(f.value)
      [] OTHER -> <<f.operator>> \o QuoteIfNeed(f.value)

BuildQuery(parsed) ==
  LET parts == [i \in DOMAIN parsed.filters |-> Written(parsed.filters[i])]
               \o [i \in DOMAIN parsed.tokens |-> QuoteIfNeed(parsed.tokens[i])]
  IN FoldLeft(LAMBDA text, part : IF text = <<>> THEN part
                                  ELSE text \o <<Space>> \o part, <<>>, parts)

--------------------------------------------------------------------------------
(* The panels: a record of the fields of the games', the teams' and the    *)
(* statistics' panels; a panel leaves the fields it does not have empty.   *)

EmptyPanel == [event |-> <<>>, location |-> <<>>, team |-> <<>>, name |-> <<>>,
               start |-> <<>>, end |-> <<>>, local |-> FALSE, remote |-> FALSE]

Only(present, f) == IF present THEN <<f>> ELSE <<>>
Equal(key, value) == Only(value # <<>>, Filter(<<key>>, "=", value, <<>>))
DateFilter(p) ==
  CASE p.start # <<>> /\ p.end # <<>> -> <<Filter(<<"date">>, Dots, p.start, p.end)>>
    [] p.start # <<>> /\ p.end = <<>> -> <<Filter(<<"date">>, ">=", p.start, <<>>)>>
    [] p.start = <<>> /\ p.end # <<>> -> <<Filter(<<"date">>, "<=", p.end, <<>>)>>
    [] OTHER -> <<>>
Flags(p) == Only(p.local, Filter(<<"is">>, "=", <<"local">>, <<>>))
            \o Only(p.remote, Filter(<<"is">>, "=", <<"remote">>, <<>>))

BuildAdvancedQuery(p) ==
  BuildQuery([filters |-> Equal("event", p.event) \o Equal("location", p.location)
                          \o DateFilter(p) \o Flags(p),
              tokens |-> Only(p.team # <<>>, p.team)])
BuildTeamsAdvancedQuery(p) ==
  BuildQuery([filters |-> Equal("name", p.name) \o Flags(p), tokens |-> <<>>])
BuildStatsAdvancedQuery(p) ==
  BuildQuery([filters |-> Equal("event", p.event) \o Equal("team", p.team)
                          \o DateFilter(p), tokens |-> <<>>])

ShowDate(p, f) ==
  CASE f.operator = ">=" -> [p EXCEPT !.start = f.value]
    [] f.operator = "<=" -> [p EXCEPT !.end = f.value]
    [] f.operator = Dots -> [p EXCEPT !.start = f.value, !.end = f.maxValue]
    [] OTHER -> p
ShowFlag(p, f) ==
  CASE f.value = <<"local">> -> [p EXCEPT !.local = TRUE]
    [] f.value = <<"remote">> -> [p EXCEPT !.remote = TRUE]
    [] OTHER -> p

SyncAdvancedPanel(query) ==
  FoldLeft(LAMBDA p, f :
    CASE f.key = <<"event">> -> [p EXCEPT !.event = f.value]
      [] f.key = <<"location">> -> [p EXCEPT !.location = f.value]
      [] f.key \in {<<"away">>, <<"home">>} -> [p EXCEPT !.team = f.value]
      [] f.key = <<"date">> -> ShowDate(p, f)
      [] f.key = <<"is">> -> ShowFlag(p, f)
      [] OTHER -> p,
    EmptyPanel, ParseQuery(query).filters)
SyncTeamsAdvancedPanel(query) ==
  FoldLeft(LAMBDA p, f :
    CASE f.key = <<"name">> -> [p EXCEPT !.name = f.value]
      [] f.key = <<"is">> -> ShowFlag(p, f)
      [] OTHER -> p,
    EmptyPanel, ParseQuery(query).filters)
SyncStatsAdvancedPanel(query) ==
  FoldLeft(LAMBDA p, f :
    CASE f.key = <<"event">> -> [p EXCEPT !.event = f.value]
      [] f.key = <<"team">> -> [p EXCEPT !.team = f.value]
      [] f.key = <<"date">> -> ShowDate(p, f)
      [] OTHER -> p,
    EmptyPanel, ParseQuery(query).filters)

--------------------------------------------------------------------------------
(* Matching. *)

Flagged(parsed, flag) ==
  \E i \in DOMAIN parsed.filters : /\ parsed.filters[i].key = <<"is">>
                                   /\ parsed.filters[i].value = <<flag>>

(* Dates are compared as strings: the empty one is before every day, and   *)
(* the end of a range covers every date it is a prefix of.                 *)
Day(text) == IF text = <<>> THEN 0 ELSE SelectInSeq(Days, LAMBDA d : d = Head(text))
OnDate(date, f) ==
  CASE f.operator = "=" -> f.value = <<>> \/ date = f.value
    [] f.operator = ">=" -> Day(date) >= Day(f.value)
    [] f.operator = "<=" -> Day(date) <= Day(f.value)
    [] f.operator = ">" -> Day(date) > Day(f.value)
    [] f.operator = "<" -> Day(date) < Day(f.value)
    [] f.operator = Dots -> /\ Day(date) >= Day(f.value)
                             /\ f.maxValue # <<>> => Day(date) <= Day(f.maxValue)

MatchesGame(g, parsed) ==
  /\ \A i \in DOMAIN parsed.tokens :
       \E text \in {g.event, g.location, g.away, g.home} : Includes(text, parsed.tokens[i])
  /\ \A i \in DOMAIN parsed.filters :
       LET f == parsed.filters[i]
       IN /\ f.key = <<"event">> => Includes(g.event, f.value)
          /\ f.key = <<"location">> => Includes(g.location, f.value)
          /\ f.key = <<"away">> => Includes(g.away, f.value)
          /\ f.key = <<"home">> => Includes(g.home, f.value)
          /\ f.key = <<"date">> => OnDate(g.date, f)

MatchesTeam(t, parsed) ==
  /\ \A i \in DOMAIN parsed.tokens : Includes(t.name, parsed.tokens[i])
  /\ \A i \in DOMAIN parsed.filters :
       parsed.filters[i].key = <<"name">> => Includes(t.name, parsed.filters[i].value)
================================================================================
