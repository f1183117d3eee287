--------------------------------- MODULE MCReads -------------------------------
(* A small hub to read: an Eval (1) of theirs, two Cards of mine (11, 13)    *)
(* and one of theirs (12), three runs.                                       *)
EXTENDS Reads

CONSTANTS mine, theirs

S(n) == Lit("string", <<n>>)
T(n) == Lit("timestamp", <<n>>)
leaf(names) == [is |-> "leaf", types |-> names]
obj(props) == [is |-> "object", props |-> props]
NoFields == [p \in {} |-> Null]
NoNodes == [p \in {} |-> None]

temperature == <<"generation", "temperature">>
seed == <<"generation", "seed">>
title == <<"title">>
extk == <<"ext", "mine", "k">>
tokens == "core/tokens"
judge == "mine/judge"

MCSchema == [k \in {"card", "eval"} |->
  [defs |-> [Generation |-> obj([temperature |-> [is |-> "anyOf", of |-> <<leaf(<<"null">>), leaf(<<"number">>)>>],
                                 seed |-> leaf(<<"integer", "null">>), ext |-> obj(NoNodes)])],
   props |-> [title |-> leaf(<<"string">>), results |-> None, relations |-> None,
              generation |-> [is |-> "ref", to |-> "Generation"], ext |-> obj(NoNodes)]]]
MCGenerated == {title, temperature}
MCFacets == [k \in {"card", "eval"} |-> {"generation", "harness"}]
MCIds == {tokens, judge}
MCText == tokens :> S(70)
MCCardRecord == judge :> 11
MCHex == {S(80), S(81)}
MCInstant == S(91) :> T(1)

MCKind == [r \in {1, 11, 12, 13} |-> IF r = 1 THEN "eval" ELSE "card"]
MCNsOf == [r \in {1, 11, 12, 13} |-> IF r \in {11, 13} THEN mine ELSE theirs]
MCCreated == [r \in {1, 11, 12, 13} |-> IF r = 1 THEN 1 ELSE 5]
MCName == 1 :> 3 @@ 11 :> 2 @@ 12 :> 1 @@ 13 :> 2
MCSearched == "x" :> {11, 3, 4}
MCAddress == [v \in 1..5 |-> S(100 + v)]
MCUsesEval == S(60)

UsesEdge == [type |-> S(60), to |-> 1, text |-> None]
Cites(v) == [type |-> S(61), to |-> v, text |-> None]
Mentions(v) == [type |-> S(61), to |-> None, text |-> S(100 + v)]
Score(n) == [metric |-> S(70), aggregation |-> S(71), value |-> Num(n), n |-> Num(1)]
Judged(r, n) == [eval |-> 1, run |-> r, metric |-> tokens, value |-> Num(n), label |-> Null]
Version(rec, seq, created) ==
  [rec |-> rec, seq |-> seq, created |-> created, body |-> title :> S(1), results |-> {},
   edges |-> {}, files |-> {}, fingerprints |-> NoFields, judgements |-> {}, used |-> NoFields]
(* Stored in an order that is not that of their creation.                    *)
MCContent ==
  1 :> Version(1, 1, 1)
  @@ 2 :> [Version(11, 1, 3) EXCEPT !.results = {Score(5)}, !.edges = {UsesEdge, Mentions(3)},
             !.body = title :> S(1) @@ temperature :> Num(1) @@ extk :> Num(4),
             !.fingerprints = "harness" :> S(80), !.judgements = {Judged(1, 2)},
             !.used = 1 :> 1 @@ 2 :> 2]
  @@ 3 :> [Version(12, 1, 2) EXCEPT !.edges = {Cites(2)}, !.body = extk :> Num(4) @@ seed :> Num(3)]
  @@ 4 :> [Version(11, 2, 4) EXCEPT !.results = {Score(3), Score(9)}, !.edges = {UsesEdge, Cites(3)},
             !.body = title :> S(2) @@ temperature :> Num(2), !.used = 1 :> 1,
             !.judgements = {Judged(1, 2), Judged(1, 7)}]
  @@ 5 :> [Version(13, 1, 3) EXCEPT !.results = {Score(9)}, !.edges = {Cites(3), Cites(1)},
             !.body = title :> S(2) @@ temperature :> Num(1)]

Carried(n, m) ==
  [status |-> S(n), error_kind |-> Null, started_at |-> T(n), ended_at |-> Null,
   body |-> temperature :> Num(n), metrics |-> m, fingerprints |-> "harness" :> S(80)]
Tokens(n) == tokens :> Num(n)
MCRunContents ==
  {[hash |-> 1, is |-> Carried(1, Tokens(5))], [hash |-> 2, is |-> Carried(2, NoFields)]}
RunAs(state, c) == [state |-> state, hash |-> c, is |-> IF c = 1 THEN Carried(1, Tokens(5)) ELSE Carried(2, NoFields)]
NoRun == [state |-> "absent", hash |-> None, is |-> None]

MCSchemas == {[ns |-> "mine", key |-> "k", ty |-> "number"]}
MCStarts ==
  {[live |-> {1, 2, 3, 5}, dead |-> {}, public |-> {1, 11, 12, 13}, log |-> {1, 2, 4}, applied |-> <<>>,
    runs |-> <<RunAs("live", 1), RunAs("live", 2), RunAs("archived", 1)>>],
   [live |-> {1, 2, 4, 5}, dead |-> {3}, public |-> {11, 13}, log |-> {2, 3},
    applied |-> <<[ns |-> "mine", key |-> "k", ty |-> "number"]>>,
    runs |-> <<RunAs("archived", 1), RunAs("deleted", 2), RunAs("live", 1)>>]}

-----------------------------------------------------------------------------
Is(path, op, value) == [path |-> path, op |-> op, value |-> value]
By(path, dir) == [path |-> path, dir |-> dir]
Cards(where, sort, version, caller) ==
  [target |-> "records", kind |-> "card", where |-> where, sort |-> sort, limit |-> 1,
   version |-> version, caller |-> caller, expand |-> TRUE]
Runs(cards, where, sort, include, caller) ==
  [target |-> "runs", kind |-> "eval", cards |-> cards, where |-> where, sort |-> sort,
   limit |-> 1, version |-> None, include |-> include, caller |-> caller]
Page2(r) == [r EXCEPT !.limit = 2]

AnyTo(v) == [path |-> <<"relations">>, op |-> "any", match |-> [to |-> S(100 + v)]]
RecordRequests ==
  {Cards(None, <<By(<<"created_at">>, "desc")>>, "latest", {mine}),
   Page2(Cards([and |-> <<AnyTo(3), [not |-> Is(extk, "eq", Num(4))]>>],
               <<By(<<"results", tokens, "value">>, "desc")>>, "all", {})),
   Cards([or |-> <<AnyTo(2), Is(temperature, "gte", Num(1))>>],
         <<By(temperature, "asc"), By(<<"created_at">>, "desc")>>, "all", {mine}),
   Cards([not |-> Is(title, "prefix", S(3))], <<By(extk, "asc")>>, "latest", {theirs}),
   Cards(Is(<<"fingerprint", "harness">>, "gt", S(80)), <<>>, "latest", {mine}),
   Cards(Is(seed, "lt", Num(9)), <<>>, "latest", {}),
   Cards([path |-> <<"generation">>, op |-> "exists"], <<By(<<"nowhere">>, "asc")>>, "latest", {})}
Judgement == <<"results", judge, tokens, "value">>
RunRequests ==
  {Runs({}, None, <<By(<<"metrics", tokens>>, "asc")>>, {"archived", "deleted"}, {}),
   Runs({}, None, <<By(<<"metrics", tokens>>, "desc")>>, {"archived", "deleted"}, {theirs}),
   Runs({judge}, [or |-> <<Is(Judgement, "gte", Num(1)), Is(<<"status">>, "ne", S(9))>>],
        <<By(Judgement, "desc"), By(<<"started_at">>, "asc")>>, {}, {mine}),
   Runs({judge}, [not |-> Is(<<"started_at">>, "lt", S(91))], <<>>, {"archived"}, {}),
   Page2(Runs({}, [path |-> temperature, op |-> "exists"], <<By(<<"ended_at">>, "desc")>>, {}, {theirs}))}
Listing(ns, search, sort, caller) ==
  [target |-> "list", kind |-> "card", ns |-> ns, search |-> search, sort |-> sort,
   limit |-> 1, caller |-> caller]
ListRequests ==
  {Listing(None, None, "created_desc", {mine}), Listing(mine, "x", "created_asc", {}),
   Listing(None, None, "name_asc", {theirs})}
MCRequests == RecordRequests \cup RunRequests \cup ListRequests
              \cup {[target |-> "audit", limit |-> 1, caller |-> {mine}]}
================================================================================
