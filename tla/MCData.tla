------------------------------- MODULE MCData -------------------------------
(***************************************************************************)
(* The components that hold or frame data.  They share no state: a         *)
(* behaviour is one of one of them.                                        *)
(***************************************************************************)
EXTENDS Values, Streams, Slowlog, Resp, Rdb

VARIABLE part

allVars == <<part, valueVars, streamVars, slowlogVars, respVars, rdbVars>>

DataInit ==
    /\ part \in {"collection", "stream", "slowlog", "resp", "rdb"}
    /\ ValuesInit /\ StreamInit /\ SlowlogInit /\ RespInit /\ RdbInit
    /\ part # "collection" => kind = "set"
    /\ part # "resp" => wire = "negative"
    /\ part # "rdb" => replaces

OfCollection == part = "collection"
                /\ UNCHANGED <<part, streamVars, slowlogVars, respVars, rdbVars>>
OfStream == part = "stream"
            /\ UNCHANGED <<part, valueVars, slowlogVars, respVars, rdbVars>>
OfSlowlog == part = "slowlog"
             /\ UNCHANGED <<part, valueVars, streamVars, respVars, rdbVars>>
OfResp == part = "resp"
          /\ UNCHANGED <<part, valueVars, streamVars, slowlogVars, rdbVars>>
OfRdb == part = "rdb"
         /\ UNCHANGED <<part, valueVars, streamVars, slowlogVars, respVars>>

DataNext ==
    \/ SAdd /\ OfCollection
    \/ SRem /\ OfCollection
    \/ HSet /\ OfCollection
    \/ HDel /\ OfCollection
    \/ ZAdd /\ OfCollection
    \/ AddAuto /\ OfStream
    \/ AddGiven /\ OfStream
    \/ \E r \in Recorders : TakeID(r) /\ OfSlowlog
    \/ \E r \in Recorders : RecordEntry(r) /\ OfSlowlog
    \/ Reset /\ OfSlowlog
    \/ Receive /\ OfResp
    \/ WriteTemp /\ OfRdb
    \/ SaveFails /\ OfRdb
    \/ SyncTemp /\ OfRdb
    \/ Rename /\ OfRdb
    \/ RemoveTarget /\ OfRdb
    \/ SyncDir /\ OfRdb
    \/ TimePasses /\ OfRdb
    \/ Crash /\ OfRdb
    \/ ExitAndStart /\ OfRdb

DataSpec == DataInit /\ [][DataNext]_allVars

-----------------------------------------------------------------------------
\* Sequences of one or two.
Batches(S) == {<<x>> : x \in S} \cup {<<x, y>> : x, y \in S}

\* Texts of a set: three numbers, one of them written in two ways, and a word.
MCIntOf == [t \in {"1", "2", "3", "01"} |->
               CASE t \in {"1", "01"} -> 1 [] t = "2" -> 2 [] t = "3" -> 3]
MCTextOf == [i \in 1..3 |-> CASE i = 1 -> "1" [] i = 2 -> "2" [] i = 3 -> "3"]
SetTexts == {"1", "2", "3", "01", "x"}

\* Fields and values of one to three bytes; three are too many for an arena.
HashFields == {<<1>>, <<2>>, <<1, 2>>}
HashPairs == (HashFields \X {<<1>>, <<2, 1>>, <<2, 2, 1>>})
             \cup {<<<<1, 1, 1>>, <<1>>>>}

MCPuts ==
    [k \in Kinds |->
        CASE k = "set" -> Batches(SetTexts \X {"member"})
          [] k = "hash" -> {<<p>> : p \in HashPairs}
                           \cup Batches({<<1>>, <<2>>} \X {<<1>>, <<2, 1>>})
          [] k = "zset" -> {<<p>> : p \in ((1..3) \X {1, 2}) \cup {<<4, 1>>}}
                           \cup {<<<<1, 1>>, <<2, 2>>>>, <<<<3, 2>>, <<3, 1>>>>}]
MCTakes ==
    [k \in Kinds |->
        CASE k = "set" -> Batches(SetTexts)
          [] k = "hash" -> Batches(HashFields)
          [] k = "zset" -> {}]

\* What clients send.
Bulk(s) == <<"bulk", s>>
MCSent ==
    [w \in Wires |->
        CASE w = "pipeline" ->
                <<<<"array", <<Bulk(<<"x">>), Bulk(<<"CR", "LF">>)>>>>,
                  <<"array", <<>>>>, <<"integer", -12>>>>
          [] w = "lines" ->
                <<<<"simple", <<"x">>>>, <<"null">>, <<"boolean", "t">>,
                  <<"error", <<"x", "$">>>>, <<"null bulk">>, <<"null array">>>>
          [] w = "nested" ->
                <<<<"array", <<<<"array", <<Bulk(<<>>)>>>>, <<"integer", 3>>>>>>>>
          [] w = "long" ->
                <<Bulk([i \in 1..10 |-> "x"]), <<"array", <<Bulk(<<"x", "$">>)>>>>>>
          [] OTHER -> <<<<"array", <<Bulk(<<"x">>)>>>>>>]
MCTrailing ==
    [w \in Wires |->
        CASE w = "no CR" -> <<"$", "1", "LF", "x">>
          [] w = "no end" -> <<"$", "1", "CR", "LF", "x", "x", "x">>
          [] w = "deep" -> <<"*", "1", "CR", "LF", "*", "1", "CR", "LF",
                             "*", "1", "CR", "LF", "$">>
          [] w = "range" -> <<"*", "1", "0", "0", "CR", "LF">>
          [] w = "huge" -> <<"$", "6", "0", "CR", "LF", "x">>
          [] w = "negative" -> <<"*", "-", "2", "CR", "LF", "x">>
          [] OTHER -> <<>>]

\* Strings with the lengths at which the length encoding changes.
MCLengthOf ==
    [s \in Strings |->
        CASE s = "empty" -> 0 [] s = "one" -> 1 [] s = "max6" -> 63
          [] s = "min14" -> 64 [] s = "max14" -> 16383 [] s = "min32" -> 16384]
Saved(v, e) == [value |-> v, expires |-> e]
MCOldKeys ==
    [k \in {"one", "min14"} |->
        IF k = "one" THEN Saved("max14", 0) ELSE Saved("one", 3)]
MCNewKeys ==
    [k \in {"one", "max6", "min14", "empty"} |->
        CASE k = "one" -> Saved("min32", 2) [] k = "max6" -> Saved("min32", 1)
          [] k = "min14" -> Saved("empty", 3) [] k = "empty" -> Saved("min14", 0)]
=============================================================================
