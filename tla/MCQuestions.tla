---------------------------- MODULE MCQuestions ----------------------------
(***************************************************************************)
(* The questions asked of the engines: for each, every combination of a    *)
(* few values on both sides of what the engine decides by.                 *)
(***************************************************************************)
EXTENDS Questions

Clean == Reading(6000, 900, None)
Middling == Reading(20000, 500, 30000)
Dirty == Reading(52000, 100, 80000)
NoFigures == [z \in {} |-> 0]

MCFactor == "natural_gas" :> 490 @@ "coal" :> 820 @@ "hydro" :> 24 @@ "wind" :> 11 @@ "other" :> 400
MCRenewables == {"hydro", "wind"}
MCStorage == {"battery", "pumped_storage"}
MCMeritOrder == <<"natural_gas", "coal">>

MCRegion(provider, region, zone, offset, areas) ==
    [provider |-> provider, region |-> region, zone |-> zone, offset |-> offset, areas |-> areas]
MCMap == <<MCRegion("aws", "r1", "A", 0, {"EU"}), MCRegion("gcp", "r2", "B", -8, {"US"}),
           MCRegion("aws", "r3", "B", -8, {"US", "CA"}), MCRegion("gcp", "r4", "C", 5, {})>>

PartOf(Z, S) == UNION {[Y -> S] : Y \in SUBSET Z}

Schedules ==
    [kind : {"schedule"},
     env : [hour : {5, 17}, regions : {MCMap},
            readings : [{"A", "B"} -> {Middling, Dirty}] \cup {"A" :> Clean, "B" :> Clean @@ "C" :> Dirty, NoFigures},
            curves : {NoFigures, "A" :> (0 :> 20 @@ 1 :> 60 @@ 2 :> 90 @@ 3 :> 10) @@ "B" :> NoFigures},
            weather : {"A" :> (0 :> 50 @@ 1 :> 5 @@ 2 :> 80) @@ "B" :> (0 :> 10 @@ 1 :> 80 @@ 2 :> 30)},
            marginals : {NoFigures}],
     req : [minutes : {60, 90, 180}, providers : {<<"aws", "gcp">>, <<"gcp">>}, preferred : {<<>>, <<"r3", "r1">>},
            strategy : {"lowest_carbon", "highest_renewable", "balanced"}, maxDelay : {1, 2, 4}]]

Signals ==
    [kind : {"signal"},
     points : {<<now, Reading(c, r, None), last>> : now \in {Clean, Middling, Dirty},
                                                    c \in {7000, 17000, 44000}, r \in {300, 900},
                                                    last \in {Middling, Clean}},
     current : {Clean, Middling}, measured : {None, 9000, 60000}, cap : {None, 59, 60, 300}, maxWait : {0, 3}]

Plans ==
    LET labelled(name) == [label : {name}, intensities : {<<>>, <<50, 50, 10>>, <<50, 40, 49>>, <<0, 10, 0>>},
                           surplus : {{}, {1}, {0, 2}}]
    IN  [kind : {"plan"}, regions : {<<a>> : a \in labelled("a")}
                                     \cup {<<a, b>> : a \in labelled("a"), b \in labelled("b")},
         cap : {None, 40}, maxWait : {0, 1, 5}, minSavings : {0, 25}]

At(t, c) == [at |-> t, c |-> c]
Archives ==
    {NoFigures} \cup
    {"r1" :> <<At(24, a), At(25, b), At(48, c), At(49, 30000), At(None, 10000)>> :
        a \in {10000, 30000}, b \in {None, 20000, 0}, c \in {10000, 41000}} \cup
    {"r1" :> <<At(30, a), At(3, b), At(27, 20000)>> @@ "r2" :> <<At(40, a), At(39, 5000), At(41, b), At(47, 9000)>> :
        a \in {10000, 30000}, b \in {None, 20000}}

Patterned ==
    [kind : {"patterns"}, archive : Archives, store : {[loaded |-> FALSE, age |-> 0, data |-> NoFigures]},
     ttl : {1}, now : {51}, forecast : {<<>>, <<At(52, 9000), At(53, 18000)>>},
     current : {0, 20000}, hour : {1, 3}, kept : {<<>>, <<[date |-> 27, mean |-> 1, top |-> None],
                                                          [date |-> 51, mean |-> 1, top |-> 2]>>}]

Routes ==
    [kind : {"route"}, map : {MCMap},
     req : [providers : {<<"aws">>, <<"gcp", "aws">>}, candidates : {{}, {"r1", "r3"}, {"r9"}},
            residency : {{}, {"EU"}, {"CA"}}, weight : {1, 10}],
     readings : {NoFigures, "B" :> Dirty} \cup [{"A", "B", "C"} -> {Clean, Middling, Dirty}]]

Entries ==
    [ts : {None, 1, 9}, region : {"a", "b"}, deferred : {0, 3}, basis : {"measured"},
     reduction : {0, 1000}, predicted : {Absent, 1, 2, 700}, energy : {None, 2}]
SomeEntries ==
    {e \in Entries : /\ e.deferred = 0 => e.reduction = 0 /\ e.predicted = Absent
                     /\ e.region = "b" => e.energy = 2}
Ledgers ==
    [kind : {"ledger"}, entries : {<<>>} \cup {<<a, b>> : a, b \in SomeEntries}, now : {10}, days : {5}, top : {1, 2}]

Region(zone, actual, forecast, mix) == [zone |-> zone, actual |-> actual, forecast |-> forecast, mix |-> mix]
Sources ==
    {<<UKProvider(gb, <<Region("GB-1", None, f, NoFigures), Region("GB-2", 9000, None, "wind" :> 30 @@ "gas" :> 70)>>),
       ENTSOEProvider("A" :> a @@ "B" :> Clean, "A" :> tries @@ "B" :> <<"ok", "ok", "ok">>),
       ElectricityMapsProvider("A" :> Dirty @@ "B" :> Dirty @@ "GB-2" :> c, malformed)>> :
        gb \in {NoReading, Clean}, f \in {None, 8000}, a \in {NoReading, Clean}, c \in {NoReading, Middling},
        tries \in {<<"ok", "ok", "ok">>, <<"transient", "transient", "ok">>,
                   <<"transient", "transient", "transient">>, <<"refused", "ok", "ok">>},
        malformed \in {{}, {"B"}, {"GB-2"}}}
ReadingsAsked ==
    [kind : {"readings"}, providers : Sources,
     configured : {{"UK", "Electricity Maps"}, {"UK", "ENTSO-E", "Electricity Maps"}},
     mock : {"A" :> Dirty}, zones : {{"A"}, {"A", "B", "GB", "GB-1", "GB-2"}, {"GB-2", "B"}},
     snapshot : {<<>>, <<[zone |-> "A", reading |-> NoReading], [zone |-> "A", reading |-> Middling],
                         [zone |-> "GB-1", reading |-> Clean], [zone |-> "GB-1", reading |-> Dirty]>>}]

Entry(fuel, mw) == [fuel |-> fuel, mw |-> mw]
Mixes ==
    [kind : {"feeds"},
     entries : {<<Entry("natural_gas", a), Entry("wind", b), Entry("battery", c), Entry("natural_gas", d)>> :
                   a \in {0, 3}, b \in {0, 10}, c \in {-4, 0, 10}, d \in {-4, -2, 0, 5}}
               \cup {<<Entry("hydro", a), Entry("pumped_storage", b), Entry("coal", c), Entry("hydro", d)>> :
                   a \in {0, 3}, b \in {-2, 0, 10}, c \in {0, 2}, d \in {-4, 0, 5}}
               \cup {<<Entry("other", a), Entry("wind", b), Entry("other", c)>> :
                   a \in {0, 6}, b \in {None, 0, 3}, c \in {-8, -4, 5}}]

Hours(values) == {<<[hour |-> 0, mw |-> a], [hour |-> 0, mw |-> 0], [hour |-> 1, mw |-> b]>> : a, b \in values}
Estimates ==
    [kind : {"estimates"}, totals : {<<>>, [thermal |-> 0, hydro |-> 0, renewable |-> 0, nuclear |-> 0],
                                     [thermal |-> 60, hydro |-> 10, renewable |-> 20, nuclear |-> 10]},
     base : {Reading(71000, 200, None)}, hour : {3, 12, 19}, radiation : {0, 900}, wind : {60},
     entries : {<<>>, <<[fuel |-> "hydro", mw |-> 8], [fuel |-> "thermal", mw |-> 2]>>},
     zones : {{"A", "B"}},
     regions : {<<[zone |-> "A", actual |-> a, forecast |-> 12000, mix |-> "wind" :> 30 @@ "gas" :> 70],
                  [zone |-> "B", actual |-> None, forecast |-> f, mix |-> "wind" :> 0]>> :
                  a \in {None, 9000}, f \in {None, 8000}},
     actual : {0, 15000}, mix : {"hydro" :> 1 @@ "gas" :> 3},
     vre : {<<h>> : h \in Hours({50})}, load : {<<h>> : h \in Hours({0, 40})}]

Marginals ==
    [kind : {"marginal"}, wattToken : BOOLEAN, wattPairs : {<<>>, <<[zone |-> "A", region |-> "PJM"], [zone |-> "B", region |-> ""]>>},
     emKey : BOOLEAN, emPairs : {<<>>, <<[zone |-> "B", region |-> "DE"]>>}, zone : {"A", "B"}, hours : {1},
     body : {<<>>} \cup {<<[hour |-> h, value |-> v], [hour |-> 1, value |-> w]>> :
                            h \in {-1, 0}, v \in {None, 905}, w \in {None, 77}}]

Flowing ==
    [kind : {"flows"}, zones : {<<"A", "B", "C">>, <<"C", "A", "B">>}, loads : PartOf({"A", "B", "C"}, {0, 10}),
     intensity : {"A" :> 60000 @@ "B" :> 2000 @@ "C" :> 30000}, borders : {{<<"A", "B">>, <<"B", "C">>, <<"A", "C">>}},
     measured : {NoFigures, <<"A", "B">> :> 5, <<"B", "A">> :> 8 @@ <<"A", "B">> :> 3 @@ <<"B", "C">> :> 20,
                 <<"A", "B">> :> 9 @@ <<"B", "C">> :> 9 @@ <<"C", "A">> :> 9},
     sweeps : {0, 1, 3}]

Batches ==
    LET batch(day) == [readings : {NoFigures, "A" :> Clean @@ "B" :> Dirty, "A" :> Middling, "B" :> Clean}, day : {day}]
    IN  {<<>>} \cup {<<a, b, c>> : a, b \in batch(1), c \in batch(1) \cup batch(2)}
(* Five zones, of which one may breach before the SLA does. *)
Fifths == {"P", "Q", "R", "S", "T"}
FifthsMap == <<MCRegion("aws", "p", "P", 0, {}), MCRegion("aws", "q", "Q", 0, {}), MCRegion("aws", "r", "R", 0, {}),
               MCRegion("aws", "s", "S", 0, {}), MCRegion("aws", "t", "T", 0, {})>>
FifthBatches ==
    LET batch == [readings : {[z \in Fifths |-> IF z \in dirty THEN Dirty ELSE Clean] :
                                  dirty \in {{}, {"P"}, {"P", "Q"}}}, day : {1}]
    IN  {<<a, b, c>> : a, b, c \in batch}

Agreements ==
    LET asked(map, batches) ==
            [kind : {"sla"}, map : {map}, batches : batches,
             sla : [providers : {<<"aws">>}, regions : {<<>>, <<"r1", "r9">>}, maxCarbon : {6000, 20000},
                    minRenewable : {0, 600}]]
    IN  asked(MCMap, Batches) \cup asked(FifthsMap, FifthBatches)

MCAsked ==
    [schedule |-> Schedules, signal |-> Signals, plan |-> Plans, patterns |-> Patterned, route |-> Routes,
     ledger |-> Ledgers, readings |-> ReadingsAsked, feeds |-> Mixes, estimates |-> Estimates,
     marginal |-> Marginals, flows |-> Flowing, sla |-> Agreements]
=============================================================================
