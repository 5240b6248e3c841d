---------------------------- MODULE MCCompliance ----------------------------
(* Feeds of every adapter, one of them broken, over the regions of the map,  *)
(* one of which has no figure, and over one (Azure's) that the map lacks.    *)
EXTENDS Compliance

CONSTANTS o1, c1, c2

Row(region, service, quantity, unit) ==
    [region |-> region, service |-> service, quantity |-> quantity, unit |-> unit,
     provider |-> "aws", family |-> "small", from |-> 1, to |-> 2]
Feed(adapter, data) == [adapter |-> adapter, data |-> data]
MCFeeds ==
    {Feed("mock", <<Row("r1", "vm", 2, "vcpu_hours")>>), Feed("csv", <<Row("r1", "vm", None, "vcpu_hours")>>),
     Feed("aws", <<<<Row("r1", "lambda", 3, "usd"), Row("NoRegion", "s3", 0, "usd")>>,
                   <<Row("r2", "cloudfront", 1, "usd")>>>>),
     Feed("gcp", <<Row("g1", "vm", 1, "requests")>>),
     Feed("azure", <<Row("r1", "vm", 1, "usd")>>)}
MCOtherFeeds == {Feed("csv", <<Row("r1", "vm", 2, "vcpu_hours")>>)}

MCRegionMap == <<[provider |-> "aws", region |-> "r1", zone |-> "A", areas |-> {}],
                 [provider |-> "aws", region |-> "r2", zone |-> "B", areas |-> {}],
                 [provider |-> "gcp", region |-> "g1", zone |-> "A", areas |-> {}]>>
MCIntensities == "A" :> Reading(300, 200, None) @@ "unknown" :> Reading(250, 300, None)
MCCoefficient == "vcpu_hours" :> ("default" :> 2 @@ "small" :> 1) @@ "gb_hours" :> ("default" :> 1)
                 @@ "gb_transferred" :> ("default" :> 3) @@ "requests" :> ("default" :> 1)
MCPUE == "aws" :> 114 @@ "default" :> 120
MCPeriods == {[from |-> 0, to |-> 9], [from |-> 2, to |-> 9]}
=============================================================================
