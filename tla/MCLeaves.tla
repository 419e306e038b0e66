----------------------------- MODULE MCLeaves -----------------------------
(***************************************************************************)
(* The parts that serve one request and share nothing with each other: the *)
(* body and the columns of a create request, the expansion of a run, the   *)
(* dial of a proxy, the evidence of the reputation providers, the reports, *)
(* the sample pages and the CSV exports.  In a behaviour one of them runs  *)
(* and the others are idle, so that one run explores them side by side.    *)
(***************************************************************************)
EXTENDS Requests, Expansion, Dialer, Reputation, PoolReport, SampleQueries, Export

leafVars == <<requestVars, expansionVars, dialVars, reputationVars, reportVars, queryVars, exportVars>>

Init ==
  \/ RequestInit /\ ExpandIdle /\ DialIdle /\ LookupIdle /\ ReportIdle /\ QueryIdle /\ ExportIdle
  \/ RequestIdle /\ ExpandInit /\ DialIdle /\ LookupIdle /\ ReportIdle /\ QueryIdle /\ ExportIdle
  \/ RequestIdle /\ ExpandIdle /\ DialInit /\ LookupIdle /\ ReportIdle /\ QueryIdle /\ ExportIdle
  \/ RequestIdle /\ ExpandIdle /\ DialIdle /\ LookupInit /\ ReportIdle /\ QueryIdle /\ ExportIdle
  \/ RequestIdle /\ ExpandIdle /\ DialIdle /\ LookupIdle /\ ReportInit /\ QueryIdle /\ ExportIdle
  \/ RequestIdle /\ ExpandIdle /\ DialIdle /\ LookupIdle /\ ReportIdle /\ QueryInit /\ ExportIdle
  \/ RequestIdle /\ ExpandIdle /\ DialIdle /\ LookupIdle /\ ReportIdle /\ QueryIdle /\ ExportInit

Next ==
  \/ Requesting /\ UNCHANGED <<expansionVars, dialVars, reputationVars, reportVars, queryVars, exportVars>>
  \/ Expand /\ UNCHANGED <<requestVars, dialVars, reputationVars, reportVars, queryVars, exportVars>>
  \/ Dialing /\ UNCHANGED <<requestVars, expansionVars, reputationVars, reportVars, queryVars, exportVars>>
  \/ LookupProviders /\ UNCHANGED <<requestVars, expansionVars, dialVars, reportVars, queryVars, exportVars>>
  \/ Reporting /\ UNCHANGED <<requestVars, expansionVars, dialVars, reputationVars, queryVars, exportVars>>
  \/ Querying /\ UNCHANGED <<requestVars, expansionVars, dialVars, reputationVars, reportVars, exportVars>>
  \/ Exporting /\ UNCHANGED <<requestVars, expansionVars, dialVars, reputationVars, reportVars, queryVars>>

Spec == Init /\ [][Next]_leafVars /\ DialFairness /\ ExportFairness

-----------------------------------------------------------------------------
(* Values of the constants: a few of each kind on both sides of every      *)
(* boundary, with the integers scaled down.                                *)

MCMinInt == -32

Edges == {0, 1, MaxPersisted, MaxPersisted + 1, 2 * (MaxPersisted + 1) + 1, MaxInt}
Plain == [op |-> "createSession", shape |-> "object", nulls |-> {}, name |-> "name", mode |-> "sticky",
          proxy |-> "host:port", template |-> "valid", axes |-> "known", cadence |-> 1, probes |-> Nil,
          dial |-> Nil, maxSamples |-> Nil, maxDuration |-> Nil, country |-> Nil]
MCBodies ==
  {[Plain EXCEPT !.cadence = c, !.dial = d, !.maxSamples = m, !.maxDuration = u] :
     c \in Edges, d \in Edges \cup {Nil}, m \in Edges \cup {Nil}, u \in Edges \cup {Nil}} \cup
  {[Plain EXCEPT !.op = o, !.shape = s, !.probes = p, !.country = c, !.mode = m] :
     o \in {"createSession", "createRun", "edit"}, s \in {"object", "oversized", "unknownProperty", "trailing"},
     p \in {Nil, 0, MaxProbes, MaxProbes + 1}, c \in {Nil, "", "de", "DE", "xyz"},
     m \in {"sticky", "pool", "other"}} \cup
  {[Plain EXCEPT !.op = o, !.nulls = n] : o \in {"createSession", "createRun"}, n \in SUBSET {"probes", "dial", "maxSamples"}} \cup
  {[Plain EXCEPT !.op = o, !.name = n, !.nulls = IF n = Nil THEN x ELSE {}, !.template = t, !.axes = a, !.proxy = p] :
     o \in {"createSession", "createRun", "edit"}, n \in {Nil, " ", " name ", "long"},
     t \in {"valid", "blank", "secretAxis"}, a \in {"known", "unknownKey"}, p \in {"host:port", "host"},
     x \in {{}, {"name"}}}
MCDefaultProbes == [sticky |-> 1, pool |-> 2]

Axis0(k) == [kind |-> k, values |-> <<>>, from |-> Nil, to |-> Nil, count |-> Nil, length |-> Nil, unsafe |-> FALSE]
MCSpecs ==
  {[Axis0("list") EXCEPT !.values = v, !.unsafe = u] :
     v \in {<<>>, <<1>>, <<1, 2>>, <<1, 1>>, [i \in 1 .. 22 |-> i]}, u \in BOOLEAN} \cup   \* 3 * 22 wraps to 2
  {[Axis0("range") EXCEPT !.from = f, !.to = t] : f, t \in {MinInt, -1, 0, MaxInt - 2, MaxInt, Nil}} \cup
  {[Axis0("random") EXCEPT !.count = c, !.length = l] :
     c \in {Nil, 1, 2, 3, MaxInt}, l \in {-1, Nil, 2, MaxRandomLength + 1}} \cup
  {Axis0("other")}

MCReputations ==
  LET R(c, n, i, r, p, g, s, l) ==
        [category |-> c, country |-> n, isp |-> i, risk |-> r, proxy |-> p, grey |-> g, spam |-> s, listed |-> l]
  IN {Nil, R("mobile", "DE", {"telekom", "ag"}, 70, Nil, "benign", Nil, FALSE),
      R("datacenter", "US", {"aws"}, 100, FALSE, Nil, FALSE, TRUE),
      R("vpn", Nil, Nil, 69, TRUE, Nil, TRUE, Nil),
      R("residential", "DE", {"aws"}, Nil, Nil, "malicious", Nil, Nil)}
MCSightings == {Nil, [hits |-> 1, first |-> 1, last |-> 2], [hits |-> 2, first |-> 0, last |-> 1]}
MCRequested ==
  LET W(c, n, i, t) == [cell |-> c, country |-> n, isp |-> i, target |-> t]
  IN {[v \in Variants |-> W(1, "DE", Nil, Nil)],
      [v \in Variants |-> W(v, "US", {"telekom"}, Nil)],
      [v \in Variants |-> W(1, IF v = 1 THEN "US" ELSE Nil, Nil, IF v = 1 THEN "DE" ELSE Nil)]}
=============================================================================
