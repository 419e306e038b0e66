----------------------------- MODULE PoolReport -----------------------------
(***************************************************************************)
(* The reputation part of the reports: the run report (variation.          *)
(* BuildPoolReport behind api.RunReport), the session report (addIPRecord) *)
(* and the pool export (db.StreamPoolIPs), all of one database state, so   *)
(* that they can be compared.  How a run changes while they are read is    *)
(* the subject of Runs.                                                    *)
(*                                                                         *)
(* A name is a set of words: one contains another if its words do.  Nil is *)
(* a field without a value, an empty string or NULL.                       *)
(***************************************************************************)
EXTENDS GoInt, FiniteSetsExt, Totals

CONSTANTS Variants,               \* variant sessions of the run
          Addresses,              \* exit addresses, numbers: the order of the rows
          MaxReportObservations,  \* rows of session_ips a run report loads
          MaxReportIPRows,        \* rows of the report's detail list
          Reputations,            \* rows of ip_reputation_cache, Nil if there is none
          Sightings,              \* rows of session_ips, Nil if there is none
          Requested               \* choices of [cell, country, isp, target] per variant

ASSUME PoolReportAssumption ==
  /\ IsFiniteSet(Variants) /\ IsFiniteSet(Addresses) /\ MaxReportObservations \in Nat
  /\ \A row \in Sightings : row = Nil \/ row.hits \in Nat

VARIABLES
  stage,         \* "new", "loaded", "built", "idle"
  sessionIPs,    \* session_ips: <<variant, address>> -> row
  cache,         \* ip_reputation_cache: address -> row
  wanted,        \* variant -> what its parameters ask for
  loaded,        \* observations of the run report, keys of sessionIPs
  pool,          \* the run report
  bySession,     \* variant -> its session report
  exported       \* rows of the pool export

reportVars == <<stage, sessionIPs, cache, wanted, loaded, pool, bySession, exported>>

Rows == {key \in Variants \X Addresses : sessionIPs[key] # Nil}

ReportEmpty == loaded = {} /\ pool = Nil /\ bySession = Nil /\ exported = {}
ReportInit ==
  /\ stage = "new"
  /\ sessionIPs \in [Variants \X Addresses -> Sightings]
  /\ cache \in [Addresses -> Reputations]
  /\ wanted \in Requested
  /\ ReportEmpty
ReportIdle ==
  /\ stage = "idle"
  /\ sessionIPs = [key \in Variants \X Addresses |-> Nil] /\ cache = [a \in Addresses |-> Nil]
  /\ wanted = Nil /\ ReportEmpty

-----------------------------------------------------------------------------
(* One address.                                                            *)

NormalizeCategory(category) ==
  IF category \in {"mobile", "residential", "datacenter"} THEN category ELSE "unknown"
ReputationCategory(a) == IF cache[a] = Nil THEN "unknown" ELSE cache[a].category
BoolValue(b) == b # Nil /\ b

\* reputationFlagged, of the run report.
ReputationFlagged(a) ==
  /\ cache[a] # Nil
  /\ \/ BoolValue(cache[a].proxy) \/ BoolValue(cache[a].spam) \/ BoolValue(cache[a].listed)
     \/ cache[a].risk # Nil /\ cache[a].risk >= 70
     \/ cache[a].grey = "malicious"

\* addRisk: -1 if the score is in no bucket.
RiskBucket(risk) == IF risk = Nil THEN -1
                    ELSE IF risk < 0 \/ risk > 100 THEN -1
                    ELSE IF risk \div 10 = 10 THEN 9 ELSE risk \div 10

\* newIPRow, with the sightings of one address added up.
NewIPRow(a, keys) ==
  [ip |-> a, category |-> NormalizeCategory(ReputationCategory(a)),
   country |-> IF cache[a] = Nil THEN Nil ELSE cache[a].country,
   risk    |-> IF cache[a] = Nil THEN Nil ELSE cache[a].risk,
   listed  |-> cache[a] # Nil /\ BoolValue(cache[a].listed),
   hits    |-> Total([k \in keys |-> sessionIPs[k].hits], keys),
   first   |-> Min({sessionIPs[k].first : k \in keys}),
   last    |-> Max({sessionIPs[k].last : k \in keys})]

Seen(keys) == {k[2] : k \in keys}
SightingsOf(a, keys) == {k \in keys : k[2] = a}

\* applyComposition, over the rows of a report.
CompositionOf(rows) ==
  [c \in {"mobile", "residential", "datacenter", "unknown"} |->
     Cardinality({row \in rows : row.category = c})]
RiskHistogram(rows) == [b \in 0 .. 9 |-> Cardinality({row \in rows : RiskBucket(row.risk) = b})]

-----------------------------------------------------------------------------
(* Honor rate.                                                             *)

\* ISP names match if one contains the other.
IspMatches(requested, observed) == requested \subseteq observed \/ observed \subseteq requested

Weight(keys, field, value) ==
  LET counted == {k \in keys : cache[k[2]] # Nil /\ cache[k[2]][field] = value}
  IN Total([k \in counted |-> IF sessionIPs[k].hits < 1 THEN 1 ELSE sessionIPs[k].hits], counted)
Values(keys, field) ==
  {cache[k[2]][field] : k \in {k \in keys : cache[k[2]] # Nil}} \ {Nil}
Heaviest(keys, field) ==
  {v \in Values(keys, field) :
     \A w \in Values(keys, field) : Weight(keys, field, w) <= Weight(keys, field, v)}
\* Mutant of Dominant: the first of the heaviest in the map's order wins.
DominantFirst(keys, field) ==
  IF Heaviest(keys, field) = {} THEN Nil ELSE CHOOSE v \in Heaviest(keys, field) : TRUE
\* dominant: a tie has no dominant value.
Dominant(keys, field) ==
  IF Cardinality(Heaviest(keys, field)) # 1 THEN Nil ELSE CHOOSE v \in Heaviest(keys, field) : TRUE

\* variantHonor: a proven mismatch wins, what cannot be compared is unknown.
VariantHonor(v, keys) ==
  LET country  == IF wanted[v].target # Nil THEN wanted[v].target ELSE wanted[v].country
      isp      == wanted[v].isp
      observed == [f \in {"country", "isp"} |-> Dominant(keys, f)]
  IN CASE country = Nil /\ isp = Nil -> "unknown"
       [] country # Nil /\ observed["country"] # Nil /\ observed["country"] # country -> "mismatch"
       [] isp # Nil /\ observed["isp"] # Nil /\ ~IspMatches(isp, observed["isp"]) -> "mismatch"
       [] OTHER -> IF (country # Nil /\ observed["country"] = Nil) \/ (isp # Nil /\ observed["isp"] = Nil)
                   THEN "unknown" ELSE "match"

\* Honored and sampled variants; the rate is their quotient if any is sampled.
HonorRate(vs, keys) ==
  LET verdict == [v \in vs |-> VariantHonor(v, {k \in keys : k[1] = v})]
  IN [honored |-> Cardinality({v \in vs : verdict[v] = "match"}),
      sampled |-> Cardinality({v \in vs : verdict[v] # "unknown"})]

Cell(c, keys) ==
  LET vs   == {v \in Variants : wanted[v].cell = c}
      mine == {k \in keys : k[1] \in vs}
  IN [variants |-> Cardinality(vs), distinct |-> Cardinality(Seen(mine)),
      composition |-> CompositionOf({[ip |-> a, category |-> NormalizeCategory(ReputationCategory(a))] :
                                       a \in Seen(mine)}),
      honor |-> HonorRate(vs, keys)]
Cells == {wanted[v].cell : v \in Variants}

-----------------------------------------------------------------------------
(* The reports.                                                            *)

\* Chao1: frequency is the number of variants that saw an address.
Chao1(keys) ==
  LET observed == Cardinality(Seen(keys))
      f(n) == Cardinality({a \in Seen(keys) : Cardinality(SightingsOf(a, keys)) = n})
  IN IF observed = 0 \/ f(2) = 0 THEN [estimate |-> observed, lowerBound |-> TRUE]
     ELSE [estimate |-> observed + ((f(1) * f(1)) \div (2 * f(2))), lowerBound |-> FALSE]

PoolRows(keys) == {NewIPRow(a, SightingsOf(a, keys)) : a \in Seen(keys)}

\* Mutant of Truncated: a full page of observations counts as all of them.
TruncatedPast(keys) == Cardinality(keys) > MaxReportObservations
\* RunReport cannot tell a full page from the whole inventory.
Truncated(keys) == Cardinality(keys) >= MaxReportObservations

\* capIPRows: the rows with the most hits, in any order among equals.
CapIPRows(rows) ==
  IF Cardinality(rows) <= MaxReportIPRows THEN {rows}
  ELSE {kept \in kSubset(MaxReportIPRows, rows) :
          \A r \in kept, s \in rows \ kept : r.hits >= s.hits}

\* BuildPoolReport and mapRunReport.
BuildPoolReport(keys, details) ==
  LET rows  == PoolRows(keys)
      chao1 == Chao1(keys)
  IN [distinct |-> Cardinality(rows), estimate |-> chao1.estimate,
      truncated |-> Truncated(keys), lowerBound |-> chao1.lowerBound \/ Truncated(keys),
      composition |-> CompositionOf(rows), histogram |-> RiskHistogram(rows),
      flagged |-> {row.ip : row \in {r \in rows : ReputationFlagged(r.ip)}},
      listed |-> {row.ip : row \in {r \in rows : r.listed}},
      honor |-> HonorRate(Variants, keys), cells |-> [c \in Cells |-> Cell(c, keys)],
      ips |-> details]

\* The session report counts every row of its inventory (addIPRecord), with
\* the predicate of its own.
AddIPRecords(v) ==
  LET rows == {NewIPRow(k[2], {k}) : k \in {k \in Rows : k[1] = v}}
  IN [composition |-> CompositionOf(rows), histogram |-> RiskHistogram(rows),
      flagged |-> {row.ip : row \in
        {r \in rows : /\ cache[r.ip] # Nil
                      /\ \/ BoolValue(cache[r.ip].proxy)
                         \/ r.risk # Nil /\ r.risk >= 70
                         \/ cache[r.ip].grey = "malicious"
                         \/ BoolValue(cache[r.ip].spam) \/ r.listed}},
      listed |-> {row.ip : row \in {r \in rows : r.listed}}, ips |-> rows]

\* StreamPoolIPs: one row per address, aggregated by the database.
StreamPoolIPs == {NewIPRow(a, SightingsOf(a, Rows)) : a \in Seen(Rows)}

\* RunIPObservations: the most recent rows, any of those last seen at once.
LoadObservations ==
  /\ stage = "new" /\ stage' = "loaded"
  /\ loaded' \in IF Cardinality(Rows) <= MaxReportObservations THEN {Rows}
                 ELSE {keys \in kSubset(MaxReportObservations, Rows) :
                         \A k \in keys, j \in Rows \ keys : sessionIPs[k].last >= sessionIPs[j].last}
  /\ UNCHANGED <<sessionIPs, cache, wanted, pool, bySession, exported>>
BuildReports ==
  /\ stage = "loaded" /\ stage' = "built"
  /\ \E details \in CapIPRows(PoolRows(loaded)) : pool' = BuildPoolReport(loaded, details)
  /\ bySession' = [v \in Variants |-> AddIPRecords(v)]
  /\ exported' = StreamPoolIPs
  /\ UNCHANGED <<sessionIPs, cache, wanted, loaded>>

Reporting == LoadObservations \/ BuildReports

-----------------------------------------------------------------------------
(* Properties.                                                             *)

\* The run report, the session reports and the export of one database state
\* tell the same story: an address that one of them flags or lists is flagged or
\* listed by all that show it, whatever is missing from the run report is
\* missing because it says that it is truncated, and a run with one cell has
\* the composition of that cell.
ReportsAgree ==
  stage = "built" =>
    /\ \A v \in Variants : \A row \in bySession[v].ips :
         row.ip \in {r.ip : r \in exported}
         /\ (row.ip \in Seen(loaded) =>
               /\ row.ip \in bySession[v].flagged <=> row.ip \in pool.flagged
               /\ row.ip \in bySession[v].listed <=> row.ip \in pool.listed)
    /\ pool.ips \subseteq exported \/ pool.truncated
    /\ ~pool.truncated =>
         /\ pool.distinct = Cardinality(exported)
         /\ pool.composition = CompositionOf(exported) /\ pool.histogram = RiskHistogram(exported)
         /\ pool.listed = {r.ip : r \in {x \in exported : x.listed}}
    /\ \A c \in Cells : Cells = {c} => pool.cells[c].composition = pool.composition
                                       /\ pool.cells[c].distinct = pool.distinct
    /\ pool.distinct <= Total([c \in Cells |-> pool.cells[c].distinct], Cells)
    /\ pool.estimate >= pool.distinct
    /\ pool.truncated => pool.lowerBound

\* What the observations of a variant prove of what it asked for: x outweighs
\* every other value; all that was asked for leads; something else leads.
SeenBy(v) == {k \in loaded : k[1] = v}
Leads(keys, field, x) == \A y \in Values(keys, field) \ {x} : Weight(keys, field, x) > Weight(keys, field, y)
Goal(v) == IF wanted[v].target # Nil THEN wanted[v].target ELSE wanted[v].country
Proven(v) ==
  /\ Goal(v) # Nil \/ wanted[v].isp # Nil
  /\ Goal(v) # Nil => Goal(v) \in Values(SeenBy(v), "country") /\ Leads(SeenBy(v), "country", Goal(v))
  /\ wanted[v].isp # Nil => \E x \in Values(SeenBy(v), "isp") :
                               Leads(SeenBy(v), "isp", x) /\ IspMatches(wanted[v].isp, x)
Refuted(v) ==
  \/ Goal(v) # Nil /\ \E x \in Values(SeenBy(v), "country") \ {Goal(v)} : Leads(SeenBy(v), "country", x)
  \/ wanted[v].isp # Nil /\ \E x \in Values(SeenBy(v), "isp") :
                               Leads(SeenBy(v), "isp", x) /\ ~IspMatches(wanted[v].isp, x)

\* A variant counts as honored only if what it asked for outweighs everything
\* else that was observed, and as not honored only if something else does: the
\* rate is the same for every order in which the weights are visited.
HonorNeedsEvidence ==
  stage = "built" =>
    /\ pool.honor.honored = Cardinality({v \in Variants : Proven(v)})
    /\ pool.honor.sampled = Cardinality({v \in Variants : Proven(v) \/ Refuted(v)})
    /\ pool.honor.sampled = Total([c \in Cells |-> pool.cells[c].honor.sampled], Cells)
=============================================================================
