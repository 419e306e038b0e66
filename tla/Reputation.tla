----------------------------- MODULE Reputation -----------------------------
(***************************************************************************)
(* What the enrichment service makes of the answers of its providers       *)
(* (internal/enrich): the loop over the providers in Service.Lookup, each  *)
(* provider's reading of its response, Merge and Classify.  When and how   *)
(* often a lookup takes place is the subject of Enrich.                    *)
(*                                                                         *)
(* An empty string and a nil pointer both mean that a field was not        *)
(* supplied.  A response is the class of responses the code tells apart.   *)
(***************************************************************************)
EXTENDS GoInt, Sequences, FiniteSets

CONSTANT Zones     \* blocklists asked by DNSBL
ASSUME ReputationAssumption ==
  /\ "zen" \in Zones /\ IsFiniteSet(Zones)
  /\ Nil \notin {"hosting", "wireless"} /\ Nil # TRUE

VARIABLES
  v4,        \* the address is an IPv4 address
  asked,     \* providers asked so far
  merged,    \* the merged Partial
  errs,      \* providers that reported an error
  category,  \* Nil until classified
  said,      \* history: the Partial each provider returned
  zoneSaid   \* history: the answer of every zone

reputationVars == <<v4, asked, merged, errs, category, said, zoneSaid>>

\* DefaultProviders, in the order they are asked.
Providers == <<"ip-api", "proxycheck", "greynoise", "stopforumspam", "dnsbl">>

Scalars == {"country", "asn", "mobile", "type", "proxy", "risk", "grey", "spam", "frequency", "listed"}
Fields  == Scalars \cup {"hits", "dynamic", "signal"}
Empty == [f \in Fields |-> IF f \in Scalars THEN Nil ELSE IF f = "hits" THEN {} ELSE FALSE]
Says(given) ==
  [f \in Fields |-> IF f \in DOMAIN given THEN given[f] ELSE IF f = "signal" THEN TRUE ELSE Empty[f]]
Failed == [partial |-> Empty, err |-> TRUE, zones |-> Nil]
Answered(partial) == [partial |-> partial, err |-> FALSE, zones |-> Nil]

LookupInit ==
  /\ v4 \in BOOLEAN /\ asked = 0 /\ merged = Empty /\ errs = {} /\ category = Nil
  /\ said = [p \in {} |-> Empty] /\ zoneSaid = Nil
LookupIdle ==
  /\ v4 = FALSE /\ asked = Len(Providers) /\ merged = Empty /\ errs = {} /\ category = "idle"
  /\ said = [p \in {} |-> Empty] /\ zoneSaid = Nil

-----------------------------------------------------------------------------
(* The providers.  "down" is every failure of providerGET or of decoding.  *)

\* A status other than success is an error.
IPAPI(r) == IF r.status # "success" THEN Failed
            ELSE Answered(Says([country |-> "DE", asn |-> r.asn, mobile |-> r.mobile]))
IPAPIResponses == [status : {"down", "fail"}, asn : {Nil}, mobile : {Nil}] \cup
                  [status : {"success"}, asn : {Nil, "isp", "hosting"}, mobile : {Nil, TRUE, FALSE}]

\* parseProxyCheckRisk: no risk is no error, one out of range is.
RiskValid(risk) == risk = Nil \/ risk \in 0 .. 100
ProxyCheck(r) == IF r.status # "ok" \/ ~RiskValid(r.risk) THEN Failed
                 ELSE Answered(Says([type |-> r.type, proxy |-> r.proxy, risk |-> r.risk]))
ProxyCheckResponses ==
  [status : {"down"}, type : {Nil}, proxy : {FALSE}, risk : {Nil}] \cup
  [status : {"ok"}, type : {Nil, "wireless", "hosting"}, proxy : {TRUE}, risk : {Nil, 0, 100, 101}]

\* 404 is the normal answer for an address nobody has seen scanning.
GreyNoise(r) == CASE ~v4 \/ r = "notFound" -> Answered(Empty)
                  [] v4 /\ r \in {"down", "unclassified"} -> Failed
                  [] OTHER -> Answered(Says([grey |-> r]))
GreyNoiseResponses == {"down", "notFound", "unclassified", "malicious"}

\* An answer that says nothing of the address is no signal.
StopForumSpam(r) ==
  IF r.success # 1 THEN Failed
  ELSE Answered([Empty EXCEPT !.spam = IF r.appears = Nil THEN Nil ELSE r.appears # 0,
                   !.frequency = r.frequency, !.signal = r.appears # Nil \/ r.frequency # Nil])
StopForumSpamResponses == [success : {0}, appears : {Nil}, frequency : {Nil}] \cup
                          [success : {1}, appears : {Nil, 0, 1}, frequency : {Nil, 3}]

\* One zone of DNSBL; the answer is the set of its records.  That a name does
\* not exist is an answer, too; a rate limit or a malformed record among
\* the answers spoils them all.
ZoneAnswers == {{"error"}, {"notFound"}, {"dynamic"}, {"dynamic", "listed"}, {"listed", "rateLimit"}}
Useful(r) == r \cap {"error", "rateLimit"} = {}
Dynamic(zone, r) == zone = "zen" /\ Useful(r) /\ "dynamic" \in r
ZoneListed(zone, r) ==
  Useful(r) /\ r \ ({"notFound"} \cup IF zone = "zen" THEN {"dynamic"} ELSE {}) # {}

\* What the useful zones say is returned together with the errors of the rest.
DNSBL(r) ==
  LET hits == {z \in Zones : ZoneListed(z, r[z])}
  IN IF ~v4 THEN Answered(Empty) ELSE
     [partial |-> IF \E z \in Zones : Useful(r[z])
                  THEN [Says([listed |-> hits # {}]) EXCEPT !.hits = hits,
                          !.dynamic = \E z \in Zones : Dynamic(z, r[z])]
                  ELSE Empty,
      err |-> \E z \in Zones : ~Useful(r[z]), zones |-> r]

Outcomes(p) == CASE p = "ip-api"        -> {IPAPI(r) : r \in IPAPIResponses}
                 [] p = "proxycheck"    -> {ProxyCheck(r) : r \in ProxyCheckResponses}
                 [] p = "greynoise"     -> {GreyNoise(r) : r \in GreyNoiseResponses}
                 [] p = "stopforumspam" -> {StopForumSpam(r) : r \in StopForumSpamResponses}
                 [] OTHER               -> {DNSBL(r) : r \in [Zones -> ZoneAnswers]}

-----------------------------------------------------------------------------
(* The loop.                                                               *)

\* Mutant of MergeField: a field that is not supplied clears the old value.
MergeFieldAlways(old, incoming) == incoming
\* mergeString, mergeBool, mergeInt.
MergeField(old, incoming) == IF incoming = Nil THEN old ELSE incoming

UnionStrings(old, incoming) == old \cup incoming

Merge(p, incoming) ==
  [f \in Fields |-> IF f \in Scalars THEN MergeField(p[f], incoming[f])
                    ELSE IF f = "hits" THEN UnionStrings(p[f], incoming[f])
                    ELSE p[f] \/ incoming[f]]

\* Service.Lookup merges before it looks at the error.
AskNext ==
  LET p == Providers[asked + 1]
  IN /\ asked < Len(Providers)
     /\ \E o \in Outcomes(p) :
          /\ merged' = Merge(merged, o.partial)
          /\ errs' = IF o.err THEN errs \cup {p} ELSE errs
          /\ said' = [q \in DOMAIN said \cup {p} |-> IF q = p THEN o.partial ELSE said[q]]
          /\ zoneSaid' = o.zones
     /\ asked' = asked + 1
     /\ UNCHANGED <<v4, category>>

IsDatacenterType(type) == type = "hosting"
HasDatacenterASN(asn) == asn = "hosting"

ClassifyPartial(partial) ==
  CASE ~partial.signal -> "unknown"
    [] partial.signal /\ (IsDatacenterType(partial.type) \/ HasDatacenterASN(partial.asn)) -> "datacenter"
    [] partial.signal /\ ~IsDatacenterType(partial.type) /\ ~HasDatacenterASN(partial.asn)
         /\ (partial.mobile = TRUE \/ partial.type = "wireless") -> "mobile"
    [] OTHER -> "residential"

Classify ==
  /\ asked = Len(Providers) /\ category = Nil
  /\ category' = ClassifyPartial(merged)
  /\ UNCHANGED <<v4, asked, merged, errs, said, zoneSaid>>

LookupProviders == AskNext \/ Classify

-----------------------------------------------------------------------------
(* Properties.                                                             *)

\* No provider's failure or silence erases or invents evidence: whatever a
\* provider supplied, beside an error too, is in the merged result, whatever
\* is in the result was supplied by some provider, and no later provider
\* overrides an earlier one.
EvidenceKept ==
  /\ \A p \in DOMAIN said, f \in Scalars : said[p][f] # Nil => merged[f] = said[p][f]
  /\ \A f \in Scalars : merged[f] # Nil => \E p \in DOMAIN said : said[p][f] = merged[f]
  /\ merged.hits = UNION {said[p].hits : p \in DOMAIN said}

\* The category does not depend on which providers happened to answer beyond
\* what they said: unknown means that nobody answered, datacenter evidence of
\* one provider outweighs mobile evidence of another.
CategoryFollowsEvidence ==
  category \notin {Nil, "idle"} =>
    LET hosting == said["ip-api"].asn = "hosting" \/ said["proxycheck"].type = "hosting"
        mobile  == said["ip-api"].mobile = TRUE \/ said["proxycheck"].type = "wireless"
    IN /\ category = "unknown" <=> \A p \in DOMAIN said : ~said[p].signal
       /\ category = "datacenter" <=> hosting
       /\ category = "mobile" <=> mobile /\ ~hosting

\* An address counts as listed only if a zone that could answer lists it, and
\* as not listed only if some zone could answer: a rate limit never shows up
\* as a verdict, and every zone that could not answer is reported.
BlocklistVerdict ==
  zoneSaid # Nil =>
    LET spoke == {z \in Zones : zoneSaid[z] \notin {{"error"}, {"listed", "rateLimit"}}}
        lists == {z \in spoke : zoneSaid[z] # {"notFound"} /\ ("listed" \in zoneSaid[z] \/ z # "zen")}
    IN /\ merged.hits = lists
       /\ merged.listed = IF spoke = {} THEN Nil ELSE lists # {}
       /\ "dnsbl" \in errs <=> spoke # Zones

\* What the service stores of an address follows from what its providers said,
\* whichever of them failed (Service.Lookup, Merge, Classify, DNSBL.Lookup).
VerdictFollowsEvidence == EvidenceKept /\ CategoryFollowsEvidence /\ BlocklistVerdict
=============================================================================
