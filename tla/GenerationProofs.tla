-------------------------- MODULE GenerationProofs --------------------------
(***************************************************************************)
(* What a review that is held owes to the answer it was compiled from, for *)
(* every catalog, every set of answers and every CI change.                *)
(*                                                                         *)
(* Three facts about the compiler carry it.  It writes no verdict, and     *)
(* what it keeps it keeps whole: a kept finding has its claim and its name *)
(* and cites only what is admissible.  A publishable compilation has       *)
(* passed the whole table of failures, so what the table asks is true of   *)
(* every review that is held.  And the strict validator accepts what the   *)
(* compiler kept: demotion, placement and election leave a finding the     *)
(* evidence it was weighed with, and the caps are kept, so the validator   *)
(* can only refuse what it reads otherwise than the compiler did.          *)
(***************************************************************************)
EXTENDS ReviewGeneration, RecursionFacts, SequenceTheorems

-----------------------------------------------------------------------------
(* A finding's evidence, admitted.                                          *)

\* Min of the community modules, on a set of numbers that is not empty.
LEMMA MinIsLeast ==
  ASSUME NEW T \in SUBSET Nat, T # {}
  PROVE  Min(T) \in T /\ \A n \in T : Min(T) <= n
  BY HasLeast DEF Min

\* A reference is resolved to a reference.
LEMMA ResolvedIs ==
  ASSUME NEW c \in Context, NEW r \in STRING
  PROVE  Resolved(c, r) \in STRING
  BY CatalogAssumption DEF Resolved, Context, Refs

\* What a finding keeps of what the model wrote, whatever its evidence.
SameClaim(g, f) ==
  \A x \in {"name", "form", "priority", "category", "action", "path", "head", "body", "ask"} :
    g[x] = f[x]

\* Required references that are admitted are in the catalog, and none is dead
\* unless the finding is dropped for it.
LEMMA NamedAreKnown ==
  ASSUME NEW c \in Context, NEW refs \in SUBSET STRING
  PROVE  /\ AdmitRequired(c, refs).refs \subseteq c.known
         /\ ~ AdmitRequired(c, refs).dead =>
              \A r \in AdmitRequired(c, refs).refs : Admissible(c, r)
  BY DEF AdmitRequired

\* Supporting references are admitted one by one.
LEMMA LentAreAdmissible ==
  ASSUME NEW c \in Context, NEW refs \in SUBSET STRING
  PROVE  \A r \in AdmitSupporting(c, refs) : r \in c.known /\ Admissible(c, r)
  BY DEF AdmitSupporting, Admissible

\* The admitted finding: the claim untouched, the references split in two.
LEMMA CitedIs ==
  ASSUME NEW verdict, NEW f \in Finding, NEW named \in SUBSET STRING,
         NEW lent \in SUBSET STRING, lent \cap named = {}
  PROVE  LET g == Cited(verdict, f, named, lent)
         IN  /\ g \in Finding /\ SameClaim(g, f) /\ g.rep = f.rep
             /\ g.snippet = Anchored(f.snippet) /\ g.placement = Placed(f, g.required)
             /\ g.required \cap g.supporting = {} /\ named \subseteq g.required
             /\ g.required \cup g.supporting = named \cup lent
             /\ g.supporting \subseteq lent
<1> DEFINE promoted == Promoted(verdict, f, named, lent)
           anchor == Anchored(f.snippet)
           place  == Placed(f, named \cup promoted)
           g == Cited(verdict, f, named, lent)
<1>1. promoted \subseteq lent
  BY DEF Promoted
<1>2. anchor \in {"post", "deleted", "none"} 
  BY DEF Anchored
<1>3. place \in {"inline", "headline", "collapsed"}
  BY DEF Placed, Finding
<1>4. g = [f EXCEPT !.required = named \cup promoted, !.supporting = lent \ promoted,
                    !.snippet = anchor, !.placement = place]
  BY DEF Cited
<1> HIDE DEF promoted, anchor, place, g
<1>5. /\ g \in Finding /\ g.required = named \cup promoted /\ g.supporting = lent \ promoted
      /\ g.snippet = anchor /\ g.placement = place /\ g.rep = f.rep /\ SameClaim(g, f)
  <2>1. named \cup promoted \in SUBSET STRING /\ lent \ promoted \in SUBSET STRING
    BY <1>1
  <2> QED BY <1>2, <1>3, <1>4, <2>1 DEF Finding, SameClaim
<1> QED BY <1>1, <1>5 DEF g, anchor, place

\* The claim, the placement and the snippet of an admitted finding.
Kept(g, f) ==
  /\ g \in Finding /\ SameClaim(g, f)
  /\ g.snippet = Anchored(f.snippet)
  /\ g.required \cap g.supporting = {}

\* What the model's finding becomes before its evidence is weighed.
LEMMA AdmittedIs ==
  ASSUME NEW c \in Context, NEW verdict, NEW f \in Finding
  PROVE  LET g == Admitted(c, verdict, f)
             need == AdmitRequired(c, f.required)
         IN  /\ Kept(g, f) /\ g.placement = Placed(f, g.required)
             /\ need.refs \subseteq g.required
             /\ g.required \cup g.supporting \subseteq c.known
             /\ g.supporting \cap CI = {}
             /\ ~ need.dead => \A r \in g.required \cup g.supporting : Admissible(c, r)
<1> DEFINE need  == AdmitRequired(c, f.required)
           named == need.refs
           lent  == AdmitSupporting(c, f.supporting) \ (CI \cup named)
           h == Cited(verdict, f, named, lent)
           g == Admitted(c, verdict, f)
<1>1. f.required \in SUBSET STRING /\ f.supporting \in SUBSET STRING
  BY DEF Finding
<1>2. /\ named \subseteq c.known
      /\ ~ need.dead => \A r \in named : Admissible(c, r)
  BY <1>1, NamedAreKnown
<1>3. \A r \in lent : r \in c.known /\ Admissible(c, r)
  BY <1>1, LentAreAdmissible
<1>4. named \in SUBSET STRING /\ lent \in SUBSET STRING /\ lent \cap named = {}
      /\ lent \cap CI = {}
  BY <1>2, <1>3, CatalogAssumption DEF Context
<1>5. g = h \/ g = [h EXCEPT !.rep = "semantic"]
  BY DEF Admitted, Represented
<1> HIDE DEF need, named, lent, g
<1>6. /\ h \in Finding /\ SameClaim(h, f)
      /\ h.snippet = Anchored(f.snippet) /\ h.placement = Placed(f, h.required)
      /\ h.required \cap h.supporting = {} /\ named \subseteq h.required
      /\ h.required \cup h.supporting = named \cup lent
      /\ h.supporting \subseteq lent
  <2>1. named \in SUBSET STRING /\ lent \in SUBSET STRING /\ lent \cap named = {}
    BY <1>4
  <2> HIDE DEF h
  <2> QED BY <2>1, CitedIs DEF h
<1> HIDE DEF h
<1>7. /\ g \in Finding /\ SameClaim(g, h) /\ g.snippet = h.snippet
      /\ g.placement = h.placement
      /\ g.required = h.required /\ g.supporting = h.supporting
  BY <1>5, <1>6 DEF Finding, SameClaim
<1>8. SameClaim(g, f)
  BY <1>6, <1>7 DEF SameClaim
<1> QED BY <1>2, <1>3, <1>4, <1>6, <1>7, <1>8 DEF Kept, need, named, lent, g

\* A demoted finding requires nothing and keeps what was not rejected.
LEMMA DemotedIs ==
  ASSUME NEW g \in Finding, NEW k
  PROVE  /\ Demoted(g, k) \in Finding /\ SameClaim(Demoted(g, k), g)
         /\ Demoted(g, k).snippet = g.snippet /\ Demoted(g, k).rep = g.rep
         /\ Demoted(g, k).placement = "collapsed"
         /\ Demoted(g, k).required = {}
         /\ Demoted(g, k).supporting = (g.required \cup g.supporting) \ k.rejected
  BY DEF Demoted, Finding, SameClaim

-----------------------------------------------------------------------------
(* What becomes of a finding.                                               *)

\* The evidence of an admitted finding, weighed by the text it was sent with.
Weighed(g, f) == Capability(g, Prose(f))

\* A demoted finding is P2 and weak.
Weak(g, f) == g.priority = "P2" /\ WeakFor(Weighed(g, f))

\* Every reason to drop finding i of an object with this verdict.
Reasons(c, verdict, i, f) ==
  LET g == Admitted(c, verdict, f)
  IN  Losses(c, verdict, i, f, AdmitRequired(c, f.required), g, Weighed(g, f))

\* Positions of the reasons that hold.
Met(c, verdict, i, f) ==
  {n \in DOMAIN Reasons(c, verdict, i, f) : Reasons(c, verdict, i, f)[n].if}

\* Fate, with its local definitions named.
LEMMA FateIs ==
  ASSUME NEW c, NEW verdict, NEW i, NEW f
  PROVE  LET g == Admitted(c, verdict, f)
             met == Met(c, verdict, i, f)
         IN  Fate(c, verdict, i, f) =
               [kept    |-> met = {},
                at      |-> IF met = {} THEN "none" ELSE Reasons(c, verdict, i, f)[Min(met)].at,
                orphans |-> met # {} /\ Reasons(c, verdict, i, f)[Min(met)].orphans,
                item    |-> IF Weak(g, f) THEN Demoted(g, Weighed(g, f)) ELSE g]
  BY DEF Fate, Met, Reasons, Weak, Weighed

\* A finding that is kept met none of the reasons.
LEMMA KeptMeans ==
  ASSUME NEW c, NEW verdict, NEW i, NEW f, Fate(c, verdict, i, f).kept
  PROVE  LET g == Admitted(c, verdict, f)
             k == Weighed(g, f)
             need == AdmitRequired(c, f.required)
         IN  /\ f.form \notin {"badrep", "invalid"}
             /\ f.path = NoPath => f.placement # "inline"
             /\ ~ need.dead
             /\ f.priority = "P1" => need.refs # {} /\ k.critical
             /\ f.priority = "P2" => g.required \cup g.supporting # {}
             /\ f.priority = "P2" /\ WeakFor(k) =>
                  ~ Carries(verdict, f) /\ Demoted(g, k).supporting # {}
<1> DEFINE losses == Reasons(c, verdict, i, f)
<1>1. {n \in DOMAIN losses : losses[n].if} = {}
  BY FateIs DEF Met
<1>2. DOMAIN losses = 1 .. 12
  BY DEF Reasons, Losses
<1>3. \A n \in 1 .. 12 : ~ losses[n].if
  BY <1>1, <1>2
<1>4. /\ ~ losses[1].if /\ ~ losses[2].if /\ ~ losses[5].if /\ ~ losses[6].if
      /\ ~ losses[8].if /\ ~ losses[9].if /\ ~ losses[10].if /\ ~ losses[11].if
      /\ ~ losses[12].if
  BY <1>3
<1> QED BY <1>4 DEF Reasons, Losses

\* A kept item is its finding, with evidence, all of it admissible.
LEMMA KeptItem ==
  ASSUME NEW c \in Context, NEW verdict, NEW i, NEW f \in Finding,
         Fate(c, verdict, i, f).kept
  PROVE  LET item == Fate(c, verdict, i, f).item
         IN  /\ Kept(item, f)
             /\ item.required \cup item.supporting # {}
             /\ \A r \in item.required \cup item.supporting : Admissible(c, r)
<1> DEFINE g == Admitted(c, verdict, f)
           k == Weighed(g, f)
           need == AdmitRequired(c, f.required)
           item == Fate(c, verdict, i, f).item
<1>1. item = IF Weak(g, f) THEN Demoted(g, k) ELSE g
  BY FateIs
<1>2. /\ ~ need.dead
      /\ f.priority = "P1" => need.refs # {}
      /\ f.priority = "P2" => g.required \cup g.supporting # {}
      /\ f.priority = "P2" /\ WeakFor(k) => Demoted(g, k).supporting # {}
  BY KeptMeans
<1>3. /\ Kept(g, f)
      /\ need.refs \subseteq g.required
      /\ ~ need.dead => \A r \in g.required \cup g.supporting : Admissible(c, r)
  BY AdmittedIs
<1>4. g \in Finding /\ g.priority = f.priority /\ f.priority \in {"P1", "P2"}
  BY <1>3 DEF Kept, SameClaim, Finding
<1> HIDE DEF g, k, need, item
<1>5. CASE Weak(g, f)
  <2>1. item = Demoted(g, k) /\ item.required = {} /\ item.supporting # {}
    BY <1>1, <1>2, <1>4, <1>5, DemotedIs DEF Weak, k
  <2>2. item \in Finding /\ SameClaim(item, g) /\ item.snippet = g.snippet
        /\ item.supporting \subseteq g.required \cup g.supporting
    BY <1>4, <2>1, DemotedIs
  <2> QED BY <1>2, <1>3, <2>1, <2>2 DEF Kept, SameClaim, item
<1>6. CASE ~ Weak(g, f)
  <2>1. item = g /\ g.required \cup g.supporting # {}
    BY <1>1, <1>2, <1>3, <1>4, <1>6
  <2> QED BY <1>2, <1>3, <2>1 DEF item
<1> QED BY <1>5, <1>6

-----------------------------------------------------------------------------
(* The lists of the object.                                                 *)

\* Every kept item is there, itself or an equal one before it, and no other.
LEMMA SurvivorsAre ==
  ASSUME NEW S, NEW fates \in Seq(S), NEW T,
         \A i \in DOMAIN fates : fates[i].kept => fates[i].item \in T
  PROVE  /\ Survivors(fates) \in Seq(T)
         /\ \A n \in DOMAIN Survivors(fates) : \E i \in DOMAIN fates :
              fates[i].kept /\ Survivors(fates)[n] = fates[i].item
         /\ \A i \in DOMAIN fates : fates[i].kept =>
              \E n \in DOMAIN Survivors(fates) :
                Fingerprint(Survivors(fates)[n]) = Fingerprint(fates[i].item)
<1> DEFINE first(i) == \A j \in 1 .. i - 1 :
             ~ (fates[j].kept /\ Fingerprint(fates[j].item) = Fingerprint(fates[i].item))
           I == {i \in DOMAIN fates : fates[i].kept /\ first(i)}
           kept == At(fates, I)
           result == Survivors(fates)
<1>1. result = [n \in DOMAIN kept |-> kept[n].item]
  BY DEF Survivors
<1>0. kept = At(fates, I)
  OBVIOUS
<1> HIDE DEF I, kept
<1>2. /\ kept \in Seq(S)
      /\ \A n \in DOMAIN kept : \E i \in DOMAIN fates \cap I : kept[n] = fates[i]
      /\ \A i \in DOMAIN fates \cap I : \E n \in DOMAIN kept : kept[n] = fates[i]
  BY <1>0, AtSelects
<1>3. DOMAIN fates = 1 .. Len(fates) /\ Len(fates) \in Nat
      /\ DOMAIN kept = 1 .. Len(kept) /\ Len(kept) \in Nat
  BY <1>2
<1>4. \A n \in DOMAIN kept : \E i \in DOMAIN fates : fates[i].kept /\ kept[n] = fates[i]
  BY <1>2 DEF I
<1>5. ASSUME NEW i \in DOMAIN fates, fates[i].kept
      PROVE  \E m \in I : Fingerprint(fates[m].item) = Fingerprint(fates[i].item)
  <2> DEFINE E == {j \in DOMAIN fates : fates[j].kept
                     /\ Fingerprint(fates[j].item) = Fingerprint(fates[i].item)}
  <2>1. i \in E /\ E \in SUBSET Nat
    BY <1>3, <1>5
  <2>2. PICK m \in E : \A j \in E : m <= j
    BY <2>1, HasLeast
  <2>3. first(m)
    BY <1>3, <2>2
  <2> QED BY <2>2, <2>3 DEF I
<1> HIDE DEF result
<1>6. \A n \in DOMAIN result : \E i \in DOMAIN fates :
        fates[i].kept /\ result[n] = fates[i].item
  BY <1>1, <1>4
<1>7. result \in Seq(T)
  BY <1>1, <1>3, <1>6
<1>8. ASSUME NEW i \in DOMAIN fates, fates[i].kept
      PROVE  \E n \in DOMAIN result : Fingerprint(result[n]) = Fingerprint(fates[i].item)
  <2>1. PICK m \in I : Fingerprint(fates[m].item) = Fingerprint(fates[i].item)
    BY <1>5, <1>8
  <2>2. m \in DOMAIN fates \cap I
    BY <2>1 DEF I
  <2>3. PICK n \in DOMAIN kept : kept[n] = fates[m]
    BY <1>2, <2>2
  <2> QED BY <1>1, <2>1, <2>3
<1> QED BY <1>6, <1>7, <1>8 DEF result

\* The references of an unknown: the first that is not admissible decides.
LEMMA ListedAre ==
  ASSUME NEW c \in Context, NEW refs \in Seq(STRING)
  PROVE  LET need == AdmitListed(c, refs)
         IN  /\ need.refs \in Seq(STRING)
             /\ ~ need.dead /\ ~ need.unknown =>
                  \A n \in DOMAIN need.refs : Admissible(c, need.refs[n])
<1> DEFINE need == AdmitListed(c, refs)
           I == {n \in 1 .. Len(refs) : ~ Admissible(c, Resolved(c, refs[n]))}
<1>1. FirstBad(c, refs) = IF I # {} THEN Min(I) ELSE 0
  BY DEF FirstBad, SelectInSeq
<1>2. need.refs = [n \in 1 .. Len(refs) |-> Resolved(c, refs[n])]
  BY DEF AdmitListed
<1>3. \A n \in 1 .. Len(refs) : Resolved(c, refs[n]) \in STRING
  <2>1. \A n \in 1 .. Len(refs) : refs[n] \in STRING
    OBVIOUS
  <2> QED BY <2>1, ResolvedIs
<1>4. need.refs \in Seq(STRING)
  BY <1>2, <1>3
<1>5. ASSUME ~ need.dead, ~ need.unknown PROVE I = {}
  <2>1. FirstBad(c, refs) = 0
    BY <1>5 DEF AdmitListed
  <2>2. I # {} => Min(I) \in 1 .. Len(refs)
    BY MinIsLeast
  <2> QED BY <1>1, <2>1, <2>2
<1> QED BY <1>2, <1>4, <1>5

\* A kept unknown cites only what is admissible.
LEMMA UnknownIs ==
  ASSUME NEW c \in Context, NEW verdict, NEW u \in Unknown
  PROVE  LET fate == UnknownFate(c, verdict, u)
         IN  /\ fate.item \in Unknown
             /\ fate.kept => \A n \in DOMAIN fate.item.refs : Admissible(c, fate.item.refs[n])
<1> DEFINE need == AdmitListed(c, u.refs)
<1>1. u.refs \in Seq(STRING)
  BY DEF Unknown
<1>2. need.refs \in Seq(STRING)
  BY <1>1, ListedAre
<1>3. ~ need.dead /\ ~ need.unknown => \A n \in DOMAIN need.refs : Admissible(c, need.refs[n])
  BY <1>1, ListedAre
<1>4. /\ UnknownFate(c, verdict, u).item = [u EXCEPT !.refs = need.refs]
      /\ UnknownFate(c, verdict, u).kept => ~ need.dead /\ ~ need.unknown
  BY DEF UnknownFate
<1> HIDE DEF need
<1>5. [u EXCEPT !.refs = need.refs] \in Unknown /\ [u EXCEPT !.refs = need.refs].refs = need.refs
  BY <1>2 DEF Unknown
<1> QED BY <1>3, <1>4, <1>5

\* A kept check cites only what is admissible.
LEMMA ChecksAre ==
  ASSUME NEW c \in Context, NEW d \in Presentation
  PROVE  /\ KeptChecks(c, d) \in Seq(Check)
         /\ \A n \in DOMAIN KeptChecks(c, d) : \A r \in KeptChecks(c, d)[n].refs : Admissible(c, r)
<1> DEFINE admitted(k) == [k EXCEPT !.refs = {Resolved(c, r) : r \in @}]
           sound(k) == k.form = "ok" /\ k.refs # {} /\ \A r \in admitted(k).refs : Admissible(c, r)
           I == {i \in DOMAIN d.checks : sound(d.checks[i])}
           kept == At(d.checks, I)
<1>1. d.checks \in Seq(Check)
  BY DEF Presentation
<1>2. KeptChecks(c, d) = [i \in DOMAIN kept |-> admitted(kept[i])] /\ kept = At(d.checks, I)
  BY DEF KeptChecks
<1> HIDE DEF I, kept
<1>3. /\ kept \in Seq(Check)
      /\ \A n \in DOMAIN kept : \E i \in DOMAIN d.checks \cap I : kept[n] = d.checks[i]
  BY <1>1, <1>2, AtSelects
<1>4. \A n \in DOMAIN kept : sound(kept[n])
  BY <1>3 DEF I
<1>5. ASSUME NEW k \in Check PROVE admitted(k) \in Check
  <2>1. \A r \in k.refs : r \in STRING
    BY DEF Check
  <2>2. {Resolved(c, r) : r \in k.refs} \in SUBSET STRING
    BY <2>1, ResolvedIs
  <2> QED BY <2>2 DEF Check
<1>6. \A n \in DOMAIN kept : \A r \in admitted(kept[n]).refs : Admissible(c, r)
  BY <1>4
<1> HIDE DEF admitted, sound
<1>7. KeptChecks(c, d) \in Seq(Check)
  BY <1>2, <1>3, <1>5
<1> QED BY <1>2, <1>6, <1>7

\* Showing the findings only moves some out of sight.
LEMMA ShownIs ==
  ASSUME NEW findings \in Seq(Finding), NEW blocking
  PROVE  /\ Shown(findings, blocking) \in Seq(Finding)
         /\ DOMAIN Shown(findings, blocking) = DOMAIN findings
         /\ \A i \in DOMAIN findings :
              Shown(findings, blocking)[i] \in
                {findings[i], [findings[i] EXCEPT !.placement = "collapsed"]}
<1> DEFINE shown == Shown(findings, blocking)
<1>1. /\ DOMAIN shown = DOMAIN findings
      /\ shown = [i \in DOMAIN findings |-> shown[i]]
      /\ \A i \in DOMAIN findings :
           shown[i] \in {findings[i], [findings[i] EXCEPT !.placement = "collapsed"]}
  BY DEF Shown
<1>2. \A i \in DOMAIN findings : findings[i] \in Finding
  OBVIOUS
<1>3. ASSUME NEW f \in Finding PROVE [f EXCEPT !.placement = "collapsed"] \in Finding
  BY DEF Finding
<1> HIDE DEF shown
<1>4. \A i \in DOMAIN findings : shown[i] \in Finding
  BY <1>1, <1>2, <1>3
<1>5. DOMAIN findings = 1 .. Len(findings) /\ Len(findings) \in Nat
  OBVIOUS
<1>6. shown \in Seq(Finding)
  BY <1>1, <1>4, <1>5
<1> QED BY <1>1, <1>6 DEF shown

\* What is left beside a request for verification is not critical.
LEMMA NotCriticalIs ==
  ASSUME NEW findings \in Seq(Finding)
  PROVE  /\ NotCritical(findings) \in Seq(Finding)
         /\ \A n \in DOMAIN NotCritical(findings) : \E i \in DOMAIN findings :
              NotCritical(findings)[n] = findings[i] /\ findings[i].priority # "P1"
<1> DEFINE I == {i \in DOMAIN findings : findings[i].priority # "P1"}
<1>1. NotCritical(findings) = At(findings, I)
  BY DEF NotCritical
<1> HIDE DEF I
<1>2. /\ At(findings, I) \in Seq(Finding)
      /\ \A n \in DOMAIN At(findings, I) : \E i \in DOMAIN findings \cap I :
           At(findings, I)[n] = findings[i]
  BY AtSelects
<1> QED BY <1>1, <1>2 DEF I

-----------------------------------------------------------------------------
(* Compilation.                                                             *)

\* The items the compiler keeps, before the verdict leaves some out.
Items(c, d) == Survivors(Fates(c, d))

\* What the compiler is left with, and the list it is judged by.
Left(c, d) == Normalized(c, d, Fates(c, d), UnknownFates(c, d))
Judged(c, d) == Failures(c, d, Fates(c, d), UnknownFates(c, d), Left(c, d))

\* g is the kept item of one of the findings of d.
ComesFrom(c, d, g) ==
  \E i \in DOMAIN d.findings :
    LET fate == Fate(c, d.verdict, i, d.findings[i])
    IN  fate.kept /\ g = fate.item

\* Every item comes from a finding that is kept, and none of those is missing.
LEMMA ItemsAre ==
  ASSUME NEW c \in Context, NEW d \in Presentation
  PROVE  /\ Items(c, d) \in Seq(Finding)
         /\ \A n \in DOMAIN Items(c, d) : ComesFrom(c, d, Items(c, d)[n])
         /\ \A i \in DOMAIN d.findings : Fates(c, d)[i].kept =>
              \E n \in DOMAIN Items(c, d) : Items(c, d)[n].name = d.findings[i].name
<1> DEFINE fates == Fates(c, d)
           S == {fates[i] : i \in DOMAIN d.findings}
<1>1. d.findings \in Seq(Finding)
  BY DEF Presentation
<1>2. /\ DOMAIN fates = 1 .. Len(d.findings) /\ DOMAIN d.findings = 1 .. Len(d.findings)
      /\ Len(d.findings) \in Nat
      /\ fates = [i \in 1 .. Len(d.findings) |-> fates[i]]
      /\ \A i \in DOMAIN d.findings :
           d.findings[i] \in Finding /\ fates[i] = Fate(c, d.verdict, i, d.findings[i])
  BY <1>1 DEF Fates
<1> HIDE DEF fates
<1>3. fates \in Seq(S)
  BY <1>2
<1> HIDE DEF S
<1>4. ASSUME NEW i \in DOMAIN fates, fates[i].kept
      PROVE  fates[i].item \in Finding /\ fates[i].item.name = d.findings[i].name
  <2>1. Kept(fates[i].item, d.findings[i])
    BY <1>2, <1>4, KeptItem
  <2> QED BY <2>1 DEF Kept, SameClaim
<1>5. /\ Survivors(fates) \in Seq(Finding)
      /\ \A n \in DOMAIN Survivors(fates) : \E i \in DOMAIN fates :
           fates[i].kept /\ Survivors(fates)[n] = fates[i].item
      /\ \A i \in DOMAIN fates : fates[i].kept =>
           \E n \in DOMAIN Survivors(fates) :
             Fingerprint(Survivors(fates)[n]) = Fingerprint(fates[i].item)
  BY <1>3, <1>4, SurvivorsAre
<1>6. \A f \in Finding : "name" \in DOMAIN f \ {"placement", "rep"}
  BY DEF Finding
<1>7. \A f, g \in Finding : Fingerprint(f) = Fingerprint(g) => f.name = g.name
  <2> SUFFICES ASSUME NEW f \in Finding, NEW g \in Finding, Fingerprint(f) = Fingerprint(g)
               PROVE  f.name = g.name
    OBVIOUS
  <2>1. Fingerprint(f)["name"] = f.name /\ Fingerprint(g)["name"] = g.name
    BY <1>6 DEF Fingerprint
  <2> QED BY <2>1
<1>8. \A n \in DOMAIN Survivors(fates) : Survivors(fates)[n] \in Finding
  BY <1>5
<1>9. ASSUME NEW i \in DOMAIN d.findings, fates[i].kept
      PROVE  \E n \in DOMAIN Survivors(fates) : Survivors(fates)[n].name = d.findings[i].name
  <2>1. PICK n \in DOMAIN Survivors(fates) :
          Fingerprint(Survivors(fates)[n]) = Fingerprint(fates[i].item)
    BY <1>2, <1>5, <1>9
  <2> QED BY <1>2, <1>4, <1>7, <1>8, <1>9, <2>1
<1>10. ASSUME NEW n \in DOMAIN Survivors(fates)
       PROVE  ComesFrom(c, d, Survivors(fates)[n])
  <2>1. PICK i \in DOMAIN fates : fates[i].kept /\ Survivors(fates)[n] = fates[i].item
    BY <1>5
  <2> QED BY <1>2, <2>1 DEF ComesFrom
<1> QED BY <1>5, <1>9, <1>10 DEF Items, fates

\* The unknowns that are kept are unknowns, on admissible evidence.
LEMMA UnknownsAre ==
  ASSUME NEW c \in Context, NEW d \in Presentation
  PROVE  LET unknowns == Survivors(UnknownFates(c, d))
         IN  /\ unknowns \in Seq(Unknown)
             /\ \A n \in DOMAIN unknowns : \A m \in DOMAIN unknowns[n].refs :
                  Admissible(c, unknowns[n].refs[m])
<1> DEFINE fates == UnknownFates(c, d)
           S == {fates[i] : i \in DOMAIN d.unknowns}
           T == {u \in Unknown : \A m \in DOMAIN u.refs : Admissible(c, u.refs[m])}
<1>1. d.unknowns \in Seq(Unknown)
  BY DEF Presentation
<1>2. /\ DOMAIN fates = 1 .. Len(d.unknowns) /\ DOMAIN d.unknowns = 1 .. Len(d.unknowns)
      /\ Len(d.unknowns) \in Nat
      /\ fates = [i \in 1 .. Len(d.unknowns) |-> fates[i]]
      /\ \A i \in DOMAIN d.unknowns :
           d.unknowns[i] \in Unknown /\ fates[i] = UnknownFate(c, d.verdict, d.unknowns[i])
  BY <1>1 DEF UnknownFates
<1> HIDE DEF fates
<1>3. fates \in Seq(S)
  BY <1>2
<1> HIDE DEF S
<1>4. ASSUME NEW i \in DOMAIN fates, fates[i].kept
      PROVE  fates[i].item \in T
  <2>1. d.unknowns[i] \in Unknown /\ fates[i] = UnknownFate(c, d.verdict, d.unknowns[i])
    BY <1>2
  <2> QED BY <1>4, <2>1, UnknownIs
<1> HIDE DEF T
<1>5. Survivors(fates) \in Seq(T)
  BY <1>3, <1>4, SurvivorsAre
<1>6. T \subseteq Unknown
  BY DEF T
<1>7. \A n \in DOMAIN Survivors(fates) : Survivors(fates)[n] \in T
  BY <1>5
<1>8. Survivors(fates) \in Seq(Unknown)
  BY <1>5, <1>6
<1> QED BY <1>7, <1>8 DEF T, fates

\* What blocks is a supported, substantive finding of a blocking review.
LEMMA BlockingIs ==
  ASSUME NEW verdict, NEW findings
  PROVE  \A i \in Blocking(verdict, findings) :
           /\ i \in DOMAIN findings /\ verdict = "blocking"
           /\ findings[i].required # {} /\ Substantive(findings[i])
  BY DEF Blocking, Carries

\* What is presented is an object again, with the verdict it had.
LEMMA PresentedIs ==
  ASSUME NEW d \in Presentation, NEW items \in Seq(Finding), NEW unknowns \in Seq(Unknown),
         NEW checks \in Seq(Check), NEW orphaned
  PROVE  LET p == Presented(d, items, unknowns, checks, orphaned)
         IN  /\ p \in Presentation /\ p.form = d.form /\ p.verdict = d.verdict
             /\ p.unknowns = unknowns /\ p.checks = checks
             /\ \E findings \in Seq(Finding) :
                  /\ p.findings = Shown(findings, Blocking(d.verdict, findings))
                  /\ \/ findings = items
                     \/ d.verdict = "verification_needed" /\ findings = NotCritical(items)
<1> DEFINE verify   == d.verdict = "verification_needed" /\ unknowns # <<>>
           findings == IF verify THEN NotCritical(items) ELSE items
           blocking == Blocking(d.verdict, findings)
           lead     == findings[Min(blocking)]
           p == Presented(d, items, unknowns, checks, orphaned)
<1>1. findings \in Seq(Finding)
  BY NotCriticalIs
<1>2. p = [form     |-> d.form,
           verdict  |-> d.verdict,
           findings |-> Shown(findings, blocking),
           unknowns |-> unknowns,
           checks   |-> checks,
           summary  |-> p.summary,
           advice   |-> p.advice]
  BY DEF Presented
<1>3. /\ p.summary = CASE blocking # {} -> lead.head
                       [] verify   -> unknowns[1].fact
                       [] orphaned -> ClearSummary(checks)
                       [] OTHER    -> d.summary
      /\ p.advice = CASE blocking # {} -> <<lead.ask>>
                      [] verify   -> <<unknowns[1].ask>>
                      [] orphaned -> <<>>
                      [] OTHER    -> d.advice
  BY DEF Presented
<1> HIDE DEF findings, blocking, p
<1>4. Shown(findings, blocking) \in Seq(Finding)
  BY <1>1, ShownIs
<1>5. blocking # {} => lead \in Finding
  <2>1. blocking \subseteq DOMAIN findings
    BY BlockingIs DEF blocking
  <2>2. blocking \in SUBSET Nat
    BY <1>1, <2>1
  <2>3. blocking # {} => Min(blocking) \in DOMAIN findings
    BY <2>1, <2>2, MinIsLeast
  <2> QED BY <1>1, <2>3
<1>6. verify => unknowns[1] \in Unknown
  BY DEF verify
<1>7. ClearSummary(checks) \in Text
  <2> DEFINE direct(k) == \A r \in k.refs : Catalog[r].source # "ci" /\ Catalog[r].coverage \in CodeCoverage
             I == {i \in 1 .. Len(checks) : direct(checks[i])}
             n == IF I # {} THEN Min(I) ELSE 0
  <2>1. ClearSummary(checks) = IF n = 0 THEN {} ELSE checks[n].text
    BY DEF ClearSummary, SelectInSeq
  <2>2. I \in SUBSET Nat
    OBVIOUS
  <2>3. I # {} => Min(I) \in 1 .. Len(checks)
    BY <2>2, MinIsLeast
  <2>4. n = 0 \/ n \in 1 .. Len(checks)
    BY <2>3
  <2>5. ASSUME NEW m \in 1 .. Len(checks) PROVE checks[m].text \in Text
    <3>1. checks[m] \in Check
      OBVIOUS
    <3> QED BY <3>1 DEF Check
  <2>6. {} \in Text
    BY DEF Text
  <2> HIDE DEF n
  <2> QED BY <2>1, <2>4, <2>5, <2>6
<1> HIDE DEF lead
<1>8. p.summary \in Text
  BY <1>3, <1>5, <1>6, <1>7 DEF Finding, Unknown, Presentation
<1>9. p.advice \in Seq(Text)
  <2>1. blocking # {} => lead.ask \in Text
    BY <1>5 DEF Finding
  <2>2. verify => unknowns[1].ask \in Text
    BY <1>6 DEF Unknown
  <2>3. d.advice \in Seq(Text)
    BY DEF Presentation
  <2> QED BY <1>3, <2>1, <2>2, <2>3
<1>10. /\ p \in Presentation /\ p.form = d.form /\ p.verdict = d.verdict
       /\ p.unknowns = unknowns /\ p.checks = checks /\ p.findings = Shown(findings, blocking)
  <2>1. d.form \in {"object", "misshapen", "unparsable", "undecided", "unsafe"}
        /\ d.verdict \in Verdicts
    BY DEF Presentation
  <2> QED BY <1>2, <1>4, <1>8, <1>9, <2>1 DEF Presentation
<1>11. \/ findings = items
       \/ d.verdict = "verification_needed" /\ findings = NotCritical(items)
  BY DEF findings, verify
<1> QED BY <1>1, <1>10, <1>11 DEF blocking, p

\* Every finding of what is left is a kept one, perhaps moved out of sight; the
\* references of unknowns and checks are admissible; and under a blocking
\* verdict no kept finding is missing.
LEMMA LeftIs ==
  ASSUME NEW c \in Context, NEW d \in Presentation
  PROVE  LET p == Left(c, d)
         IN  /\ p \in Presentation /\ p.verdict = d.verdict
             /\ \A j \in DOMAIN p.findings : \E g \in Finding :
                  /\ ComesFrom(c, d, g)
                  /\ p.findings[j] \in {g, [g EXCEPT !.placement = "collapsed"]}
             /\ \A n \in DOMAIN p.unknowns : \A m \in DOMAIN p.unknowns[n].refs :
                  Admissible(c, p.unknowns[n].refs[m])
             /\ \A n \in DOMAIN p.checks : \A r \in p.checks[n].refs : Admissible(c, r)
             /\ d.verdict = "blocking" =>
                  \A i \in DOMAIN d.findings : Fates(c, d)[i].kept =>
                    \E j \in DOMAIN p.findings : p.findings[j].name = d.findings[i].name
<1> DEFINE items == Items(c, d)
           unknowns == Survivors(UnknownFates(c, d))
           checks == KeptChecks(c, d)
           orphaned == Orphaned(d, Fates(c, d), UnknownFates(c, d))
           p == Left(c, d)
<1>1. p = Presented(d, items, unknowns, checks, orphaned)
  BY DEF Left, Normalized, Items
<1>2. /\ items \in Seq(Finding)
      /\ \A n \in DOMAIN items : ComesFrom(c, d, items[n])
      /\ \A i \in DOMAIN d.findings : Fates(c, d)[i].kept =>
           \E n \in DOMAIN items : items[n].name = d.findings[i].name
  BY ItemsAre
<1>3. /\ unknowns \in Seq(Unknown)
      /\ \A n \in DOMAIN unknowns : \A m \in DOMAIN unknowns[n].refs :
           Admissible(c, unknowns[n].refs[m])
  BY UnknownsAre
<1>4. /\ checks \in Seq(Check)
      /\ \A n \in DOMAIN checks : \A r \in checks[n].refs : Admissible(c, r)
  BY ChecksAre
<1> HIDE DEF items, unknowns, checks, orphaned, p
<1>5. /\ p \in Presentation /\ p.verdict = d.verdict
      /\ p.unknowns = unknowns /\ p.checks = checks
      /\ \E findings \in Seq(Finding) :
           /\ p.findings = Shown(findings, Blocking(d.verdict, findings))
           /\ \/ findings = items
              \/ d.verdict = "verification_needed" /\ findings = NotCritical(items)
  BY <1>1, <1>2, <1>3, <1>4, PresentedIs
<1>6. PICK findings \in Seq(Finding) :
        /\ p.findings = Shown(findings, Blocking(d.verdict, findings))
        /\ \/ findings = items
           \/ d.verdict = "verification_needed" /\ findings = NotCritical(items)
  BY <1>5
<1>7. /\ DOMAIN p.findings = DOMAIN findings
      /\ \A i \in DOMAIN findings :
           p.findings[i] \in {findings[i], [findings[i] EXCEPT !.placement = "collapsed"]}
  BY <1>6, ShownIs
<1>8. \A i \in DOMAIN findings : findings[i] \in Finding
  OBVIOUS
<1>9. \A i \in DOMAIN findings : ComesFrom(c, d, findings[i])
  BY <1>2, <1>6, NotCriticalIs
<1>10. \A j \in DOMAIN p.findings : \E g \in Finding :
         ComesFrom(c, d, g) /\ p.findings[j] \in {g, [g EXCEPT !.placement = "collapsed"]}
  BY <1>7, <1>8, <1>9
<1>11. ASSUME NEW f \in Finding
       PROVE  [f EXCEPT !.placement = "collapsed"].name = f.name
  BY DEF Finding
<1>12. ASSUME d.verdict = "blocking", NEW i \in DOMAIN d.findings, Fates(c, d)[i].kept
       PROVE  \E j \in DOMAIN p.findings : p.findings[j].name = d.findings[i].name
  <2>1. findings = items
    BY <1>6, <1>12
  <2>2. PICK n \in DOMAIN findings : findings[n].name = d.findings[i].name
    BY <1>2, <1>12, <2>1
  <2> QED BY <1>7, <1>8, <1>11, <2>2
<1> QED BY <1>3, <1>4, <1>5, <1>10, <1>12 DEF p

\* A review says what its items say.
Coherent(r) ==
  /\ (\E i \in DOMAIN r.findings : r.findings[i].priority = "P1") => r.verdict = "blocking"
  /\ r.verdict = "blocking" => Blocking(r.verdict, r.findings) # {}
  /\ r.verdict = "verification_needed" => r.unknowns # <<>>

\* Compile, with its intermediate results named.
LEMMA CompiledFrom ==
  ASSUME NEW c, NEW d
  PROVE  Compile(c, d) = Result(d, Fates(c, d), Left(c, d), Judged(c, d))
  BY DEF Compile, Projected, Concluded, Left, Judged

\* Compiling writes no verdict; what is publishable is what is left.
LEMMA CompileKeeps ==
  ASSUME NEW c \in Context, NEW d \in Presentation
  PROVE  /\ Compile(c, d).review \in Presentation
         /\ Compile(c, d).review.verdict = d.verdict
         /\ Compile(c, d).publishable => Compile(c, d).review = Left(c, d)
<1>1. Left(c, d) \in Presentation /\ Left(c, d).verdict = d.verdict
  BY LeftIs
<1> QED BY <1>1, CompiledFrom DEF Result

\* The kind of a compilation: that of the first failure of the table.
LEMMA KindIs ==
  ASSUME NEW c, NEW d
  PROVE  \/ Compile(c, d).publishable /\ Compile(c, d).kind = "none"
            /\ \A n \in 1 .. 11 : ~ Judged(c, d)[n].if
         \/ ~ Compile(c, d).publishable /\ \E n \in 1 .. 11 :
              /\ Compile(c, d).kind = Judged(c, d)[n].kind
              /\ Judged(c, d)[n].if
              /\ \A m \in 1 .. 11 : Judged(c, d)[m].if => n <= m
<1> DEFINE failed == {n \in DOMAIN Judged(c, d) : Judged(c, d)[n].if}
<1>1. DOMAIN Judged(c, d) = 1 .. 11
  BY DEF Judged, Failures
<1>2. /\ Compile(c, d).publishable = (failed = {})
      /\ Compile(c, d).kind = IF failed = {} THEN "none" ELSE Judged(c, d)[Min(failed)].kind
  BY CompiledFrom DEF Result
<1>3. failed = {n \in 1 .. 11 : Judged(c, d)[n].if}
  BY <1>1
<1> HIDE DEF failed
<1>4. failed # {} => Min(failed) \in failed /\ \A m \in failed : Min(failed) <= m
  BY <1>3, MinIsLeast
<1>5. CASE failed = {}
  BY <1>2, <1>3, <1>5
<1>6. CASE failed # {}
  BY <1>2, <1>3, <1>4, <1>6
<1> QED BY <1>5, <1>6

\* Every failure kind is one of the kinds.
LEMMA KindIsAKind ==
  ASSUME NEW c, NEW d
  PROVE  Compile(c, d).kind \in Kinds
<1>1. \A n \in 1 .. 11 : Judged(c, d)[n].kind \in Kinds
  BY DEF Judged, Failures, Kinds, NotTruth
<1>2. "none" \in Kinds
  BY DEF Kinds, NotTruth
<1> QED BY <1>1, <1>2, KindIs

\* What the table refuses, a publishable compilation does not have.
LEMMA PassesTheTable ==
  ASSUME NEW c, NEW d \in Presentation, Compile(c, d).publishable
  PROVE  /\ d.form = "object" /\ ~ Tainted(d) /\ TruthAt(Fates(c, d)) = {}
         /\ ~ Repeats(CoreProse(Left(c, d)), c.changed)
         /\ ~ Contradicts(d.verdict, Left(c, d).findings)
         /\ ~ (d.verdict = "blocking" /\ Blocking(d.verdict, Left(c, d).findings) = {})
         /\ ~ (d.verdict = "verification_needed" /\ Left(c, d).unknowns = <<>>)
<1>1. \A n \in 1 .. 11 : ~ Judged(c, d)[n].if
  BY KindIs
<1>2. /\ ~ Judged(c, d)[1].if /\ ~ Judged(c, d)[2].if /\ ~ Judged(c, d)[3].if
      /\ ~ Judged(c, d)[4].if /\ ~ Judged(c, d)[7].if /\ ~ Judged(c, d)[8].if
      /\ ~ Judged(c, d)[9].if /\ ~ Judged(c, d)[10].if
  BY <1>1
<1>3. d.form \in {"object", "misshapen", "unparsable", "undecided", "unsafe"}
  BY DEF Presentation
<1> QED BY <1>2, <1>3 DEF Judged, Failures

\* A publishable compilation is coherent, repeats no changed check and cites none.
Current(r, changed) ==
  /\ ~ Repeats(CoreProse(r), changed)
  /\ \A i \in DOMAIN r.findings :
       (r.findings[i].required \cup r.findings[i].supporting) \cap changed = {}
  /\ \A i \in DOMAIN r.unknowns : Range(r.unknowns[i].refs) \cap changed = {}
  /\ \A i \in DOMAIN r.checks : r.checks[i].refs \cap changed = {}

\* Passing the table makes a review coherent, and admission makes it current.
LEMMA PublishableIsSound ==
  ASSUME NEW c \in Context, NEW d \in Presentation, Compile(c, d).publishable
  PROVE  Coherent(Compile(c, d).review) /\ Current(Compile(c, d).review, c.changed)
<1> DEFINE p == Left(c, d)
<1>1. Compile(c, d).review = p /\ p.verdict = d.verdict
  BY CompileKeeps, LeftIs
<1>2. /\ ~ Repeats(CoreProse(p), c.changed)
      /\ ~ Contradicts(p.verdict, p.findings)
      /\ ~ (p.verdict = "blocking" /\ Blocking(p.verdict, p.findings) = {})
      /\ ~ (p.verdict = "verification_needed" /\ p.unknowns = <<>>)
  BY <1>1, PassesTheTable
<1>3. Coherent(p)
  BY <1>2 DEF Coherent, Contradicts
<1>4. /\ \A j \in DOMAIN p.findings : \E g \in Finding :
           /\ ComesFrom(c, d, g)
           /\ p.findings[j] \in {g, [g EXCEPT !.placement = "collapsed"]}
      /\ \A n \in DOMAIN p.unknowns : \A m \in DOMAIN p.unknowns[n].refs :
           Admissible(c, p.unknowns[n].refs[m])
      /\ \A n \in DOMAIN p.checks : \A r \in p.checks[n].refs : Admissible(c, r)
  BY LeftIs
<1> HIDE DEF p
<1>5. \A r : Admissible(c, r) => r \notin c.changed
  BY DEF Admissible
<1>6. ASSUME NEW j \in DOMAIN p.findings
      PROVE  (p.findings[j].required \cup p.findings[j].supporting) \cap c.changed = {}
  <2>1. PICK g \in Finding :
          /\ ComesFrom(c, d, g)
          /\ p.findings[j] \in {g, [g EXCEPT !.placement = "collapsed"]}
    BY <1>4
  <2>2. p.findings[j].required = g.required /\ p.findings[j].supporting = g.supporting
    BY <2>1 DEF Finding
  <2>3. PICK i \in DOMAIN d.findings :
          /\ Fate(c, d.verdict, i, d.findings[i]).kept
          /\ g = Fate(c, d.verdict, i, d.findings[i]).item
    BY <2>1 DEF ComesFrom
  <2>4. d.findings[i] \in Finding
    BY <2>3 DEF Presentation
  <2>5. \A r \in g.required \cup g.supporting : Admissible(c, r)
    BY <2>3, <2>4, KeptItem
  <2> QED BY <1>5, <2>2, <2>5
<1>7. \A n \in DOMAIN p.unknowns : Range(p.unknowns[n].refs) \cap c.changed = {}
  BY <1>4, <1>5 DEF Range
<1>8. \A n \in DOMAIN p.checks : p.checks[n].refs \cap c.changed = {}
  BY <1>4, <1>5
<1> QED BY <1>1, <1>2, <1>3, <1>6, <1>7, <1>8 DEF Current

\* No deciding finding is missing from r, by name.
Decided(d, r) ==
  \A i \in Deciding(d) : Holds(r, d.findings[i])

\* A clean compilation lost no deciding finding, and under a blocking verdict
\* every kept finding is in the review.
LEMMA CleanIsDecided ==
  ASSUME NEW c \in Context, NEW d \in Presentation, Clean(Compile(c, d))
  PROVE  Decided(d, Compile(c, d).review)
<1>1. /\ Compile(c, d).publishable /\ Compile(c, d).lost = {}
      /\ Compile(c, d).review = Left(c, d)
  BY CompileKeeps DEF Clean
<1>2. d.form = "object" /\ ~ Tainted(d) /\ TruthAt(Fates(c, d)) = {}
  BY <1>1, PassesTheTable
<1>3. Compile(c, d).lost = Lost(d, Fates(c, d))
  BY <1>2, CompiledFrom DEF Result
<1>4. ASSUME NEW i \in Deciding(d)
      PROVE  d.verdict = "blocking" /\ i \in DOMAIN d.findings
  BY DEF Deciding, Carries
<1>5. \A i \in Deciding(d) : Fates(c, d)[i].kept
  BY <1>1, <1>2, <1>3 DEF Lost
<1> QED BY <1>1, <1>4, <1>5, LeftIs DEF Decided, Holds

-----------------------------------------------------------------------------
(* What the compiler keeps, the strict validator accepts.                   *)

\* A kept finding that still claims required evidence was not demoted.
LEMMA VerifiedItem ==
  ASSUME NEW c \in Context, NEW verdict, NEW i, NEW f \in Finding,
         Fate(c, verdict, i, f).kept
  PROVE  LET item == Fate(c, verdict, i, f).item
             k == Weighed(Admitted(c, verdict, f), f)
         IN  /\ item.required # {} =>
                  /\ item = Admitted(c, verdict, f) /\ k.scope
                  /\ f.priority = "P1" => k.critical
                  /\ f.priority = "P2" => k.rejected = {}
             /\ f.priority = "P1" => item.required # {}
             /\ item.placement = "inline" =>
                  item.snippet = "post" /\ item.required # {} /\ f.path # NoPath
<1> DEFINE g == Admitted(c, verdict, f)
           k == Weighed(g, f)
           need == AdmitRequired(c, f.required)
           item == Fate(c, verdict, i, f).item
<1>1. item = IF Weak(g, f) THEN Demoted(g, k) ELSE g
  BY FateIs
<1>2. /\ f.path = NoPath => f.placement # "inline"
      /\ f.priority = "P1" => need.refs # {} /\ k.critical
  BY KeptMeans
<1>3. /\ Kept(g, f) /\ g.placement = Placed(f, g.required)
      /\ need.refs \subseteq g.required
  BY AdmittedIs
<1>4. g \in Finding /\ g.priority = f.priority /\ f.priority \in {"P1", "P2"}
      /\ g.snippet = Anchored(f.snippet)
  BY <1>3 DEF Kept, SameClaim, Finding
<1>5. k.critical => k.scope
  BY DEF Weighed, Capability
<1> HIDE DEF g, k, need, item
<1>6. CASE Weak(g, f)
  <2>1. item.required = {} /\ item.placement = "collapsed"
    BY <1>1, <1>4, <1>6, DemotedIs
  <2>2. f.priority # "P1"
    BY <1>4, <1>6 DEF Weak
  <2> QED BY <2>1, <2>2 DEF item
<1>7. CASE ~ Weak(g, f)
  <2>1. item = g
    BY <1>1, <1>7
  <2>2. f.priority = "P2" => k.rejected = {} /\ k.scope
    BY <1>4, <1>7 DEF Weak, WeakFor, k
  <2>3. g.placement = "inline" => f.placement = "inline" /\ Anchored(f.snippet) = "post" /\ g.required # {}
    BY <1>3 DEF Placed
  <2> QED BY <1>2, <1>3, <1>4, <1>5, <2>1, <2>2, <2>3 DEF item, g, k
<1> QED BY <1>6, <1>7

\* An admitted P1 leans on no CI check that it was not sent with.
LEMMA RequiredCIIsSent ==
  ASSUME NEW c \in Context, NEW verdict, NEW f \in Finding, f.priority = "P1"
  PROVE  Admitted(c, verdict, f).required \cap CI \subseteq f.required
<1> DEFINE named == AdmitRequired(c, f.required).refs
           lent  == AdmitSupporting(c, f.supporting) \ (CI \cup named)
<1>1. Promoted(verdict, f, named, lent) = {}
  BY DEF Promoted
<1>2. Cited(verdict, f, named, lent).required = named
  BY <1>1 DEF Cited, Finding
<1>3. Admitted(c, verdict, f).required = named
  BY <1>2 DEF Admitted, Represented, Cited, Finding
<1>4. ASSUME NEW r \in named \cap CI PROVE r \in f.required
  <2>1. PICK x \in f.required : r = Resolved(c, x)
    BY DEF AdmitRequired
  <2>2. r = x \/ r \in Refs \ CI
    BY <2>1, CatalogAssumption DEF Resolved
  <2> QED BY <2>1, <2>2, <1>4
<1> QED BY <1>3, <1>4

\* The same evidence carries the same, apart from a policy failure's text.
SameEvidence(q, g) ==
  /\ q.required = g.required /\ q.supporting = g.supporting /\ q.path = g.path
  /\ q.snippet = g.snippet /\ q.rep = g.rep

\* Capability looks at the evidence, and at the text only for a policy failure.
LEMMA SameCapability ==
  ASSUME NEW q, NEW g, NEW prose, NEW text, SameEvidence(q, g),
         Capability(g, text).policy => Capability(q, prose).policy
  PROVE  /\ Capability(g, text).scope => Capability(q, prose).scope
         /\ Capability(g, text).critical => Capability(q, prose).critical
         /\ Capability(g, text).rejected = {} => Capability(q, prose).rejected = {}
         /\ Capability(g, text).critical /\ q.snippet # "deleted" =>
              Capability(q, prose).rejected = {}
         /\ q.required \cap CI = {} => Capability(q, prose).rejected = {}
<1> DEFINE ci(h)   == h.required \cap CI
           own(h)  == {r \in h.required : CarriesCode(r, h.path)}
           lent(h) == {r \in h.supporting : Usable(r) /\ CarriesCode(r, h.path)}
           indep(h) == IF ci(h) # {} /\ own(h) = {} THEN lent(h) ELSE own(h)
           exact(h) == h.rep = "semantic" \/ (h.snippet = "post" /\ ExactRepresentation(h))
           scope(h, policy) ==
             CASE h.snippet = "deleted" -> DeletedSupport(h.required) # {}
               [] h.snippet = "post"    -> h.path \in ChangedPaths
               [] OTHER -> policy \/ \E r \in h.required : CarriesCode(r, NoPath)
           Is(k, h) ==
             /\ k.rejected = IF indep(h) = {} /\ ~ k.policy THEN ci(h) ELSE {}
             /\ k.scope = scope(h, k.policy)
             /\ k.critical = (/\ scope(h, k.policy) /\ exact(h)
                              /\ IF h.snippet = "deleted" THEN DeletedSupport(h.required) # {}
                                 ELSE indep(h) # {} \/ k.policy)
           k == Capability(g, text)
           l == Capability(q, prose)
<1>1. Is(k, g) /\ Is(l, q)
  BY DEF Capability
<1>2. /\ ci(q) = ci(g) /\ indep(q) = indep(g) /\ exact(q) = exact(g)
      /\ \A policy : scope(q, policy) = scope(g, policy)
      /\ q.snippet = g.snippet /\ q.required = g.required
  BY DEF SameEvidence, ExactRepresentation
<1>3. k.policy => l.policy
  OBVIOUS
<1>4. scope(g, k.policy) => scope(q, l.policy)
  BY <1>2, <1>3
<1> HIDE DEF k, l, ci, indep, exact, scope
<1>5. l.rejected \in {{}, ci(g)} /\ (l.rejected # {} => indep(g) = {} /\ ~ l.policy)
  BY <1>1, <1>2
<1>6. k.rejected = {} => indep(g) # {} \/ k.policy \/ ci(g) = {}
  BY <1>1
<1> QED BY <1>1, <1>2, <1>3, <1>4, <1>5, <1>6 DEF k, l, ci

\* The diagnostic that carried a policy failure is still in what is shown of it.
LEMMA PolicyIsShown ==
  ASSUME NEW verdict, NEW f \in Finding, NEW g, Kept(g, f),
         NEW q \in Finding, SameEvidence(q, g), SameClaim(q, g),
         NEW blocks \in BOOLEAN, blocks => Carries(verdict, q),
         ~ Disputed(verdict, f), f.path = NoPath => q.placement # "inline",
         IsPolicyFailure(g, Prose(f))
  PROVE  IsPolicyFailure(q, IF blocks THEN q.head \cup q.body ELSE Prose(q))
<1>1. /\ g.path = NoPath /\ g.snippet = "none" /\ g.required # {} /\ g.required \subseteq CI
      /\ \E r \in g.required : Diagnoses(Prose(f), r)
  BY DEF IsPolicyFailure
<1>2. PICK r \in g.required : r \in Prose(f) /\ Catalog[r].diagnosed
  BY <1>1 DEF Diagnoses
<1>3. /\ q.path = NoPath /\ q.snippet = "none" /\ q.required = g.required
      /\ f.path = NoPath /\ q.head = f.head /\ q.body = f.body /\ q.ask = f.ask
      /\ q.category = f.category
  BY <1>1 DEF Kept, SameEvidence, SameClaim
<1>4. blocks => Carries(verdict, f)
  BY <1>3 DEF Carries, Substantive
<1>5. blocks => r \in q.head \cup q.body
  BY <1>2, <1>3, <1>4 DEF Disputed, OnlyAsks, Prose
<1>6. r \in IF blocks THEN q.head \cup q.body ELSE Prose(q)
  BY <1>2, <1>3, <1>5 DEF Prose
<1> QED BY <1>1, <1>2, <1>3, <1>6 DEF IsPolicyFailure, Diagnoses

\* A kept finding, however it was moved since, passes the validator unless it is
\* disputed.
LEMMA KeptIsAccepted ==
  ASSUME NEW c \in Context, NEW verdict, NEW i, NEW f \in Finding,
         Fate(c, verdict, i, f).kept, ~ Disputed(verdict, f),
         NEW q \in Finding, SameEvidence(q, Fate(c, verdict, i, f).item),
         SameClaim(q, Fate(c, verdict, i, f).item),
         q.placement = "inline" =>
           Fate(c, verdict, i, f).item.placement = "inline"
             \/ (q.snippet = "post" /\ q.required # {}),
         NEW blocks \in BOOLEAN, blocks => q.required # {} /\ Carries(verdict, q)
  PROVE  FindingAccepted(q, blocks)
<1> DEFINE item == Fate(c, verdict, i, f).item
           g == Admitted(c, verdict, f)
           k == Weighed(g, f)
           prose == IF blocks THEN q.head \cup q.body ELSE Prose(q)
           l == Capability(q, prose)
<1>1. /\ Kept(item, f)
      /\ item.required \cup item.supporting # {}
      /\ \A r \in item.required \cup item.supporting : Admissible(c, r)
  BY KeptItem
<1>2. /\ item.required # {} =>
           /\ item = g /\ k.scope
           /\ f.priority = "P1" => k.critical
           /\ f.priority = "P2" => k.rejected = {}
      /\ f.priority = "P1" => item.required # {}
      /\ item.placement = "inline" =>
           item.snippet = "post" /\ item.required # {} /\ f.path # NoPath
  BY VerifiedItem
<1>3. SameEvidence(q, item) /\ SameClaim(q, item)
      /\ (q.placement = "inline" =>
            item.placement = "inline" \/ (q.snippet = "post" /\ q.required # {}))
  OBVIOUS
<1>4. k.scope /\ g.snippet = "post" => g.path # NoPath
  BY CatalogAssumption DEF Weighed, Capability
<1> HIDE DEF item, g, k, prose, l
<1>5. /\ q.required = item.required /\ q.supporting = item.supporting /\ q.snippet = item.snippet
      /\ q.path = item.path /\ q.path = f.path /\ q.priority = f.priority
      /\ q.required \cap q.supporting = {} /\ f.priority \in {"P1", "P2"}
      /\ q.snippet = Anchored(f.snippet)
  BY <1>1, <1>3 DEF Kept, SameEvidence, SameClaim, Finding
<1>6. q.placement = "inline" => q.snippet = "post" /\ q.required # {} /\ q.path # NoPath
  BY <1>2, <1>3, <1>4, <1>5
<1>7. f.priority = "P1" => f.path # NoPath /\ (q.snippet = "deleted" => f.required \cap CI = {})
  BY <1>5 DEF Disputed
<1>8. CitationsAccepted(q, l)
  BY <1>1, <1>5, <1>6, <1>7 DEF CitationsAccepted, Admissible
<1>9. FindingAccepted(q, blocks) =
        (/\ CitationsAccepted(q, l) /\ l.rejected = {} /\ (blocks => q.required # {})
         /\ (q.placement = "inline" => q.snippet = "post" /\ q.required # {})
         /\ (q.required # {} => l.scope)
         /\ (q.required # {} /\ q.priority = "P1" => l.critical))
  BY DEF FindingAccepted, l, prose
<1>10. CASE q.required = {}
  <2>1. SameEvidence(q, q)
    BY DEF SameEvidence
  <2>2. l.rejected = {}
    BY <1>10, <2>1, SameCapability DEF l
  <2> QED BY <1>6, <1>8, <1>9, <1>10, <2>2
<1>11. CASE q.required # {}
  <2>1. item = g
    BY <1>2, <1>5, <1>11
  <2>2. k.policy = IsPolicyFailure(g, Prose(f)) /\ l.policy = IsPolicyFailure(q, prose)
    BY DEF k, l, Weighed, Capability
  <2>3. k.policy => l.policy
    BY <1>1, <1>3, <1>5, <1>6, <2>1, <2>2, PolicyIsShown DEF prose
  <2>4. /\ k.scope => l.scope
        /\ k.critical => l.critical
        /\ k.rejected = {} => l.rejected = {}
        /\ k.critical /\ q.snippet # "deleted" => l.rejected = {}
        /\ q.required \cap CI = {} => l.rejected = {}
    BY <1>3, <2>1, <2>3, SameCapability DEF k, l, Weighed
  <2>5. f.priority = "P1" => g.required \cap CI \subseteq f.required
    BY RequiredCIIsSent DEF g
  <2>6. l.rejected = {}
    BY <1>2, <1>5, <1>7, <1>11, <2>1, <2>4, <2>5
  <2> QED BY <1>2, <1>5, <1>6, <1>8, <1>9, <1>11, <2>4, <2>6
<1> QED BY <1>10, <1>11

\* The first few of a list's positions are no more than a few.
LEMMA FirstFew ==
  ASSUME NEW len \in Nat, NEW H \in SUBSET (1 .. len), NEW cap \in Nat
  PROVE  LET few == {i \in H : Cardinality({j \in H : j < i}) < cap}
         IN  IsFiniteSet(few) /\ Cardinality(few) <= cap
<1> DEFINE before(i) == {j \in H : j < i}
           few == {i \in H : Cardinality(before(i)) < cap}
<1>1. IsFiniteSet(1 .. len)
  BY FS_Interval
<1>2. IsFiniteSet(H)
  BY <1>1, FS_Subset
<1>3. few \subseteq H /\ \A i \in few : Cardinality(before(i)) < cap
  OBVIOUS
<1> HIDE DEF few
<1>4. IsFiniteSet(few)
  BY <1>2, <1>3, FS_Subset
<1>5. CASE few = {}
  <2>1. Cardinality(few) = 0
    BY <1>5, FS_EmptySet
  <2> QED BY <1>4, <2>1 DEF few
<1>6. CASE few # {}
  <2> DEFINE Above == {u \in Nat : \A i \in few : i <= u}
  <2>1. len \in Above
    BY <1>3
  <2>2. PICK m \in Above : \A u \in Above : m <= u
    BY <2>1, HasLeast
  <2>3. m \in few
    <3> SUFFICES ASSUME m \notin few PROVE FALSE
      OBVIOUS
    <3>1. \A i \in few : i \in Nat /\ 1 <= i /\ i <= m /\ i # m
      BY <1>3, <2>2
    <3>2. m - 1 \in Nat /\ \A i \in few : i <= m - 1
      BY <1>6, <2>2, <3>1
    <3>3. m - 1 \in Above /\ ~ (m <= m - 1)
      BY <2>2, <3>2
    <3> QED BY <2>2, <3>3
  <2>4. few \ {m} \subseteq before(m)
    BY <1>3, <2>2
  <2>5. Cardinality(before(m)) < cap
    BY <1>3, <2>3
  <2>6. IsFiniteSet(before(m))
    BY <1>2, FS_Subset
  <2> HIDE DEF before
  <2>7. Cardinality(few \ {m}) <= Cardinality(before(m)) /\ Cardinality(before(m)) \in Nat
    BY <2>4, <2>6, FS_Subset, FS_CardinalityType
  <2>8. Cardinality(few \ {m}) = Cardinality(few) - 1 /\ Cardinality(few) \in Nat
    BY <1>4, <2>3, FS_RemoveElement, FS_CardinalityType
  <2>9. Cardinality(few) <= cap
    BY <2>5, <2>7, <2>8
  <2> QED BY <1>4, <2>9 DEF few, before
<1> QED BY <1>5, <1>6

\* A set with no two elements has at most one.
LEMMA AtMostOne ==
  ASSUME NEW S, \A x, y \in S : x = y
  PROVE  IsFiniteSet(S) /\ Cardinality(S) <= 1
<1>1. CASE S = {}
  <2>1. Cardinality({}) = 0 /\ IsFiniteSet({})
    BY FS_EmptySet
  <2> QED BY <1>1, <2>1
<1>2. CASE S # {}
  <2>1. PICK x : x \in S
    BY <1>2
  <2>2. S = {x}
    BY <2>1
  <2>3. IsFiniteSet({x}) /\ Cardinality({x}) = 1
    BY FS_Singleton
  <2> QED BY <2>2, <2>3
<1> QED BY <1>1, <1>2

\* Positions of the findings in one place.
PlacedAt(findings, place) == {i \in DOMAIN findings : findings[i].placement = place}

\* What is shown keeps within the caps, with one inline finding that does not
\* block at most.
LEMMA ShownIsCapped ==
  ASSUME NEW findings \in Seq(Finding), NEW blocking
  PROVE  CapsHold(Shown(findings, blocking), blocking)
<1> DEFINE shown == Shown(findings, blocking)
           len == Len(findings)
           heads  == PlacedAt(findings, "headline")
           inline == PlacedAt(findings, "inline")
           extra  == inline \ blocking
           fit    == (inline \cap blocking) \cup {i \in extra : \A j \in extra : i <= j}
           fewHeads == {i \in heads : Cardinality({j \in heads : j < i}) < HeadlineCap}
           fewFit   == {i \in fit : Cardinality({j \in fit : j < i}) < InlineCap}
<1>1. /\ len \in Nat /\ DOMAIN findings = 1 .. len
      /\ heads \in SUBSET (1 .. len) /\ fit \in SUBSET (1 .. len)
      /\ \A i \in 1 .. len : findings[i] \in Finding
  BY DEF PlacedAt
<1>2. HeadlineCap \in Nat /\ InlineCap \in Nat
  BY CatalogAssumption
<1>3. IsFiniteSet(fewHeads) /\ Cardinality(fewHeads) <= HeadlineCap
  BY <1>1, <1>2, FirstFew
<1>4. IsFiniteSet(fewFit) /\ Cardinality(fewFit) <= InlineCap
  BY <1>1, <1>2, FirstFew
<1>5. /\ DOMAIN shown = 1 .. len
      /\ \A i \in 1 .. len :
           shown[i].placement =
             IF \/ findings[i].placement = "headline" /\ i \notin fewHeads
                \/ findings[i].placement = "inline" /\ i \notin fewFit
             THEN "collapsed" ELSE findings[i].placement
  <2> DEFINE over(i) ==
        CASE findings[i].placement = "headline" ->
               Cardinality({j \in 1 .. i - 1 : findings[j].placement = "headline"}) >= HeadlineCap
          [] findings[i].placement = "inline" ->
               i \notin fit \/ Cardinality({j \in fit : j < i}) >= InlineCap
          [] OTHER -> FALSE
  <2>1. shown = [i \in 1 .. len |-> IF over(i) THEN [findings[i] EXCEPT !.placement = "collapsed"]
                                   ELSE findings[i]]
    BY <1>1 DEF Shown, PlacedAt
  <2>2. DOMAIN shown = 1 .. len
    BY <2>1
  <2>3. ASSUME NEW i \in 1 .. len
        PROVE  shown[i] = IF over(i) THEN [findings[i] EXCEPT !.placement = "collapsed"]
                          ELSE findings[i]
    BY <2>1
  <2>4. ASSUME NEW i \in 1 .. len
        PROVE  shown[i].placement =
                 IF \/ findings[i].placement = "headline" /\ i \notin fewHeads
                    \/ findings[i].placement = "inline" /\ i \notin fewFit
                 THEN "collapsed" ELSE findings[i].placement
    <3> DEFINE place == findings[i].placement
               a == Cardinality({j \in heads : j < i})
               b == Cardinality({j \in fit : j < i})
    <3>1. {j \in 1 .. i - 1 : findings[j].placement = "headline"} = {j \in heads : j < i}
      BY <1>1 DEF PlacedAt
    <3>2. a \in Nat /\ b \in Nat
      <4>1. IsFiniteSet(1 .. len)
        BY FS_Interval
      <4>2. IsFiniteSet({j \in heads : j < i}) /\ IsFiniteSet({j \in fit : j < i})
        BY <1>1, <4>1, FS_Subset
      <4> QED BY <4>2, FS_CardinalityType
    <3>3. /\ i \in heads <=> place = "headline"
          /\ i \in fewHeads <=> i \in heads /\ a < HeadlineCap
          /\ i \in fewFit <=> i \in fit /\ b < InlineCap
      BY <1>1 DEF PlacedAt
    <3>4. over(i) = CASE place = "headline" -> a >= HeadlineCap
                      [] place = "inline" -> i \notin fit \/ b >= InlineCap
                      [] OTHER -> FALSE
      BY <3>1
    <3>5. [findings[i] EXCEPT !.placement = "collapsed"].placement = "collapsed"
      BY <1>1 DEF Finding
    <3> HIDE DEF over, shown, fewHeads, fewFit, heads, fit, a, b
    <3>6. CASE place = "headline"
      <4>1. over(i) <=> a >= HeadlineCap
        BY <3>4, <3>6
      <4>2. over(i) <=> i \notin fewHeads
        BY <1>2, <3>2, <3>3, <3>6, <4>1
      <4> QED BY <2>3, <3>5, <3>6, <4>2
    <3>7. CASE place = "inline"
      <4>1. over(i) <=> i \notin fit \/ b >= InlineCap
        BY <3>4, <3>7
      <4>2. over(i) <=> i \notin fewFit
        BY <1>2, <3>2, <3>3, <4>1
      <4> QED BY <2>3, <3>5, <3>7, <4>2
    <3>8. CASE place \notin {"headline", "inline"}
      <4>1. ~ over(i)
        BY <3>4, <3>8
      <4> QED BY <2>3, <3>8, <4>1
    <3> QED BY <3>6, <3>7, <3>8
  <2> HIDE DEF over, shown, fewHeads, fewFit
  <2> QED BY <2>2, <2>4
<1>6. PlacedAt(shown, "headline") = fewHeads /\ PlacedAt(shown, "inline") = fewFit
  <2>1. fewHeads \subseteq heads /\ fewFit \subseteq inline
    OBVIOUS
  <2> HIDE DEF shown, fewHeads, fewFit
  <2> QED BY <1>1, <1>5, <2>1 DEF PlacedAt
<1>7. IsFiniteSet(fewFit \ blocking) /\ Cardinality(fewFit \ blocking) <= 1
  <2>1. \A i, j \in fewFit \ blocking : i = j
    BY <1>1
  <2> QED BY <2>1, AtMostOne
<1> HIDE DEF fewHeads, fewFit, shown
<1> QED BY <1>3, <1>4, <1>6, <1>7 DEF CapsHold, PlacedAt, shown

\* The election moves at most one finding: a supported, anchored defect.
LEMMA ElectedIs ==
  ASSUME NEW verdict, NEW findings \in Seq(Finding), NEW blocking, CapsHold(findings, blocking)
  PROVE  LET public == Elected(verdict, findings, blocking)
         IN  /\ DOMAIN public = DOMAIN findings
             /\ \A i \in DOMAIN findings :
                  \/ public[i] = findings[i]
                  \/ /\ public[i] = [findings[i] EXCEPT !.placement = "inline"]
                     /\ findings[i].required # {} /\ findings[i].snippet = "post"
             /\ CapsHold(public, blocking)
<1> DEFINE able == {i \in DOMAIN findings : /\ findings[i].category = "defect"
                                            /\ findings[i].required # {}
                                            /\ findings[i].snippet = "post"}
           rank(i) == <<IF i \in blocking THEN 0 ELSE 1,
                        IF findings[i].priority = "P1" THEN 0 ELSE 1, i>>
           before(i, j) == \/ rank(i)[1] < rank(j)[1]
                           \/ rank(i)[1] = rank(j)[1] /\ rank(i)[2] < rank(j)[2]
                           \/ rank(i)[1] = rank(j)[1] /\ rank(i)[2] = rank(j)[2] /\ i <= j
           inline == PlacedAt(findings, "inline")
           elected(i) == i \in able /\ \A j \in able : before(i, j)
           public == Elected(verdict, findings, blocking)
<1>1. public = IF verdict # "blocking" \/ inline # {} THEN findings
               ELSE [i \in DOMAIN findings |->
                       IF elected(i) THEN [findings[i] EXCEPT !.placement = "inline"] ELSE findings[i]]
  BY DEF Elected, PlacedAt
<1>2. DOMAIN findings = 1 .. Len(findings) /\ \A i \in DOMAIN findings : findings[i] \in Finding
  OBVIOUS
<1>3. \A i, j \in DOMAIN findings : elected(i) /\ elected(j) => i = j
  BY <1>2
<1>4. \A i \in DOMAIN findings : elected(i) => findings[i].required # {} /\ findings[i].snippet = "post"
  OBVIOUS
<1> HIDE DEF able, elected, public
<1>5. CASE verdict # "blocking" \/ inline # {}
  BY <1>1, <1>5 DEF public
<1>6. CASE ~ (verdict # "blocking" \/ inline # {})
  <2>1. /\ DOMAIN public = DOMAIN findings
        /\ \A i \in DOMAIN findings :
             public[i] = IF elected(i) THEN [findings[i] EXCEPT !.placement = "inline"] ELSE findings[i]
    BY <1>1, <1>6
  <2>2. ASSUME NEW i \in DOMAIN findings
        PROVE  public[i].placement = IF elected(i) THEN "inline" ELSE findings[i].placement
    <3>1. [findings[i] EXCEPT !.placement = "inline"].placement = "inline"
      BY <1>2 DEF Finding
    <3> QED BY <2>1, <3>1
  <2>3. \A i, j \in PlacedAt(public, "inline") : i = j
    BY <1>3, <1>6, <2>1, <2>2 DEF PlacedAt
  <2>4. IsFiniteSet(PlacedAt(public, "inline")) /\ Cardinality(PlacedAt(public, "inline")) <= 1
    BY <2>3, AtMostOne
  <2>5. IsFiniteSet(PlacedAt(public, "inline") \ blocking)
        /\ Cardinality(PlacedAt(public, "inline") \ blocking) <= 1
    BY <2>3, AtMostOne
  <2>6. PlacedAt(public, "headline") \subseteq PlacedAt(findings, "headline")
    BY <2>1, <2>2 DEF PlacedAt
  <2>7. IsFiniteSet(PlacedAt(findings, "headline"))
    <3>1. IsFiniteSet(1 .. Len(findings)) /\ PlacedAt(findings, "headline") \subseteq 1 .. Len(findings)
      BY <1>2, FS_Interval DEF PlacedAt
    <3> QED BY <3>1, FS_Subset
  <2>8. /\ Cardinality(PlacedAt(public, "headline")) \in Nat
        /\ Cardinality(PlacedAt(findings, "headline")) \in Nat
        /\ Cardinality(PlacedAt(public, "headline")) <= Cardinality(PlacedAt(findings, "headline"))
    BY <2>6, <2>7, FS_Subset, FS_CardinalityType
  <2>9. Cardinality(PlacedAt(findings, "headline")) <= HeadlineCap
    BY DEF CapsHold, PlacedAt
  <2>10. /\ Cardinality(PlacedAt(public, "headline")) <= HeadlineCap
         /\ Cardinality(PlacedAt(public, "inline")) <= InlineCap
    <3>1. HeadlineCap \in Nat /\ InlineCap \in Nat /\ 1 <= InlineCap
      BY CatalogAssumption
    <3>2. Cardinality(PlacedAt(public, "inline")) \in Nat
      BY <2>4, FS_CardinalityType
    <3> QED BY <2>4, <2>8, <2>9, <3>1, <3>2
  <2>11. CapsHold(public, blocking)
    BY <2>5, <2>10 DEF CapsHold, PlacedAt
  <2> QED BY <1>4, <2>1, <2>11 DEF public
<1> QED BY <1>5, <1>6

\* Moving a finding out of sight changes nothing that blocks.
LEMMA ShownBlocksAlike ==
  ASSUME NEW verdict, NEW findings \in Seq(Finding), NEW blocking
  PROVE  Blocking(verdict, Shown(findings, blocking)) = Blocking(verdict, findings)
<1> DEFINE shown == Shown(findings, blocking)
<1>1. /\ DOMAIN shown = DOMAIN findings
      /\ \A i \in DOMAIN findings :
           shown[i] \in {findings[i], [findings[i] EXCEPT !.placement = "collapsed"]}
  BY ShownIs
<1> HIDE DEF shown
<1>2. ASSUME NEW i \in DOMAIN findings
      PROVE  /\ Carries(verdict, shown[i]) <=> Carries(verdict, findings[i])
             /\ shown[i].required = findings[i].required
             /\ shown[i].priority = findings[i].priority
  <2>1. findings[i] \in Finding
    OBVIOUS
  <2>2. /\ shown[i].category = findings[i].category
        /\ shown[i].required = findings[i].required
        /\ shown[i].priority = findings[i].priority
    BY <1>1, <2>1 DEF Finding
  <2> QED BY <2>2 DEF Carries, Substantive
<1> DEFINE able(s) == {i \in DOMAIN s : Carries(verdict, s[i]) /\ s[i].required # {}}
           critical(s) == {i \in able(s) : s[i].priority = "P1"}
<1>3. able(shown) = able(findings)
  BY <1>1, <1>2
<1>4. critical(shown) = critical(findings)
  BY <1>2, <1>3
<1>5. \A s : Blocking(verdict, s) = IF critical(s) # {} THEN critical(s)
                                    ELSE {i \in able(s) : \A j \in able(s) : i <= j}
  BY DEF Blocking
<1> HIDE DEF able, critical
<1> QED BY <1>3, <1>4, <1>5 DEF shown

\* What is left keeps within the caps.
LEMMA LeftIsCapped ==
  ASSUME NEW c \in Context, NEW d \in Presentation
  PROVE  CapsHold(Left(c, d).findings, Blocking(d.verdict, Left(c, d).findings))
<1> DEFINE items == Items(c, d)
           unknowns == Survivors(UnknownFates(c, d))
           checks == KeptChecks(c, d)
           orphaned == Orphaned(d, Fates(c, d), UnknownFates(c, d))
           p == Left(c, d)
<1>1. p = Presented(d, items, unknowns, checks, orphaned)
  BY DEF Left, Normalized, Items
<1>2. items \in Seq(Finding) /\ unknowns \in Seq(Unknown) /\ checks \in Seq(Check)
  BY ItemsAre, UnknownsAre, ChecksAre
<1> HIDE DEF items, unknowns, checks, orphaned, p
<1>3. PICK findings \in Seq(Finding) :
        p.findings = Shown(findings, Blocking(d.verdict, findings))
  BY <1>1, <1>2, PresentedIs
<1>4. /\ Blocking(d.verdict, p.findings) = Blocking(d.verdict, findings)
      /\ CapsHold(p.findings, Blocking(d.verdict, findings))
  BY <1>3, ShownBlocksAlike, ShownIsCapped
<1> QED BY <1>4 DEF p

\* The review the compiler is left with satisfies the strict contract.
LEMMA LeftIsAccepted ==
  ASSUME NEW c \in Context, NEW d \in Presentation,
         \A i \in DOMAIN d.findings : ~ Disputed(d.verdict, d.findings[i]),
         ~ (d.verdict = "blocking" /\ Blocking(d.verdict, Left(c, d).findings) = {}),
         ~ (d.verdict = "verification_needed" /\ Left(c, d).unknowns = <<>>)
  PROVE  ContractAccepts(Left(c, d))
<1> DEFINE p == Left(c, d)
           blocking == Blocking(p.verdict, p.findings)
           public == Elected(p.verdict, p.findings, blocking)
<1>1. /\ p \in Presentation /\ p.verdict = d.verdict
      /\ \A j \in DOMAIN p.findings : \E g \in Finding :
           /\ ComesFrom(c, d, g)
           /\ p.findings[j] \in {g, [g EXCEPT !.placement = "collapsed"]}
  BY LeftIs
<1>2. p.findings \in Seq(Finding)
  BY <1>1 DEF Presentation
<1>3. CapsHold(p.findings, blocking)
  BY <1>1, LeftIsCapped
<1> HIDE DEF p
<1>4. /\ DOMAIN public = DOMAIN p.findings
      /\ \A i \in DOMAIN p.findings :
           \/ public[i] = p.findings[i]
           \/ /\ public[i] = [p.findings[i] EXCEPT !.placement = "inline"]
              /\ p.findings[i].required # {} /\ p.findings[i].snippet = "post"
      /\ CapsHold(public, blocking)
  BY <1>2, <1>3, ElectedIs
<1> HIDE DEF public
<1>5. ASSUME NEW i \in DOMAIN public
      PROVE  FindingAccepted(public[i], i \in blocking)
  <2>1. PICK g \in Finding :
          /\ ComesFrom(c, d, g)
          /\ p.findings[i] \in {g, [g EXCEPT !.placement = "collapsed"]}
    BY <1>1, <1>4
  <2>2. PICK n \in DOMAIN d.findings :
          /\ Fate(c, d.verdict, n, d.findings[n]).kept
          /\ g = Fate(c, d.verdict, n, d.findings[n]).item
    BY <2>1 DEF ComesFrom
  <2> DEFINE q == public[i]
             r == p.findings[i]
  <2>3. r \in Finding /\ SameEvidence(r, g) /\ SameClaim(r, g)
        /\ (r.placement = "inline" => g.placement = "inline")
    BY <2>1 DEF Finding, SameEvidence, SameClaim
  <2>4. /\ q \in Finding /\ SameEvidence(q, r) /\ SameClaim(q, r)
        /\ (q.placement = "inline" =>
              r.placement = "inline" \/ (q.snippet = "post" /\ q.required # {}))
    <3>1. q = r \/ (q = [r EXCEPT !.placement = "inline"] /\ r.required # {} /\ r.snippet = "post")
      BY <1>4
    <3> HIDE DEF q, r
    <3> QED BY <2>3, <3>1 DEF Finding, SameEvidence, SameClaim
  <2>5. d.findings[n] \in Finding /\ ~ Disputed(d.verdict, d.findings[n])
    BY DEF Presentation
  <2>6. i \in blocking => q.required # {} /\ Carries(d.verdict, q)
    <3>1. i \in blocking => r.required # {} /\ Substantive(r) /\ p.verdict = "blocking"
      BY BlockingIs
    <3> QED BY <1>1, <2>4, <3>1 DEF Carries, Substantive, SameEvidence, SameClaim
  <2>7. SameEvidence(q, g) /\ SameClaim(q, g)
        /\ (q.placement = "inline" =>
              g.placement = "inline" \/ (q.snippet = "post" /\ q.required # {}))
    BY <2>3, <2>4 DEF SameEvidence, SameClaim
  <2>8. (i \in blocking) \in BOOLEAN
    OBVIOUS
  <2> HIDE DEF q, r, blocking
  <2>9. FindingAccepted(q, i \in blocking)
    BY <2>2, <2>4, <2>5, <2>6, <2>7, <2>8, KeptIsAccepted
  <2> QED BY <2>9 DEF q
<1>6. Related(p.verdict, p.unknowns, blocking)
  <2>1. p.verdict \in Verdicts
    BY <1>1 DEF Presentation
  <2>2. blocking # {} => p.verdict = "blocking"
    BY BlockingIs
  <2>3. /\ ~ (p.verdict = "blocking" /\ blocking = {})
        /\ ~ (p.verdict = "verification_needed" /\ p.unknowns = <<>>)
    BY <1>1 DEF p
  <2> QED BY <2>1, <2>2, <2>3 DEF Related, Verdicts
<1> QED BY <1>4, <1>5, <1>6 DEF ContractAccepts, public, p

-----------------------------------------------------------------------------
(* The turns of the contraction loop.                                       *)

\* The summary is replaced by a text of the object.
LEMMA SourceIsText ==
  ASSUME NEW d \in Presentation
  PROVE  SummarySource(d) \subseteq Text
<1>1. d.findings \in Seq(Finding) /\ d.unknowns \in Seq(Unknown) /\ d.verdict \in Verdicts
  BY DEF Presentation
<1>2. \A i \in DOMAIN d.findings : d.findings[i].head \in Text
  <2>1. \A i \in DOMAIN d.findings : d.findings[i] \in Finding
    BY <1>1
  <2> QED BY <2>1 DEF Finding
<1>3. \A i \in DOMAIN d.unknowns : d.unknowns[i].fact \in Text
  <2>1. \A i \in DOMAIN d.unknowns : d.unknowns[i] \in Unknown
    BY <1>1
  <2> QED BY <2>1 DEF Unknown
<1>4. {} \in Text
  BY DEF Text
<1>5. TaintCarriers(d) \subseteq DOMAIN d.findings
  BY DEF TaintCarriers
<1>6. CASE d.verdict = "clear"
  BY <1>4, <1>6 DEF SummarySource
<1>7. CASE d.verdict = "blocking"
  BY <1>2, <1>5, <1>7 DEF SummarySource
<1>8. CASE d.verdict = "verification_needed"
  BY <1>3, <1>8 DEF SummarySource
<1> QED BY <1>1, <1>6, <1>7, <1>8 DEF Verdicts

\* A sequence without one of its elements.
LEMMA RemoveIsSeq ==
  ASSUME NEW S, NEW s \in Seq(S), NEW i \in DOMAIN s
  PROVE  RemoveAt(s, i) \in Seq(S)
<1>1. /\ Len(s) \in Nat /\ i \in 1 .. Len(s)
      /\ \A n \in 1 .. Len(s) : s[n] \in S
  OBVIOUS
<1>2. SubSeq(s, 1, i - 1) \in Seq(S) /\ SubSeq(s, i + 1, Len(s)) \in Seq(S)
  BY <1>1, SubSeqProperties
<1> QED BY <1>2 DEF RemoveAt

\* The first of a set of positions is one of them.
LEMMA FirstIsIn ==
  ASSUME NEW S, NEW s \in Seq(S), NEW T \in SUBSET DOMAIN s, T # {}
  PROVE  Min(T) \in DOMAIN s
<1>1. T \in SUBSET Nat
  OBVIOUS
<1> QED BY <1>1, MinIsLeast

\* A turn of the loop keeps the verdict, and the object an object.
LEMMA TurnKeeps ==
  ASSUME draft \in Presentation, Turn
  PROVE  draft' \in Presentation /\ draft'.verdict = draft.verdict
<1>1. CASE ContractSummary
  <2>1. PICK text \in SummarySource(draft) : draft' = [draft EXCEPT !.summary = text]
    BY <1>1 DEF ContractSummary
  <2>2. text \in Text
    BY <2>1, SourceIsText
  <2> QED BY <2>1, <2>2 DEF Presentation
<1>2. CASE ContractAdvice
  <2> DEFINE n == Min(TaintedAdvice(draft))
             advice == RemoveAt(draft.advice, n)
  <2>1. draft' = [draft EXCEPT !.advice = advice] /\ TaintedAdvice(draft) # {}
    BY <1>2 DEF ContractAdvice
  <2>2. draft.advice \in Seq(Text)
    BY DEF Presentation
  <2>3. TaintedAdvice(draft) \in SUBSET DOMAIN draft.advice
    BY DEF TaintedAdvice
  <2>4. n \in DOMAIN draft.advice
    BY <2>1, <2>2, <2>3, FirstIsIn
  <2> HIDE DEF n
  <2>5. advice \in Seq(Text)
    BY <2>2, <2>4, RemoveIsSeq
  <2> HIDE DEF advice
  <2> QED BY <2>1, <2>5 DEF Presentation
<1>3. CASE ContractFinding
  <2> DEFINE n == Min(TaintedFindings(draft))
             shorter == RemoveAt(draft.findings, n)
             plainer == [draft.findings EXCEPT ![n].body = draft.findings[n].head]
  <2>1. /\ TaintedFindings(draft) # {}
        /\ \/ draft' = [draft EXCEPT !.findings = plainer]
           \/ draft' = [draft EXCEPT !.findings = shorter]
    BY <1>3 DEF ContractFinding, Contracted
  <2>2. draft.findings \in Seq(Finding)
    BY DEF Presentation
  <2>3. TaintedFindings(draft) \in SUBSET DOMAIN draft.findings
    BY DEF TaintedFindings
  <2>4. n \in DOMAIN draft.findings
    BY <2>1, <2>2, <2>3, FirstIsIn
  <2> HIDE DEF n
  <2>5. shorter \in Seq(Finding)
    BY <2>2, <2>4, RemoveIsSeq
  <2>6. plainer \in Seq(Finding)
    <3> DEFINE f == draft.findings[n]
               g == [f EXCEPT !.body = f.head]
    <3>1. f \in Finding
      BY <2>2, <2>4
    <3>2. g \in Finding
      BY <3>1 DEF Finding
    <3>3. plainer = [draft.findings EXCEPT ![n] = g]
      OBVIOUS
    <3> HIDE DEF g, plainer
    <3> QED BY <2>2, <2>4, <3>2, <3>3
  <2> HIDE DEF shorter, plainer
  <2> QED BY <2>1, <2>5, <2>6 DEF Presentation
<1> QED BY <1>1, <1>2, <1>3 DEF Turn

\* What follows the removed element moves up by one.
LEMMA RemoveIsShift ==
  ASSUME NEW S, NEW s \in Seq(S), NEW m \in DOMAIN s
  PROVE  /\ DOMAIN RemoveAt(s, m) = 1 .. Len(s) - 1
         /\ \A k \in 1 .. Len(s) - 1 : RemoveAt(s, m)[k] = s[IF k < m THEN k ELSE k + 1]
<1>1. /\ Len(s) \in Nat /\ m \in 1 .. Len(s)
      /\ \A n \in 1 .. Len(s) : s[n] \in S
  OBVIOUS
<1> DEFINE a == SubSeq(s, 1, m - 1)
           b == SubSeq(s, m + 1, Len(s))
<1>2. /\ a \in Seq(S) /\ Len(a) = m - 1
      /\ \A k \in 1 .. m - 1 : a[k] = s[k]
  BY <1>1, SubSeqProperties
<1>3. /\ b \in Seq(S) /\ Len(b) = Len(s) - m
      /\ \A k \in 1 .. Len(s) - m : b[k] = s[m + k]
  BY <1>1, SubSeqProperties
<1>4. RemoveAt(s, m) = a \o b
  BY DEF RemoveAt
<1> HIDE DEF a, b
<1>5. /\ a \o b \in Seq(S) /\ Len(a \o b) = Len(s) - 1
      /\ \A k \in 1 .. Len(s) - 1 :
           (a \o b)[k] = IF k <= m - 1 THEN a[k] ELSE b[k - (m - 1)]
  BY <1>1, <1>2, <1>3
<1>6. ASSUME NEW k \in 1 .. Len(s) - 1
      PROVE  (a \o b)[k] = s[IF k < m THEN k ELSE k + 1]
  <2>1. CASE k < m
    BY <1>1, <1>2, <1>5, <2>1
  <2>2. CASE ~ (k < m)
    <3>1. k - (m - 1) \in 1 .. Len(s) - m /\ m + (k - (m - 1)) = k + 1
      BY <1>1, <2>2
    <3>2. (a \o b)[k] = b[k - (m - 1)]
      BY <1>1, <1>5, <2>2
    <3> QED BY <1>3, <2>2, <3>1, <3>2
  <2> QED BY <2>1, <2>2
<1> QED BY <1>4, <1>5, <1>6

\* The names of the findings the verdict rests on and the loop may not delete.
Standing(d) ==
  {d.findings[i].name : i \in {n \in Deciding(d) : ~ ContractedAway(d, n)}}

\* An object with the same verdict, checks and, up to their prose, findings, of
\* which no more are tainted, has the same findings standing.
LEMMA StandingStays ==
  ASSUME NEW d, NEW e, e.verdict = d.verdict, DOMAIN e.findings = DOMAIN d.findings,
         \A i \in DOMAIN d.findings :
            /\ e.findings[i].name = d.findings[i].name
            /\ e.findings[i].category = d.findings[i].category
            /\ e.findings[i].priority = d.findings[i].priority
            /\ e.findings[i].required = d.findings[i].required,
         TaintedFindings(e) \subseteq TaintedFindings(d)
  PROVE  Standing(d) \subseteq Standing(e)
<1>1. Deciding(e) = Deciding(d)
  <2> DEFINE carriers(x) == {i \in DOMAIN x.findings : Carries(x.verdict, x.findings[i])}
             critical(x) == {i \in carriers(x) : x.findings[i].priority = "P1"}
  <2>1. carriers(e) = carriers(d)
    BY DEF Carries, Substantive
  <2>2. critical(e) = critical(d)
    BY <2>1
  <2> HIDE DEF carriers
  <2>3. \A x : Deciding(x) = IF critical(x) # {} THEN critical(x)
                            ELSE {i \in carriers(x) : \A j \in carriers(x) : i <= j}
    BY DEF Deciding, carriers
  <2> HIDE DEF critical
  <2> QED BY <2>1, <2>2, <2>3
<1>2. TaintCarriers(e) = TaintCarriers(d)
  BY DEF TaintCarriers, Substantive
<1>3. \A i \in Deciding(d) : i \in DOMAIN d.findings
  BY DEF Deciding
<1>4. \A i \in Deciding(d) : ~ ContractedAway(d, i) => ~ ContractedAway(e, i)
  BY <1>2 DEF ContractedAway, OnlyCarrier
<1> QED BY <1>1, <1>3, <1>4 DEF Standing

\* Deleting a finding that may be deleted leaves every finding standing that stood.
LEMMA StandingSurvives ==
  ASSUME NEW d \in Presentation, NEW e, NEW m \in TaintedFindings(d), ~ OnlyCarrier(d, m),
         e = [d EXCEPT !.findings = RemoveAt(d.findings, m)]
  PROVE  Standing(d) \subseteq Standing(e)
<1> DEFINE s == d.findings
           t == e.findings
           to(i) == IF i < m THEN i ELSE i - 1
           was(k) == IF k < m THEN k ELSE k + 1
<1>1. /\ s \in Seq(Finding) /\ m \in DOMAIN s /\ Len(s) \in Nat /\ m \in 1 .. Len(s)
      /\ DOMAIN s = 1 .. Len(s)
  BY DEF Presentation, TaintedFindings
<1>2. e.findings = RemoveAt(s, m) /\ e.verdict = d.verdict /\ e.checks = d.checks
  BY DEF Presentation
<1>3. DOMAIN t = 1 .. Len(s) - 1 /\ \A k \in DOMAIN t : t[k] = s[was(k)]
  BY <1>1, <1>2, RemoveIsShift
<1> HIDE DEF s, t
<1>4. \A i \in DOMAIN s \ {m} : to(i) \in DOMAIN t /\ t[to(i)] = s[i] /\ was(to(i)) = i
  BY <1>1, <1>3
<1>5. \A k \in DOMAIN t : was(k) \in DOMAIN s \ {m} /\ to(was(k)) = k /\ t[k] = s[was(k)]
  BY <1>1, <1>3
<1>6. \A i, j \in DOMAIN s \ {m} : i <= j => to(i) <= to(j)
  BY <1>1
<1> HIDE DEF to, was
<1>7. CheckCI(e) = CheckCI(d)
  BY <1>2 DEF CheckCI
<1>8. ASSUME NEW i \in Deciding(d), ~ ContractedAway(d, i)
      PROVE  /\ i \in DOMAIN s \ {m} /\ to(i) \in Deciding(e) /\ ~ ContractedAway(e, to(i))
             /\ t[to(i)].name = s[i].name
  <2> DEFINE Carrier(f) == Carries(d.verdict, f)
             critD == {j \in DOMAIN s : Carrier(s[j]) /\ s[j].priority = "P1"}
             critE == {k \in DOMAIN t : Carrier(t[k]) /\ t[k].priority = "P1"}
  <2>1. i \in DOMAIN s \ {m} /\ Carrier(s[i])
    BY <1>8 DEF Deciding, ContractedAway, s
  <2>2. /\ Deciding(d) = IF critD # {} THEN critD
                         ELSE {j \in DOMAIN s : /\ Carrier(s[j])
                                                /\ \A l \in DOMAIN s : Carrier(s[l]) => j <= l}
        /\ Deciding(e) = IF critE # {} THEN critE
                         ELSE {j \in DOMAIN t : /\ Carrier(t[j])
                                                /\ \A l \in DOMAIN t : Carrier(t[l]) => j <= l}
    BY <1>2 DEF Deciding, s, t
  <2>3. to(i) \in Deciding(e)
    <3>1. CASE critD # {}
      BY <1>4, <1>8, <2>1, <2>2, <3>1
    <3>2. CASE critD = {}
      <4>1. critE = {}
        BY <1>5, <3>2
      <4>2. \A l \in DOMAIN t : Carrier(t[l]) => to(i) <= l
        <5>1. ASSUME NEW l \in DOMAIN t, Carrier(t[l]) PROVE to(i) <= l
          <6>1. was(l) \in DOMAIN s \ {m} /\ Carrier(s[was(l)])
            BY <1>5, <5>1
          <6>2. i <= was(l)
            BY <1>8, <2>2, <3>2, <6>1
          <6> QED BY <1>5, <1>6, <2>1, <6>1, <6>2
        <5> QED BY <5>1
      <4> QED BY <1>4, <2>1, <2>2, <4>1, <4>2
    <3> QED BY <3>1, <3>2
  <2>4. CASE i \notin TaintedFindings(d)
    <3>1. to(i) \notin TaintedFindings(e)
      BY <1>4, <1>7, <2>1, <2>4 DEF TaintedFindings, s, t
    <3> QED BY <1>4, <2>1, <2>3, <3>1 DEF ContractedAway
  <2>5. CASE OnlyCarrier(d, i)
    <3>1. TaintCarriers(d) = {i} /\ d.verdict = "blocking"
      BY <2>5 DEF OnlyCarrier
    <3>2. TaintCarriers(e) = {to(i)}
      BY <1>4, <1>5, <2>1, <3>1 DEF TaintCarriers, s, t
    <3> QED BY <1>2, <1>4, <2>1, <2>3, <3>1, <3>2 DEF ContractedAway, OnlyCarrier
  <2> QED BY <1>8, <2>4, <2>5 DEF ContractedAway
<1>9. \A i \in Deciding(d) : ~ ContractedAway(d, i) => s[i].name \in Standing(e)
  BY <1>8 DEF Standing, t
<1> QED BY <1>9 DEF Standing, s

\* A turn of the loop leaves every finding standing that stood.
LEMMA TurnKeepsStanding ==
  ASSUME draft \in Presentation, Turn
  PROVE  Standing(draft) \subseteq Standing(draft')
<1>1. CASE ContractSummary \/ ContractAdvice
  <2>1. /\ draft'.verdict = draft.verdict /\ draft'.findings = draft.findings
        /\ draft'.checks = draft.checks
    BY <1>1 DEF ContractSummary, ContractAdvice, Presentation
  <2>2. TaintedFindings(draft') = TaintedFindings(draft)
    BY <2>1 DEF TaintedFindings, CheckCI
  <2> QED BY <2>1, <2>2, StandingStays
<1>2. CASE ContractFinding
  <2> DEFINE n == Min(TaintedFindings(draft))
             f == draft.findings[n]
  <2>1. TaintedFindings(draft) \in SUBSET DOMAIN draft.findings
    BY DEF TaintedFindings
  <2>2. draft.findings \in Seq(Finding)
    BY DEF Presentation
  <2>3. n \in TaintedFindings(draft)
    <3>1. TaintedFindings(draft) \in SUBSET Nat /\ TaintedFindings(draft) # {}
      BY <1>2, <2>1, <2>2 DEF ContractFinding
    <3> QED BY <3>1, MinIsLeast
  <2>4. /\ draft' = Contracted(draft, n)
        /\ OnlyCarrier(draft, n) => BodyOnly(draft, n)
    BY <1>2 DEF ContractFinding
  <2> HIDE DEF n
  <2>5. CASE OnlyCarrier(draft, n)
    <3> DEFINE g == [f EXCEPT !.body = f.head]
    <3>1. f \in Finding /\ n \in DOMAIN draft.findings
      BY <2>1, <2>2, <2>3
    <3>2. /\ g.name = f.name /\ g.category = f.category /\ g.priority = f.priority
          /\ g.required = f.required /\ Prose(g) = f.head \cup f.ask
      BY <3>1 DEF Finding, Prose
    <3>3. draft' = [draft EXCEPT !.findings = [draft.findings EXCEPT ![n] = g]]
      BY <2>4, <2>5 DEF Contracted
    <3> HIDE DEF f, g
    <3>4. /\ draft'.verdict = draft.verdict /\ draft'.checks = draft.checks
          /\ draft'.findings = [draft.findings EXCEPT ![n] = g]
      BY <3>3 DEF Presentation
    <3>5. /\ DOMAIN draft'.findings = DOMAIN draft.findings
          /\ \A i \in DOMAIN draft.findings :
               draft'.findings[i] = IF i = n THEN g ELSE draft.findings[i]
      BY <2>2, <3>1, <3>4
    <3>6. CheckCI(draft') = CheckCI(draft)
      BY <3>4 DEF CheckCI
    <3>7. TaintedFindings(draft') \subseteq TaintedFindings(draft)
      BY <2>3, <3>5, <3>6 DEF TaintedFindings
    <3> QED BY <3>2, <3>4, <3>5, <3>7, StandingStays DEF f
  <2>6. CASE ~ OnlyCarrier(draft, n)
    <3>1. draft' = [draft EXCEPT !.findings = RemoveAt(draft.findings, n)]
      BY <2>4, <2>6 DEF Contracted
    <3> QED BY <2>3, <2>6, <3>1, StandingSurvives
  <2> QED BY <2>5, <2>6
<1> QED BY <1>1, <1>2 DEF Turn

\* What stands in the answer and, at the end of the loop, in a draft none of
\* whose deciding findings is lost, is not lost.
LEMMA StandingIsHeld ==
  ASSUME NEW d, NEW e, NEW r, Standing(d) \subseteq Standing(e), Decided(e, r)
  PROVE  \A i \in Deciding(d) : Holds(r, d.findings[i]) \/ ContractedAway(d, i)
<1> SUFFICES ASSUME NEW i \in Deciding(d), ~ ContractedAway(d, i)
             PROVE  Holds(r, d.findings[i])
  OBVIOUS
<1>1. d.findings[i].name \in Standing(e)
  BY DEF Standing
<1>2. PICK k \in Deciding(e) : e.findings[k].name = d.findings[i].name
  BY <1>1 DEF Standing
<1> QED BY <1>2 DEF Decided, Holds

-----------------------------------------------------------------------------
(* What the judgement of a compilation rests on.                            *)

\* The validator refuses what the compiler passed only for a disputed finding.
LEMMA RefusedIsDisputed ==
  ASSUME NEW c \in Context, NEW d \in Presentation,
         Compile(c, d).kind = "public_projection_failure"
  PROVE  \E i \in DOMAIN d.findings : Disputed(d.verdict, d.findings[i])
<1>1. PICK n \in 1 .. 11 :
        /\ Judged(c, d)[n].kind = "public_projection_failure"
        /\ Judged(c, d)[n].if
        /\ \A m \in 1 .. 11 : Judged(c, d)[m].if => n <= m
  BY KindIs
<1>2. n = 11
  BY <1>1 DEF Judged, Failures
<1>3. ~ Judged(c, d)[9].if /\ ~ Judged(c, d)[10].if /\ Judged(c, d)[11].if
  BY <1>1, <1>2
<1>4. /\ ~ (d.verdict = "blocking" /\ Blocking(d.verdict, Left(c, d).findings) = {})
      /\ ~ (d.verdict = "verification_needed" /\ Left(c, d).unknowns = <<>>)
      /\ ~ ContractAccepts(Left(c, d))
  BY <1>3 DEF Judged, Failures
<1> QED BY <1>4, LeftIsAccepted

\* The number of findings a repair must reach.
LEMMA FloorIsNat ==
  ASSUME NEW c \in Context, NEW d \in Presentation
  PROVE  /\ Len(Compile(c, d).review.findings) \in Nat
         /\ Cardinality(Compile(c, d).lost) \in Nat
<1>1. Compile(c, d).review.findings \in Seq(Finding)
  BY CompileKeeps DEF Presentation
<1>2. DOMAIN d.findings = 1 .. Len(d.findings) /\ Len(d.findings) \in Nat
  BY DEF Presentation
<1>3. Compile(c, d).lost \subseteq 1 .. Len(d.findings)
  BY <1>2, CompiledFrom DEF Result, Lost, Deciding
<1>4. IsFiniteSet(1 .. Len(d.findings))
  BY <1>2, FS_Interval
<1>5. IsFiniteSet(Compile(c, d).lost)
  BY <1>3, <1>4, FS_Subset
<1> QED BY <1>1, <1>5, FS_CardinalityType

\* The placeholder for no review is not a presentation.
LEMMA NothingIsNoReview == Nothing \notin Presentation
  BY DEF Nothing, Presentation

-----------------------------------------------------------------------------
(* The inductive invariant.                                                 *)

\* The verdict is the one the Final call's answer gave, if that was readable.
Faithful(d) == posture # "none" => d.verdict = posture

\* Only a refresh has newer CI than the model saw.
Refreshing == stage = "contract" /\ pass = "refresh"

\* The object being compiled is one, with the model's verdict; a repaired one
\* is compared only when it is judged.
DraftInv ==
  stage = "contract" =>
    draft \in Presentation /\ (pass # "repair" => Faithful(draft))

\* Until the model's own answer is judged, the loop has deleted from it only
\* what it may.
AnswerInv ==
  stage = "contract" /\ pass # "refresh" => Standing(answer) \subseteq Standing(draft)

\* A review that is held is faithful, coherent and whole.
ReviewInv ==
  /\ stage \in {"deep", "before_final", "final"} => review = Nothing
  /\ review # Nothing => Faithful(review) /\ Coherent(review)
  /\ stage = "generated" =>
       Decided(draft, review) /\ Standing(answer) \subseteq Standing(draft)

\* Nothing has changed before the refresh; what is published is current.
CurrencyInv ==
  /\ stage # "ended" /\ ~ Refreshing => ctx.changed = {}
  /\ Published => Current(review, ctx.changed)

\* A failed projection ends the review at once, and leaves the object it was
\* about where it is.
RefusalInv ==
  /\ stage # "ended" => kind # "public_projection_failure"
  /\ ValidatorsAgree

\* The inductive invariant.
GenerationInv ==
  GenerationTypeOK /\ DraftInv /\ AnswerInv /\ ReviewInv /\ CurrencyInv /\ RefusalInv

\* At the start nothing is drafted, held or changed.
LEMMA GenerationInit == Init => GenerationInv
<1> SUFFICES ASSUME Init PROVE GenerationInv
  OBVIOUS
<1>1. Shown0 \in Context /\ Shown0.changed = {} /\ Refs \ Shown0.known = {}
  BY DEF Shown0, Context
<1>2. GenerationTypeOK
  BY <1>1 DEF Init, GenerationTypeOK, Stages, Passes, Outcomes, Kinds, NotTruth, Published
<1>3. DraftInv /\ AnswerInv /\ ReviewInv /\ CurrencyInv
  BY <1>1 DEF Init, DraftInv, AnswerInv, ReviewInv, CurrencyInv, Published
<1>4. RefusalInv
  BY DEF Init, RefusalInv, ValidatorsAgree
<1> QED BY <1>2, <1>3, <1>4 DEF GenerationInv

\* What a step that leaves the review and the catalog alone, and ends nothing
\* in publication, has to keep.
LEMMA HoldingStill ==
  ASSUME GenerationInv, GenerationTypeOK', DraftInv', AnswerInv', RefusalInv',
         UNCHANGED <<review, ctx>>, posture' = posture \/ review = Nothing,
         stage # "ended", stage' # "generated", outcome' # "publish",
         stage' \in {"before_final", "final"} => review = Nothing, stage' # "deep",
         ~ Refreshing
  PROVE  GenerationInv'
<1>1. ReviewInv'
  BY DEF GenerationInv, ReviewInv, Faithful
<1>2. CurrencyInv'
  BY DEF GenerationInv, CurrencyInv, Published
<1> QED BY <1>1, <1>2 DEF GenerationInv

\* The turns of the contraction loop.
LEMMA TurnPreserves ==
  ASSUME GenerationInv, Turn
  PROVE  GenerationInv'
<1>1. /\ stage = "contract"
      /\ UNCHANGED <<stage, pass, whole, posture, answer, floor, ctx, kind, review, outcome>>
  BY DEF Turn, ContractSummary, ContractAdvice, ContractFinding, Contracting
<1>2. draft' \in Presentation /\ draft'.verdict = draft.verdict
  BY <1>1, TurnKeeps DEF GenerationInv, DraftInv
<1>3. GenerationTypeOK'
  BY <1>1, <1>2 DEF GenerationInv, GenerationTypeOK, Published
<1>8. Standing(draft) \subseteq Standing(draft')
  BY <1>1, TurnKeepsStanding DEF GenerationInv, DraftInv
<1>9. AnswerInv'
  BY <1>1, <1>8 DEF GenerationInv, AnswerInv
<1>4. DraftInv'
  BY <1>1, <1>2 DEF GenerationInv, DraftInv, Faithful
<1>5. ReviewInv'
  BY <1>1 DEF GenerationInv, ReviewInv, Faithful
<1>6. CurrencyInv'
  BY <1>1 DEF GenerationInv, CurrencyInv, Refreshing, Published
<1>7. RefusalInv'
  BY <1>1 DEF GenerationInv, RefusalInv, ValidatorsAgree
<1> QED BY <1>3, <1>4, <1>5, <1>6, <1>7, <1>9 DEF GenerationInv

\* The calls and what becomes of the pull request.
LEMMA CallsPreserve ==
  ASSUME GenerationInv,
         \/ DeepFails \/ DeepAnswers \/ PRHasMoved \/ PRIsCurrent
         \/ FinalAnswers \/ RepairAnswers \/ CallFails \/ CallPropagates
  PROVE  GenerationInv'
<1>1. CASE DeepFails \/ PRHasMoved \/ CallFails \/ CallPropagates
  <2>1. /\ stage \in {"deep", "before_final", "final", "before_repair", "repair"}
        /\ stage' = "ended" /\ outcome' \in {"failed", "stopped"}
        /\ UNCHANGED <<pass, whole, posture, answer, draft, floor, ctx, kind, review>>
    BY <1>1 DEF DeepFails, PRHasMoved, CallFails, CallPropagates, End
  <2>2. GenerationTypeOK'
    BY <2>1 DEF GenerationInv, GenerationTypeOK, Stages, Outcomes, Published
  <2>3. DraftInv' /\ AnswerInv' /\ RefusalInv'
    BY <2>1 DEF GenerationInv, DraftInv, AnswerInv, RefusalInv, ValidatorsAgree
  <2> QED BY <2>1, <2>2, <2>3, HoldingStill DEF Refreshing
<1>2. CASE DeepAnswers \/ PRIsCurrent
  <2>1. /\ \/ stage \in {"deep", "before_final"} /\ stage' \in {"before_final", "final"}
           \/ stage = "before_repair" /\ stage' = "repair"
        /\ UNCHANGED <<pass, whole, posture, answer, draft, floor, ctx, kind, review, outcome>>
    BY <1>2 DEF DeepAnswers, PRIsCurrent
  <2>2. GenerationTypeOK' /\ outcome' # "publish"
    BY <2>1 DEF GenerationInv, GenerationTypeOK, Stages, Outcomes, Published
  <2>3. DraftInv' /\ AnswerInv' /\ RefusalInv'
    BY <2>1 DEF GenerationInv, DraftInv, AnswerInv, RefusalInv, ValidatorsAgree
  <2>4. stage \in {"deep", "before_final"} => review = Nothing
    BY DEF GenerationInv, ReviewInv
  <2> QED BY <2>1, <2>2, <2>3, <2>4, HoldingStill DEF Refreshing
<1>3. CASE FinalAnswers
  <2>1. PICK d \in Answers :
          answer' = d /\ draft' = d /\ posture' = IF Readable(d) THEN d.verdict ELSE "none"
    BY <1>3 DEF FinalAnswers
  <2>2. d \in Presentation /\ d.verdict \in Verdicts
    BY AnswersAssumption DEF Presentation
  <2>3. /\ stage = "final" /\ stage' = "contract" /\ pass' = "final" /\ whole' \in BOOLEAN
        /\ UNCHANGED <<floor, ctx, kind, review, outcome>>
    BY <1>3 DEF FinalAnswers
  <2>4. review = Nothing
    BY <2>3 DEF GenerationInv, ReviewInv
  <2>5. GenerationTypeOK' /\ outcome' # "publish"
    <3>1. posture' \in Verdicts \cup {"none"}
      BY <2>1, <2>2
    <3> QED BY <2>1, <2>2, <2>3, <3>1 DEF GenerationInv, GenerationTypeOK, Stages, Passes, Published
  <2>6. DraftInv' /\ AnswerInv'
    BY <2>1, <2>2, <2>3 DEF DraftInv, AnswerInv, Faithful
  <2>7. RefusalInv'
    BY <2>3 DEF GenerationInv, RefusalInv, ValidatorsAgree
  <2> QED BY <2>3, <2>4, <2>5, <2>6, <2>7, HoldingStill DEF Refreshing
<1>4. CASE RepairAnswers
  <2>1. /\ stage = "repair" /\ stage' = "contract" /\ pass' = "repair" /\ draft' \in Corrections
        /\ UNCHANGED <<whole, posture, floor, ctx, kind, review, outcome>>
        /\ answer' = draft'
    BY <1>4 DEF RepairAnswers
  <2>2. draft' \in Presentation
    BY <2>1, AnswersAssumption
  <2>3. GenerationTypeOK' /\ outcome' # "publish"
    BY <2>1, <2>2 DEF GenerationInv, GenerationTypeOK, Stages, Passes, Published
  <2>4. DraftInv' /\ AnswerInv' /\ RefusalInv'
    BY <2>1, <2>2 DEF GenerationInv, DraftInv, AnswerInv, RefusalInv, ValidatorsAgree
  <2> QED BY <2>1, <2>3, <2>4, HoldingStill DEF Refreshing
<1> QED BY <1>1, <1>2, <1>3, <1>4

\* The judgement of the Final call's answer and of its repair.
LEMMA JudgingPreserves ==
  ASSUME GenerationInv, JudgeFinal \/ JudgeRepair
  PROVE  GenerationInv'
<1> DEFINE compiled == Compile(ctx, draft)
<1>1. /\ stage = "contract" /\ pass # "refresh" /\ ctx.changed = {} /\ outcome = "none"
      /\ draft \in Presentation /\ ctx \in Context
      /\ UNCHANGED <<pass, whole, posture, answer, draft, ctx>> /\ kind' = compiled.kind
  BY DEF GenerationInv, GenerationTypeOK, DraftInv, CurrencyInv, Refreshing,
         JudgeFinal, JudgeRepair, FinalVerdict, RepairVerdict, Ready
<1>2. /\ compiled.review \in Presentation /\ compiled.review.verdict = draft.verdict
      /\ compiled.kind \in Kinds
      /\ compiled.publishable => compiled.kind = "none"
  BY <1>1, CompileKeeps, KindIsAKind, KindIs
<1>3. Len(compiled.review.findings) + Cardinality(compiled.lost) \in Nat
  BY <1>1, FloorIsNat
<1>4. /\ floor' \in Nat
      /\ \/ Hold(compiled.review) /\ Clean(compiled) /\ Faithful(compiled.review)
         \/ /\ review' = review
            /\ \/ End("failed")
               \/ stage' = "before_repair" /\ outcome' = outcome /\ Repairable(compiled)
  <2>1. CASE JudgeFinal
    <3>1. Faithful(compiled.review)
      BY <1>1, <1>2, <2>1 DEF GenerationInv, DraftInv, JudgeFinal, Faithful
    <3> HIDE DEF compiled
    <3>2. FinalVerdict(compiled) /\ floor \in Nat
      BY <2>1 DEF JudgeFinal, GenerationInv, GenerationTypeOK, compiled
    <3> QED BY <1>3, <3>1, <3>2 DEF FinalVerdict
  <2>2. CASE JudgeRepair
    BY <2>2 DEF JudgeRepair, RepairVerdict, RepairAccepted, Faithful, GenerationInv, GenerationTypeOK
  <2> QED BY <2>1, <2>2
<1>5. CASE Hold(compiled.review) /\ Clean(compiled) /\ Faithful(compiled.review)
  <2>1. Coherent(compiled.review) /\ Decided(draft, compiled.review)
    BY <1>1, <1>5, PublishableIsSound, CleanIsDecided DEF Clean
  <2>2. /\ stage' = "generated" /\ review' = compiled.review /\ outcome' = "none"
        /\ kind' = "none"
    BY <1>1, <1>2, <1>5 DEF Hold, Clean
  <2>3. compiled.review # Nothing
    BY <1>2, NothingIsNoReview
  <2> HIDE DEF compiled
  <2>4. GenerationTypeOK'
    BY <1>1, <1>2, <1>4, <2>2, <2>3
       DEF GenerationInv, GenerationTypeOK, Stages, Published, Kinds, NotTruth, Outcomes
  <2>5. ReviewInv'
    BY <1>1, <1>5, <2>1, <2>2 DEF GenerationInv, AnswerInv, ReviewInv, Faithful
  <2>6. DraftInv' /\ AnswerInv' /\ CurrencyInv' /\ RefusalInv'
    BY <1>1, <2>2 DEF DraftInv, AnswerInv, CurrencyInv, RefusalInv, ValidatorsAgree, Published
  <2> QED BY <2>4, <2>5, <2>6 DEF GenerationInv
<1>6. CASE /\ review' = review
           /\ \/ End("failed")
              \/ stage' = "before_repair" /\ outcome' = outcome /\ Repairable(compiled)
  <2>1. \/ stage' = "ended" /\ outcome' = "failed"
        \/ stage' = "before_repair" /\ outcome' = "none" /\ Repairable(compiled)
    BY <1>1, <1>6 DEF End
  <2>2. kind' = "public_projection_failure" =>
          /\ stage' = "ended"
          /\ \E i \in DOMAIN draft.findings : Disputed(draft.verdict, draft.findings[i])
    <3>1. Repairable(compiled) => compiled.kind # "public_projection_failure"
      BY <1>2 DEF Repairable
    <3> QED BY <1>1, <2>1, <3>1, RefusedIsDisputed
  <2> HIDE DEF compiled
  <2>3. GenerationTypeOK'
    BY <1>1, <1>2, <1>4, <1>6, <2>1 DEF GenerationInv, GenerationTypeOK, Stages, Published, Outcomes
  <2>4. DraftInv' /\ AnswerInv'
    BY <2>1 DEF DraftInv, AnswerInv
  <2>5. RefusalInv'
    BY <1>1, <2>2 DEF RefusalInv, ValidatorsAgree
  <2> QED BY <1>1, <1>6, <2>1, <2>3, <2>4, <2>5, HoldingStill DEF Refreshing
<1> QED BY <1>4, <1>5, <1>6

\* The CI state at publication and the judgement of the recompilation.
LEMMA PublicationPreserves ==
  ASSUME GenerationInv,
         RefreshIsImpossible \/ NothingChanged \/ CIChanged \/ JudgeRefresh
  PROVE  GenerationInv'
<1>1. CASE RefreshIsImpossible
  <2>1. /\ stage = "generated" /\ stage' = "ended" /\ outcome' = "stopped"
        /\ UNCHANGED <<pass, whole, posture, answer, draft, floor, ctx, kind, review>>
    BY <1>1 DEF RefreshIsImpossible, End
  <2>2. GenerationTypeOK'
    BY <2>1 DEF GenerationInv, GenerationTypeOK, Stages, Outcomes, Published
  <2>3. DraftInv' /\ AnswerInv' /\ RefusalInv'
    BY <2>1 DEF GenerationInv, DraftInv, AnswerInv, RefusalInv, ValidatorsAgree
  <2> QED BY <2>1, <2>2, <2>3, HoldingStill DEF Refreshing
<1>2. CASE NothingChanged
  <2>1. /\ stage = "generated" /\ stage' = "ended" /\ outcome' = "publish"
        /\ UNCHANGED <<pass, whole, posture, answer, draft, floor, ctx, kind, review>>
    BY <1>2 DEF NothingChanged, End
  <2>2. GenerationTypeOK'
    BY <2>1 DEF GenerationInv, GenerationTypeOK, Stages, Outcomes, Published
  <2>3. ctx.changed = {}
    BY <2>1 DEF GenerationInv, CurrencyInv, Refreshing
  <2>4. Current(review, ctx.changed)
    BY <2>3 DEF Current, Repeats
  <2>5. CurrencyInv' /\ DraftInv' /\ AnswerInv'
    BY <2>1, <2>4 DEF CurrencyInv, DraftInv, AnswerInv
  <2>6. ReviewInv' /\ RefusalInv'
    BY <2>1 DEF GenerationInv, ReviewInv, Faithful, RefusalInv, ValidatorsAgree
  <2> QED BY <2>2, <2>5, <2>6 DEF GenerationInv
<1>3. CASE CIChanged
  <2>1. PICK changed \in SUBSET CI : \E gone \in SUBSET changed :
          ctx' = [known |-> Refs \ gone, changed |-> changed]
    BY <1>3 DEF CIChanged
  <2>2. /\ stage = "generated" /\ stage' = "contract" /\ pass' = "refresh" /\ draft' = review
        /\ UNCHANGED <<whole, posture, answer, floor, kind, review, outcome>>
    BY <1>3 DEF CIChanged
  <2>3. /\ review \in Presentation /\ Faithful(review) /\ Coherent(review)
        /\ outcome = "none"
    BY <2>2 DEF GenerationInv, GenerationTypeOK, ReviewInv
  <2>4. ctx' \in Context /\ Refs \ ctx'.known \subseteq ctx'.changed
    BY <2>1 DEF Context, CI
  <2>5. GenerationTypeOK'
    BY <2>2, <2>3, <2>4 DEF GenerationInv, GenerationTypeOK, Stages, Passes, Published
  <2>6. DraftInv' /\ AnswerInv' /\ ReviewInv' /\ CurrencyInv'
    BY <2>2, <2>3 DEF DraftInv, AnswerInv, ReviewInv, CurrencyInv, Refreshing, Faithful, Published
  <2>7. RefusalInv'
    BY <2>2 DEF GenerationInv, RefusalInv, ValidatorsAgree
  <2> QED BY <2>5, <2>6, <2>7 DEF GenerationInv
<1>4. CASE JudgeRefresh
  <2> DEFINE compiled == Compile(ctx, draft)
  <2>1. /\ stage = "contract" /\ pass = "refresh" /\ ctx \in Context
        /\ draft \in Presentation /\ Faithful(draft)
        /\ stage' = "ended" /\ UNCHANGED <<pass, whole, posture, answer, draft, floor, ctx>>
        /\ kind' = compiled.kind
    BY <1>4 DEF JudgeRefresh, RefreshVerdict, Ready, GenerationInv, GenerationTypeOK,
                DraftInv, End
  <2>2. /\ compiled.review \in Presentation /\ compiled.review.verdict = draft.verdict
        /\ compiled.kind \in Kinds
    BY <2>1, CompileKeeps, KindIsAKind
  <2>3. DraftInv' /\ AnswerInv'
    BY <2>1 DEF DraftInv, AnswerInv
  <2>4. RefusalInv'
    <3>1. kind' = "public_projection_failure" =>
            \E i \in DOMAIN draft.findings : Disputed(draft.verdict, draft.findings[i])
      BY <2>1, RefusedIsDisputed
    <3> QED BY <2>1, <3>1 DEF RefusalInv, ValidatorsAgree
  <2>5. CASE compiled.publishable
    <3>1. Coherent(compiled.review) /\ Current(compiled.review, ctx.changed)
      BY <2>1, <2>5, PublishableIsSound
    <3>2. review' = compiled.review /\ outcome' = "publish"
      BY <1>4, <2>5 DEF JudgeRefresh, RefreshVerdict, End
    <3>3. compiled.review # Nothing
      BY <2>2, NothingIsNoReview
    <3> HIDE DEF compiled
    <3>4. GenerationTypeOK'
      BY <2>1, <2>2, <3>2, <3>3 DEF GenerationInv, GenerationTypeOK, Stages, Outcomes, Published
    <3>5. ReviewInv' /\ CurrencyInv'
      BY <2>1, <2>2, <3>1, <3>2 DEF ReviewInv, CurrencyInv, Faithful
    <3> QED BY <2>3, <2>4, <3>4, <3>5 DEF GenerationInv
  <2>6. CASE ~ compiled.publishable
    <3>1. review' = review /\ outcome' \in {"retry", "failed"}
      BY <1>4, <2>6 DEF JudgeRefresh, RefreshVerdict, End
    <3> HIDE DEF compiled
    <3>2. GenerationTypeOK'
      BY <2>1, <2>2, <3>1 DEF GenerationInv, GenerationTypeOK, Stages, Outcomes, Published
    <3>3. ReviewInv' /\ CurrencyInv'
      BY <2>1, <3>1 DEF GenerationInv, ReviewInv, CurrencyInv, Faithful, Published
    <3> QED BY <2>3, <2>4, <3>2, <3>3 DEF GenerationInv
  <2> QED BY <2>5, <2>6
<1> QED BY <1>1, <1>2, <1>3, <1>4

\* Every step.
LEMMA GenerationStep == GenerationInv /\ [Next]_vars => GenerationInv'
<1>1. ASSUME GenerationInv, Next
      PROVE  GenerationInv'
  BY <1>1, TurnPreserves, CallsPreserve, JudgingPreserves, PublicationPreserves DEF Next
<1>2. ASSUME GenerationInv, UNCHANGED vars
      PROVE  GenerationInv'
  <2> USE <1>2 DEF vars
  <2>1. GenerationTypeOK'
    BY DEF GenerationInv, GenerationTypeOK, Published
  <2>2. DraftInv' /\ AnswerInv' /\ ReviewInv' /\ CurrencyInv'
    BY DEF GenerationInv, DraftInv, AnswerInv, ReviewInv, CurrencyInv, Refreshing, Faithful, Published
  <2>3. RefusalInv'
    BY DEF GenerationInv, RefusalInv, ValidatorsAgree
  <2> QED BY <2>1, <2>2, <2>3 DEF GenerationInv
<1> QED BY <1>1, <1>2

\* The compiler and what is done with its result keep the parts of the
\* invariant together.
THEOREM GenerationInductive == Spec => []GenerationInv
  BY GenerationInit, GenerationStep, PTL DEF Spec

-----------------------------------------------------------------------------
(* The theorems.                                                            *)

\* Every variable keeps to its kind: in particular what is compiled, contracted
\* turn by turn and held is always a whole presentation.
THEOREM GenerationTypes == Spec => []GenerationTypeOK
<1>1. GenerationInv => GenerationTypeOK
  BY DEF GenerationInv
<1> QED BY GenerationInductive, <1>1, PTL

\* The posture of a review that is held is the one the model's answer gave:
\* neither projection nor repair nor the CI refresh writes a verdict.
THEOREM VerdictIsTheModels == Spec => []PostureIsTheModels
<1>1. GenerationInv => PostureIsTheModels
  BY DEF GenerationInv, ReviewInv, PostureIsTheModels, Faithful
<1> QED BY GenerationInductive, <1>1, PTL

\* A review that is held is coherent: no critical finding beside a verdict that
\* does not block, no blocking or verification verdict with nothing to stand on.
THEOREM HeldReviewsAreCoherent == Spec => []PostureMatchesItems
<1>1. GenerationInv => PostureMatchesItems
  BY DEF GenerationInv, ReviewInv, PostureMatchesItems, Coherent
<1> QED BY GenerationInductive, <1>1, PTL

\* A review that leaves the model calls still has, by name, every finding its
\* verdict rested on in the model's own answer that contraction may not delete,
\* however many turns the loop took, and every one that decides in what it left.
THEOREM NoDecidingFindingIsLost == Spec => []NoDecidingLoss
<1>1. GenerationInv => NoDecidingLoss
  <2>1. ASSUME GenerationInv, stage = "generated"
        PROVE  Decided(draft, review) /\ Standing(answer) \subseteq Standing(draft)
    BY <2>1 DEF GenerationInv, ReviewInv
  <2> QED BY <2>1, StandingIsHeld DEF NoDecidingLoss, Decided
<1> QED BY GenerationInductive, <1>1, PTL

\* A published review cites no CI check that changed after the model saw it,
\* and its first screen and findings repeat none.
THEOREM NothingStale == Spec => []NothingStaleIsPublished
<1>1. GenerationInv => NothingStaleIsPublished
  BY DEF GenerationInv, CurrencyInv, NothingStaleIsPublished, ProseIsCurrent, Current
<1> QED BY GenerationInductive, <1>1, PTL

\* The strict validator refuses what the compiler passed for one of the three
\* disputed kinds of finding only, in every catalog and for every answer.
THEOREM ValidatorsAlwaysAgree == Spec => []ValidatorsAgree
<1>1. GenerationInv => ValidatorsAgree
  BY DEF GenerationInv, RefusalInv
<1> QED BY GenerationInductive, <1>1, PTL
=============================================================================
