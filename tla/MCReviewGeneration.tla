------------------------- MODULE MCReviewGeneration -------------------------
(***************************************************************************)
(* A changed file p, an unchanged one q, two CI checks: ci1 failed with a  *)
(* diagnostic, ci2 without one.  Answers have at most two findings, drawn  *)
(* from kinds that meet each rule of the compiler.                         *)
(***************************************************************************)
EXTENDS ReviewGeneration

Entry(s, c, p, h, d) ==
  [source |-> s, coverage |-> c, path |-> p, hit |-> h, exact |-> TRUE, diagnosed |-> d]

MCCatalog ==
  [diff  |-> Entry("diff", "changed_region", "p", TRUE, FALSE),
   slice |-> Entry("pfr", "file_slice", "q", TRUE, FALSE),
   miss  |-> Entry("pfr", "full_file", "p", FALSE, FALSE),
   ci1   |-> Entry("ci", "non_repository", "none", TRUE, TRUE),
   ci2   |-> Entry("ci", "non_repository", "none", TRUE, FALSE)]

MCRestorable == [dif |-> "diff"]

Plain ==
  [name |-> "plain", form |-> "ok", priority |-> "P1", category |-> "defect",
   action |-> "fix", path |-> "p", snippet |-> "post", placement |-> "inline",
   rep |-> "semantic", required |-> {"diff"}, supporting |-> {},
   head |-> {}, body |-> {}, ask |-> {}]

Weak == [Plain EXCEPT !.priority = "P2", !.placement = "headline"]

Policy ==
  [Plain EXCEPT !.name = "policy", !.path = "none", !.snippet = "none",
                !.placement = "headline", !.required = {"ci1"}, !.head = {"ci1"}]

Findings ==
  { Plain,
    Policy,
    [Policy EXCEPT !.name = "asks", !.head = {}, !.ask = {"ci1"}],
    [Policy EXCEPT !.name = "asksP2", !.priority = "P2", !.head = {}, !.ask = {"ci1"}],
    [Plain EXCEPT !.name = "byCI", !.required = {"diff", "ci1"}],
    [Plain EXCEPT !.name = "dead", !.required = {"diff", "miss"}],
    [Plain EXCEPT !.name = "typo", !.required = {"dif", "ghost"}],
    [Plain EXCEPT !.name = "ghost", !.required = {"ghost"}],
    [Plain EXCEPT !.name = "quotes", !.head = {"ci2"}, !.body = {"ci2"}],
    [Plain EXCEPT !.name = "argues", !.body = {"ci2"}],
    [Plain EXCEPT !.name = "long", !.form = "long"],
    [Plain EXCEPT !.name = "exact", !.snippet = "wrong", !.rep = "exact_postimage"],
    [Plain EXCEPT !.name = "pathless", !.path = "none", !.snippet = "none",
                  !.placement = "headline"],
    [Plain EXCEPT !.name = "deleted", !.snippet = "deleted", !.required = {"slice", "ci1"}],
    [Weak EXCEPT !.name = "shape", !.form = "invalid"],
    [Weak EXCEPT !.name = "lent", !.required = {"ci1"}, !.supporting = {"diff"}],
    [Weak EXCEPT !.name = "ciOnly", !.required = {"ci1"}],
    [Weak EXCEPT !.name = "vouched", !.category = "note", !.snippet = "none",
                 !.required = {"ci1"}, !.supporting = {"diff"}],
    [Weak EXCEPT !.name = "elsewhere", !.required = {"ci1", "slice"}, !.body = {"ci1"}],
    [Weak EXCEPT !.name = "promoted", !.placement = "inline", !.required = {},
                 !.supporting = {"diff"}],
    [Weak EXCEPT !.name = "gap", !.category = "test-gap", !.action = "later"],
    [Weak EXCEPT !.name = "lost", !.snippet = "deleted"],
    [Weak EXCEPT !.name = "deadP2", !.required = {"miss"}],
    [Weak EXCEPT !.name = "note", !.category = "note", !.action = "none"] }

Unknowns ==
  { <<>>,
    <<[name |-> "u", form |-> "ok", fact |-> {}, ask |-> {}, refs |-> <<"diff">>]>>,
    <<[name |-> "v", form |-> "ok", fact |-> {"ci2"}, ask |-> {}, refs |-> <<"ci1">>]>> }

Checks ==
  { <<>>,
    <<[form |-> "ok", text |-> {}, refs |-> {"slice"}]>>,
    <<[form |-> "ok", text |-> {"ci2"}, refs |-> {"ci2"}]>>,
    <<[form |-> "ok", text |-> {}, refs |-> {"ci1"}]>> }

Object(v, fs, us, ks, s, a) ==
  [form |-> "object", verdict |-> v, summary |-> s, advice |-> a,
   findings |-> fs, unknowns |-> us, checks |-> ks]

Unreadable ==
  {[Object("blocking", <<Plain>>, <<>>, <<>>, {}, <<>>) EXCEPT !.form = f] :
     f \in {"misshapen", "unparsable", "undecided", "unsafe"}}

\* What is said on the first screen: nothing of CI, or ci2 (the one a check may
\* be about) in the summary and in an action, or ci1.
Screens == {<<{}, <<>>>>, <<{"ci2"}, <<{"ci2"}>>>>, <<{"ci1"}, <<>>>>}

Singles == {<<>>} \cup {<<f>> : f \in Findings}
Pairs   == {<<f, g>> : f \in Findings, g \in Findings}

\* Every surface with at most one finding; two findings with few surfaces.
MCAnswers ==
  Unreadable \cup
    {Object(v, fs, us, ks, s[1], s[2]) :
       v \in Verdicts, fs \in Singles, us \in Unknowns, ks \in Checks, s \in Screens} \cup
    {Object(v, fs, <<>>, <<>>, {}, <<>>) : v \in {"clear", "blocking"}, fs \in Pairs} \cup
    {Object("blocking", fs, <<>>, ks, s, <<>>) :
       fs \in Pairs, ks \in Checks \ {<<>>}, s \in {{}, {"ci2"}}}

MCCorrections ==
  {Object(v, fs, <<>>, <<>>, {}, <<>>) :
     v \in {"clear", "blocking"}, fs \in {<<f>> : f \in Findings} \cup
                                         {<<Plain, f>> : f \in Findings}}
=============================================================================
