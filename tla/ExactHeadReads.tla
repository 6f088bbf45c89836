--------------------------- MODULE ExactHeadReads ---------------------------
(***************************************************************************)
(* The retrieval tools of the context engine: read_file, its exact-path    *)
(* existence mode, search_code and list_dir, as ToolExecutor.execute runs  *)
(* them one after another over one CollectionState and one RepoInventory.  *)
(*                                                                         *)
(* The PR head is immutable: kind and has say what it holds and never      *)
(* change.  What changes is what the collection knows about it: the two    *)
(* path lists (the inventory's discoverable_files and the collection's     *)
(* copy, accessible_files), the probe allowance, the read and search       *)
(* quotas, the ephemeral source cache and the event log that later stages  *)
(* treat as evidence.                                                      *)
(***************************************************************************)
EXTENDS Naturals, Sequences, FiniteSets

CONSTANTS
  Paths,        \* repository paths a plan may name
  Literals,     \* literal anchors: read_file symbols and search queries
  MaxReads,     \* max_read_calls
  MaxSearches,  \* max_search_calls
  ProbeCap,     \* direct probes per collection (6 in repo_structure.py)
  Heads,        \* bound of the model: the heads considered, kinds of paths
  MaxCalls      \* bound of the model: tool calls in one collection

\* What the head holds at a path.  small: whole text fits the full-file
\* evidence cap; middling: the tree lets it through as small (51,200 bytes)
\* but its text is past the cap of 50,000 characters; large: past both;
\* huge: past the source cache's 2 MiB as well; opaque: exists but yields no
\* text (binary, oversize); policy: the bounded reader refuses it;
\* directory; sensitive: never read; missing.
Text  == {"small", "middling", "large", "huge"}
Files == Text \cup {"opaque", "policy"}
Kinds == Files \cup {"directory", "sensitive", "missing"}

ASSUME ReadsAssumption ==
  /\ IsFiniteSet(Paths) /\ IsFiniteSet(Literals)
  /\ MaxReads \in Nat /\ MaxSearches \in Nat /\ ProbeCap \in Nat
  /\ MaxCalls \in Nat /\ Heads \subseteq [Paths -> Kinds]

Statuses == {"complete", "partial", "error"}
Modes    == {"content", "exact", "search", "list"}
Outcomes == {"hit", "no_hit", "error", "repeat", "quota_exhausted",
             "invalid_path", "not_found", "removed_path",
             "excluded_sensitive", "excluded_by_policy", "search_error",
             "unreadable"}
Coverage == {"none", "full_file", "file_slice", "exact_path_state",
             "search_snippet", "directory_inventory"}
Observed == {"present", "absent", "unknown", "content_observed",
             "content_unobserved", "not_applicable"}
Sources  == {"head", "inventory", "none"}

VARIABLES
  kind,         \* the head: what each path is
  has,          \* the head: the literals each text file contains
  removed,      \* state.removed_paths, from the PR's own diff
  status,       \* RepoInventory.status
  discoverable, \* RepoInventory.discoverable_files
  accessible,   \* CollectionState.accessible_files, a copy made at the start
  probes,       \* RepoInventory.direct_probe_paths
  listed,       \* paths the tree response named, with their type and size
  readCalls, searchCalls,
  queries,      \* attempted_search_queries
  cached,       \* source_text_cache
  collected,    \* collected_files
  readOk, readErr, nonExistent,
  events        \* tool_events

head  == <<kind, has, removed, status, listed>>
paths == <<discoverable, accessible, probes>>
reads == <<readCalls, cached, collected, readOk, readErr, nonExistent>>
srch  == <<searchCalls, queries>>
vars  == <<head, paths, reads, srch, events>>

\* A recorded event.  arg is the path or the literal asked about; src the
\* source_ref of a read_file answer (pr_head, pr_head_inventory or none).
Event == [mode : Modes, arg : Paths \cup Literals \cup {"root"},
          syms : SUBSET Literals, outcome : Outcomes, cov : Coverage,
          obs : Observed, src : Sources, backend : BOOLEAN, from : 0 .. MaxCalls,
          full : BOOLEAN, atHead : BOOLEAN, found : SUBSET Paths]

TypeOK ==
  /\ kind \in [Paths -> Kinds] /\ has \in [Paths -> SUBSET Literals]
  /\ removed \subseteq Paths /\ status \in Statuses
  /\ discoverable \subseteq Paths /\ accessible \subseteq Paths
  /\ probes \subseteq Paths /\ listed \subseteq Paths
  /\ readCalls \in Nat /\ searchCalls \in Nat
  /\ queries \subseteq Literals
  /\ cached \subseteq Paths /\ collected \subseteq Paths
  /\ readOk \subseteq Paths /\ readErr \subseteq Paths
  /\ nonExistent \subseteq Paths
  /\ events \in Seq(Event) /\ Len(events) <= MaxCalls

-----------------------------------------------------------------------------
(* The inventory. *)

\* One recursive tree request: every file, a truncated list of them, or
\* nothing.  Sensitive blobs are set aside, and a directory is no file.
TreeListing(st, files) ==
  CASE st = "complete" -> {files}
    [] st = "partial"  -> SUBSET files
    [] st = "error"    -> {{}}

\* Mutant of CanDirectProbe: the allowance of six is forgotten.
CanProbeForever(p) == status \in {"partial", "error"} /\ kind[p] # "sensitive"
                        /\ p \notin probes

CanDirectProbe(p) ==
  /\ status \in {"partial", "error"}
  /\ kind[p] # "sensitive"
  /\ p \notin probes
  /\ Cardinality(probes) < ProbeCap

\* Mutant of ExactPathState: a truncated listing taken for a complete one.
PathStateFromAnyListing(p) ==
  IF p \in discoverable THEN "present" ELSE "absent"

\* The listing proves absence only when it is complete.
ExactPathState(p) ==
  IF kind[p] = "sensitive" THEN "unknown"
  ELSE IF p \in discoverable THEN "present"
  ELSE IF kind[p] = "directory" /\ p \in listed THEN "directory"
  ELSE IF status = "complete" THEN "absent" ELSE "unknown"

\* initialize_collection: the inventory is fetched once and accessible_files
\* is a copy of its file list.  A path the PR removed is missing at the head.
Init ==
  /\ kind \in Heads
  /\ has \in [Paths -> SUBSET Literals]
  /\ \A p \in Paths : kind[p] \notin Text => has[p] = {}
  /\ removed \in SUBSET {p \in Paths : kind[p] = "missing"}
  /\ status \in Statuses
  /\ listed \in TreeListing(status, {p \in Paths : kind[p] \in Files \cup {"directory"}})
  /\ discoverable = {p \in listed : kind[p] \in Files}
  /\ accessible = discoverable
  /\ probes = {} /\ queries = {} /\ cached = {} /\ collected = {}
  /\ readOk = {} /\ readErr = {} /\ nonExistent = {}
  /\ readCalls = 0 /\ searchCalls = 0
  /\ events = <<>>

-----------------------------------------------------------------------------
(* Recording and reusing observations. *)

\* _record_event: the call ends with exactly one event, whatever happened.
Record(e) == events' = Append(events, e)

Answer(m, a, s, out, cov, obs) ==
  [mode |-> m, arg |-> a, syms |-> s, outcome |-> out, cov |-> cov,
   obs |-> obs, src |-> "none", backend |-> TRUE, from |-> 0, full |-> FALSE,
   atHead |-> TRUE, found |-> {}]

\* The same answer, quoting where it was taken from.
Quoting(src, e) == [e EXCEPT !.src = src]

\* Mutant of PriorHit: any earlier event will do.
PriorEvent(m, a) ==
  LET same == {i \in 1 .. Len(events) : events[i].mode = m /\ events[i].arg = a}
  IN  IF same = {} THEN 0 ELSE CHOOSE i \in same : \A j \in same : j <= i

\* _prior_hit: the latest hit for the same mode and argument, 0 when none.
\* A search is reusable only when every retained hit was relocated at the head.
PriorHit(m, a) ==
  LET hits == {i \in 1 .. Len(events) :
                 /\ events[i].mode = m /\ events[i].arg = a
                 /\ events[i].outcome = "hit"
                 /\ m = "search" => /\ events[i].found # {}
                                    /\ events[i].atHead}
  IN  IF hits = {} THEN 0
      ELSE CHOOSE i \in hits : \A j \in hits : j <= i

\* _derived_result: the prior metadata carried over, no backend attempt.
DerivedFrom(i, s) ==
  [events[i] EXCEPT !.syms = s, !.backend = FALSE, !.from = i]

\* Whether _derive_same_head_result answers a content read from the cache:
\* a symbol request from any cached text, a whole-file request only from a
\* file fetched in full.
Derivable(p, s) ==
  /\ PriorHit("content", p) # 0
  /\ p \in cached
  /\ s = {} => events[PriorHit("content", p)].full

DerivedRead(p, s) ==
  LET i == PriorHit("content", p)
      d == DerivedFrom(i, s)
  IN  IF s = {} THEN [d EXCEPT !.cov = "full_file"]
      ELSE IF s \cap has[p] # {} THEN [d EXCEPT !.cov = "file_slice"]
      ELSE [d EXCEPT !.outcome = "no_hit", !.cov = "none",
                     !.obs = "content_unobserved"]

Reuse(e) == /\ Record(e)
            /\ UNCHANGED <<head, paths, reads, srch>>

DeriveContent(p, s) == Derivable(p, s) /\ Reuse(DerivedRead(p, s))

DeriveSame(m, a) ==
  /\ PriorHit(m, a) # 0
  /\ Reuse(DerivedFrom(PriorHit(m, a), {}))

-----------------------------------------------------------------------------
(* read_file. *)

\* The answers read_file gives before it looks at quotas, in the code's order.
ReadRefused(p, m) ==
  LET note == IF m = "exact" THEN "unknown" ELSE "content_unobserved" IN
  /\ \/ /\ p \in removed
        /\ Record(Quoting("head", IF m = "exact"
                  THEN Answer(m, p, {}, "hit", "exact_path_state", "absent")
                  ELSE Answer(m, p, {}, "removed_path", "none", note)))
     \/ /\ p \notin removed /\ kind[p] = "sensitive"
        /\ Record(Answer(m, p, {}, "excluded_sensitive", "none", "content_unobserved"))
  /\ UNCHANGED <<head, paths, reads, srch>>

Eligible(p) == p \notin removed /\ kind[p] # "sensitive"

\* exact_path_existence answered from the listing, or left unknown because
\* the listing is incomplete and no probe is allowed.
ExactFromInventory(p) ==
  LET known == ExactPathState(p) IN
  /\ Eligible(p)
  /\ PriorHit("exact", p) = 0
  /\ \/ /\ known \in {"present", "absent"}
        /\ Record(Quoting("inventory",
                          Answer("exact", p, {}, "hit", "exact_path_state", known)))
     \/ /\ known = "directory" \/ (known = "unknown" /\ ~CanDirectProbe(p))
        /\ Record(Quoting("inventory", Answer("exact", p, {}, "no_hit", "none", "unknown")))
     \/ /\ known = "unknown" /\ CanDirectProbe(p) /\ readCalls >= MaxReads
        /\ Record(Answer("exact", p, {}, "quota_exhausted", "none", "unknown"))
  /\ UNCHANGED <<head, paths, reads, srch>>

\* Mutant of RecordProbe: a probe that read nothing is not remembered.
RecordReadable(p, readable) ==
  /\ probes' = IF readable THEN probes \cup {p} ELSE probes
  /\ discoverable' = IF readable THEN discoverable \cup {p} ELSE discoverable

\* record_direct_probe.
RecordProbe(p, readable) ==
  /\ probes' = probes \cup {p}
  /\ discoverable' = IF readable THEN discoverable \cup {p} ELSE discoverable

\* _read_repository_text: what one bounded read of the head ends in.
ReadText(p, fails) ==
  IF fails THEN "error"
  ELSE CASE kind[p] \in Text    -> "success"
         [] kind[p] = "missing" -> "not_found"
         [] kind[p] = "policy"  -> "excluded_by_policy"
         [] OTHER               -> "unreadable"

Charge == readCalls' = readCalls + 1

\* exact_path_existence by one bounded read.  Text proves presence, and so
\* does a body that is no text; a directory answers like one.  A failed or
\* refused read leaves the path unknown.  The collection's own list,
\* accessible_files, is not touched here.
ExactProbe(p, fails) ==
  LET seen == IF ReadText(p, fails) = "not_found" THEN "absent" ELSE "present" IN
  /\ Eligible(p)
  /\ PriorHit("exact", p) = 0
  /\ ExactPathState(p) = "unknown" /\ CanDirectProbe(p)
  /\ readCalls < MaxReads
  /\ Charge
  /\ RecordProbe(p, ReadText(p, fails) = "success")
  /\ Record(Quoting("head", IF ReadText(p, fails) \in {"error", "excluded_by_policy"}
            THEN Answer("exact", p, {}, "error", "none", "unknown")
            ELSE Answer("exact", p, {}, "hit", "exact_path_state", seen)))
  /\ UNCHANGED <<head, accessible, cached, collected, readOk, readErr,
                 nonExistent, srch>>

\* What read_file makes of a text body: the asked literals' slices, else the
\* whole file when it was fetched in full, else nothing usable.
Rendered(p, s) ==
  LET whole == kind[p] = "small"
      slice == s \cap has[p] # {}
  IN  IF slice
      THEN [Answer("content", p, s, "hit", "file_slice", "content_observed")
              EXCEPT !.full = whole]
      ELSE IF whole
      THEN [Answer("content", p, s, "hit", "full_file", "content_observed")
              EXCEPT !.full = TRUE]
      ELSE Answer("content", p, s, "no_hit", "none", "content_unobserved")

\* The tail of read_file once it holds a text body.  The source cache takes
\* it up to its limit, whether or not an asked literal was found in it.
Keep(p, s) ==
  LET e == Rendered(p, s) IN
  /\ cached' = IF kind[p] = "huge" THEN cached ELSE cached \cup {p}
  /\ IF e.outcome = "hit"
     THEN /\ collected' = collected \cup {p}
          /\ readOk' = readOk \cup {p}
          /\ readErr' = readErr
     ELSE /\ readErr' = readErr \cup {p}
          /\ UNCHANGED <<collected, readOk>>
  /\ Record(Quoting("head", e))

\* A download that ends without text.
Unread(p, s, fails) ==
  /\ readErr' = readErr \cup {p}
  /\ Record(Quoting("head", Answer("content", p, s, ReadText(p, fails), "none",
                                   "content_unobserved")))
  /\ UNCHANGED <<cached, collected, readOk>>

\* No literal was named for a file the tree says is large.
Unaddressable(p, s) == p \in listed /\ kind[p] \in {"large", "huge"} /\ s = {}

\* Content answers that reach no backend: a path outside the inventory with
\* no probe left; a large file asked for without a literal; a file already
\* collected; the read quota.
ReadWithoutBackend(p, s) ==
  /\ Eligible(p) /\ ~Derivable(p, s)
  /\ \/ /\ p \notin accessible /\ ~CanDirectProbe(p)
        /\ nonExistent' = nonExistent \cup {p}
        /\ readErr' = readErr \cup {p}
        /\ Record(Answer("content", p, s, "invalid_path", "none", "content_unobserved"))
     \/ /\ p \notin accessible /\ CanDirectProbe(p) /\ readCalls >= MaxReads
        /\ Record(Answer("content", p, s, "quota_exhausted", "none", "not_applicable"))
        /\ UNCHANGED <<nonExistent, readErr>>
     \/ /\ p \in accessible
        /\ \/ /\ Unaddressable(p, s)
              /\ Record(Quoting("inventory",
                        Answer("content", p, s, "no_hit", "none", "content_unobserved")))
           \/ /\ ~Unaddressable(p, s) /\ p \in collected
              /\ Record(Answer("content", p, s, "repeat", "none", "not_applicable"))
           \/ /\ ~Unaddressable(p, s) /\ p \notin collected /\ readCalls >= MaxReads
              /\ Record(Answer("content", p, s, "quota_exhausted", "none", "not_applicable"))
        /\ UNCHANGED <<nonExistent, readErr>>
  /\ UNCHANGED <<head, paths, readCalls, cached, collected, readOk, srch>>

\* What a listed path must pass before its text is downloaded.
Fetchable(p, s) == /\ p \in accessible /\ ~Unaddressable(p, s)
                   /\ p \notin collected /\ readCalls < MaxReads

\* A content read of a listed file.
ReadBackend(p, s, fails) ==
  /\ Eligible(p) /\ ~Derivable(p, s)
  /\ Fetchable(p, s)
  /\ Charge
  /\ IF ReadText(p, fails) # "success"
     THEN Unread(p, s, fails)
     ELSE Keep(p, s)
  /\ UNCHANGED <<head, paths, nonExistent, srch>>

\* A content read of a path the incomplete listing does not name.
ReadByProbe(p, s, fails) ==
  /\ Eligible(p) /\ ~Derivable(p, s)
  /\ p \notin accessible /\ CanDirectProbe(p)
  /\ readCalls < MaxReads
  /\ Charge
  /\ RecordProbe(p, ReadText(p, fails) = "success")
  /\ IF ReadText(p, fails) # "success"
     THEN Unread(p, s, fails) /\ UNCHANGED accessible
     ELSE /\ accessible' = accessible \cup {p}
          /\ Keep(p, s)
  /\ UNCHANGED <<head, nonExistent, srch>>

-----------------------------------------------------------------------------
(* search_code and list_dir. *)

\* A query already attempted, or the search quota: no backend call.  Queries
\* are remembered without their intent, and only an earlier hit of the same
\* intent is reused (DeriveSame): asked again with another intent, a query
\* that was answered before is a repeat.
SearchWithoutBackend(q) ==
  /\ \/ /\ q \in queries
        /\ Record(Answer("search", q, {}, "repeat", "none", "not_applicable"))
     \/ /\ q \notin queries /\ searchCalls >= MaxSearches
        /\ Record(Answer("search", q, {}, "quota_exhausted", "none", "not_applicable"))
  /\ UNCHANGED <<head, paths, reads, srch>>

SearchSpent(q) == /\ queries' = queries \cup {q}
                  /\ searchCalls' = searchCalls + 1

SearchAllowed(q) == /\ PriorHit("search", q) = 0
                    /\ q \notin queries
                    /\ searchCalls < MaxSearches

\* The backend fails, or reports an incomplete search with nothing usable:
\* the query counts as attempted all the same.
SearchFails(q) ==
  /\ SearchAllowed(q)
  /\ SearchSpent(q)
  /\ Record(Answer("search", q, {}, "search_error", "none", "content_unobserved"))
  /\ UNCHANGED <<head, paths, reads>>

\* _relocate_at_head: the literal is found again in the head's text.
Relocated(q, read) == {p \in read : q \in has[p]}

\* The default branch names the paths in found (sensitive ones are dropped).
\* Each is re-read at the head when it is listed or may be probed - at most
\* as many probes as are left - and its literal is looked for there; read
\* lists those whose head text came back.
SearchHits(q, found, probed, read) ==
  LET safe      == {p \in found : kind[p] # "sensitive"}
      probeable == {p \in safe : CanDirectProbe(p)}
  IN
  /\ SearchAllowed(q)
  /\ SearchSpent(q)
  /\ probed \subseteq probeable
  /\ \/ probed = probeable /\ Cardinality(probes \cup probed) <= ProbeCap
     \/ probed # probeable /\ Cardinality(probes \cup probed) = ProbeCap
  /\ read \subseteq {p \in (safe \cap accessible) \cup probed : kind[p] \in Text}
  /\ probes' = probes \cup probed
  /\ discoverable' = discoverable \cup (probed \cap read)
  /\ accessible' = accessible \cup (probed \cap read)
  /\ Record(IF safe = {}
            THEN Answer("search", q, {}, "no_hit", "none", "content_unobserved")
            ELSE [Answer("search", q, {}, "hit", "search_snippet", "content_observed")
                    EXCEPT !.found = safe, !.atHead = (Relocated(q, read) = safe)])
  /\ UNCHANGED <<head, reads>>

\* list_dir renders the inventory that is already there.
ListDir ==
  /\ PriorHit("list", "root") = 0
  /\ Record(IF status = "error" THEN Answer("list", "root", {}, "error", "none", "not_applicable")
            ELSE IF listed = {} THEN Answer("list", "root", {}, "no_hit", "none", "not_applicable")
            ELSE Answer("list", "root", {}, "hit", "directory_inventory", "not_applicable"))
  /\ UNCHANGED <<head, paths, reads, srch>>

-----------------------------------------------------------------------------

ReadContent(p, s) ==
  \/ DeriveContent(p, s)
  \/ s = {} /\ ReadRefused(p, "content")
  \/ ReadWithoutBackend(p, s)
  \/ \E fails \in BOOLEAN : ReadBackend(p, s, fails) \/ ReadByProbe(p, s, fails)

CheckExactPath(p) ==
  \/ DeriveSame("exact", p)
  \/ PriorHit("exact", p) = 0 /\ ReadRefused(p, "exact")
  \/ ExactFromInventory(p)
  \/ \E fails \in BOOLEAN : ExactProbe(p, fails)

SearchCode(q) ==
  \/ DeriveSame("search", q)
  \/ SearchWithoutBackend(q)
  \/ SearchFails(q)
  \/ \E found \in SUBSET Paths : \E probed, read \in SUBSET found :
       SearchHits(q, found, probed, read)

\* ToolExecutor.execute: one call at a time.
Next ==
  /\ Len(events) < MaxCalls
  /\ \/ \E p \in Paths : \/ \E s \in SUBSET Literals : ReadContent(p, s)
                         \/ CheckExactPath(p)
     \/ \E q \in Literals : SearchCode(q)
     \/ ListDir \/ DeriveSame("list", "root")

Spec == Init /\ [][Next]_vars
-----------------------------------------------------------------------------
(* Properties. *)

\* event_supports_answer: the observations later stages may cite.
Supports(e) == e.outcome = "hit" /\ e.atHead

\* What a supporting observation asserts about the head.
TrueAtHead(e) ==
  CASE e.mode = "exact"   -> (e.obs = "absent") = (kind[e.arg] = "missing")
    [] e.mode = "content" ->
         /\ kind[e.arg] \in Text
         /\ e.cov = "full_file" => kind[e.arg] = "small"
         /\ e.cov = "file_slice" => e.syms \cap has[e.arg] # {}
    [] e.mode = "search"  -> \A p \in e.found : e.arg \in has[p]
    [] OTHER              -> TRUE

\* Every observation that can support an answer is true of the immutable PR
\* head, however it was obtained: from the listing, by a probe, by a read,
\* from the cache of an earlier read, or by relocating a default-branch hit.
EvidenceIsTrueAtHead ==
  \A i \in 1 .. Len(events) : Supports(events[i]) => TrueAtHead(events[i])

\* An observation made without a backend call rests on an earlier hit for
\* the same argument, and following such references ends at a call that was
\* really made: reuse never makes evidence out of nothing.
DerivedRestsOnAnEarlierHit ==
  \A i \in 1 .. Len(events) : ~events[i].backend =>
    LET j == events[i].from IN
    /\ j \in 1 .. i - 1
    /\ events[j].outcome = "hit"
    /\ events[j].mode = events[i].mode /\ events[j].arg = events[i].arg
    /\ \E k \in 1 .. j : events[k].backend /\ events[k].outcome = "hit"
                         /\ events[k].arg = events[i].arg

\* The two path lists and the budgets.  The collection only reads paths that
\* exist; what it collected it can still read, from the cache unless it is
\* too big for it; every attempted query was charged once; no more probes
\* and reads than allowed.
PathsAgree ==
  /\ accessible \subseteq discoverable
  /\ discoverable \subseteq {p \in Paths : kind[p] \in Files}
  /\ collected \subseteq accessible
  /\ collected = readOk
  /\ cached \subseteq {p \in accessible : kind[p] \in Text}
  /\ \A p \in collected : kind[p] # "huge" => p \in cached

BudgetsHold ==
  /\ readCalls <= MaxReads
  /\ searchCalls <= MaxSearches /\ searchCalls = Cardinality(queries)
  /\ IsFiniteSet(probes) /\ Cardinality(probes) <= ProbeCap
  /\ IsFiniteSet(queries)

\* The inductive part: types, path lists and budgets.
ReadsInv == TypeOK /\ PathsAgree /\ BudgetsHold

\* The answers that cost one unit of the read quota.
Charged(e) ==
  /\ e.mode \in {"content", "exact"} /\ e.backend /\ e.src = "head"
  /\ e.arg \notin removed

\* The event log accounts for the read quota, and a path is paid for twice
\* only when the first payment bought nothing: both calls asked for its
\* content, it is on the collection's list, and the first got no text or,
\* from a file too big to be shown whole, none of the literals it asked for.
\* Such a text is in the source cache (unless huge), but reuse wants an
\* earlier hit, so it is downloaded again.  A path whose state was bought,
\* whose text was shown or that failed a probe is never charged again, by
\* either mode, in any order.
RepeatsAreExcused ==
  /\ readCalls = Cardinality({i \in 1 .. Len(events) : Charged(events[i])})
  /\ \A j \in 1 .. Len(events) : \A i \in 1 .. j - 1 :
       Charged(events[i]) /\ Charged(events[j]) /\ events[i].arg = events[j].arg =>
         LET p == events[i].arg IN
         /\ events[i].mode = "content" /\ events[j].mode = "content"
         /\ p \in accessible
         /\ \/ events[i].outcome \in {"error", "unreadable", "excluded_by_policy"}
            \/ /\ events[i].outcome = "no_hit"
               /\ kind[p] \in {"middling", "large", "huge"}
               /\ events[i].syms \cap has[p] = {}
=============================================================================
