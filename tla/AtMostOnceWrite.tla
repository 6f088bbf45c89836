--------------------------- MODULE AtMostOnceWrite ---------------------------
(***************************************************************************)
(* What the publication transaction promises, without owners, claims,      *)
(* candidates or GitHub reads: a single-use permission to write one        *)
(* external effect, and a verdict about it.                                *)
(*                                                                         *)
(*   permit   absent -> granted -> spent; never granted twice              *)
(*   writes   how many effects exist                                       *)
(*   verdict  open -> published | withheld | unknown                       *)
(*                                                                         *)
(* "published" means the effect exists, "withheld" that it does not and    *)
(* never will; "unknown" promises neither, because a stalled holder of the *)
(* permit may still use it after the item was given up.                    *)
(***************************************************************************)
EXTENDS Naturals

VARIABLES permit, writes, verdict

vars == <<permit, writes, verdict>>

Init == permit = "absent" /\ writes = 0 /\ verdict = "open"

\* The durable step to dispatching; a lost reply spends the permit unused.
Grant ==
  /\ permit = "absent" /\ verdict = "open"
  /\ permit' \in {"granted", "spent"}
  /\ UNCHANGED <<writes, verdict>>

\* The one external write.
Write ==
  /\ permit = "granted"
  /\ writes' = writes + 1 /\ permit' = "spent"
  /\ UNCHANGED verdict

\* The holder stops without having written.
Forfeit ==
  /\ permit = "granted"
  /\ permit' = "spent"
  /\ UNCHANGED <<writes, verdict>>

Publish ==
  /\ verdict = "open" /\ writes = 1
  /\ verdict' = "published"
  /\ UNCHANGED <<permit, writes>>

\* No write happened, and the permit is handed back or was never granted.
Withhold ==
  /\ verdict = "open" /\ writes = 0
  /\ \/ permit = "absent" /\ UNCHANGED permit
     \/ permit = "granted" /\ permit' = "spent"
  /\ verdict' = "withheld"
  /\ UNCHANGED writes

GiveUp ==
  /\ verdict = "open"
  /\ verdict' = "unknown"
  /\ permit' \in {permit} \cup (IF permit = "granted" THEN {"spent"} ELSE {})
  /\ UNCHANGED writes

Next == Grant \/ Write \/ Forfeit \/ Publish \/ Withhold \/ GiveUp

Spec == Init /\ [][Next]_vars

\* Never two effects; a published effect exists; a withheld one does not.
VerdictIsTrue ==
  /\ writes <= 1
  /\ verdict = "published" => writes = 1
  /\ verdict = "withheld" => writes = 0 /\ permit # "granted"
=============================================================================
