------------------------------ MODULE ClaimOnce ------------------------------
(***************************************************************************)
(* What the pre-processor promises about starting remediations, without    *)
(* queues, caches, containers or failures: a finding has a latest version, *)
(* the delivery that records a newer one may be granted the right to start *)
(* its remediation, and nobody else may.  Forgetting a finding begins a    *)
(* new era for it.                                                         *)
(***************************************************************************)
EXTENDS Integers

CONSTANTS Findings, Deliveries, MaxVersion

VARIABLES
  latest,   \* finding -> version recorded last, 0 if none
  era,      \* finding -> how often it has been forgotten
  granted,  \* claims not yet used or dropped
  used      \* claims for which a remediation was started

vars == <<latest, era, granted, used>>

\* The right of one delivery to start the remediation of one version.
Claim == [finding: Findings, version: 0 .. MaxVersion, era: Nat, delivery: Deliveries]

Init ==
  /\ latest = [f \in Findings |-> 0]
  /\ era = [f \in Findings |-> 0]
  /\ granted = {}
  /\ used = {}

\* A newer version of a finding is recorded, and one delivery or none gets a claim.
Record(f, v, holders) ==
  /\ latest[f] < v
  /\ latest' = [latest EXCEPT ![f] = v]
  /\ granted' = granted \cup
       {[finding |-> f, version |-> v, era |-> era[f], delivery |-> d] : d \in holders}
  /\ UNCHANGED <<era, used>>

\* A finding is forgotten.
Forget(f) ==
  /\ latest' = [latest EXCEPT ![f] = 0]
  /\ era' = [era EXCEPT ![f] = @ + 1]
  /\ UNCHANGED <<granted, used>>

\* A remediation is started on a claim, which may be used again while its holder
\* has not given it up.
Use(c) ==
  /\ c \in granted
  /\ used' = used \cup {c}
  /\ granted' \in {granted, granted \ {c}}
  /\ UNCHANGED <<latest, era>>

\* Claims are given up unused.
Drop(claims) ==
  /\ granted' = granted \ claims
  /\ UNCHANGED <<latest, era, used>>

Next ==
  \/ \E f \in Findings, v \in 1 .. MaxVersion, holders \in {{}} \cup {{d} : d \in Deliveries} :
       Record(f, v, holders)
  \/ \E f \in Findings : Forget(f)
  \/ \E c \in granted : Use(c)
  \/ \E claims \in SUBSET granted : Drop(claims)

Spec == Init /\ [][Next]_vars

-----------------------------------------------------------------------------
SameRun(c, d) == c.finding = d.finding /\ c.version = d.version /\ c.era = d.era

\* A version of a finding is started on the claim of one delivery only.
OneClaimUsed == \A c, d \in used : SameRun(c, d) => c = d

\* Its inductive strengthening: all claims ever made in the current era of a
\* finding are for versions recorded before, and no two are for the same run.
ClaimInv ==
  /\ latest \in [Findings -> 0 .. MaxVersion]
  /\ era \in [Findings -> Nat]
  /\ granted \subseteq Claim
  /\ used \subseteq Claim
  /\ \A c \in granted \cup used :
       /\ c.era <= era[c.finding]
       /\ c.era = era[c.finding] => c.version <= latest[c.finding]
  /\ \A c, d \in granted \cup used : SameRun(c, d) => c = d
=============================================================================
