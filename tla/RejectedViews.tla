--------------------------- MODULE RejectedViews ----------------------------
(***************************************************************************)
(* The ledger of rejected Views: a trace for each signature, context       *)
(* fingerprint and verdict, and the decision whether a View that was       *)
(* rejected may be proposed again.                                         *)
(***************************************************************************)
EXTENDS Integers, FiniteSets, Sequences, FiniteSetsExt

VARIABLE traces     \* ledger.traces; the last trace observed has the largest at

RejectedViewsInit == traces = {}

\* attentionViewSignature: of a View or of a proposal.
attentionViewSignature(view) ==
    [hypothesis |-> view.hypothesis, attentions |-> view.attentions,
     branches |-> view.branches, scope |-> view.scope]

Tick == IF traces = {} THEN 1 ELSE 1 + Max({t.at : t \in traces})

\* The conditions of a rejection seen again are added to the known ones.
recordRejectedView(view, verdict, fingerprint, revisit) ==
    LET signature == attentionViewSignature(view)
        same == {t \in traces : /\ t.signature = signature /\ t.verdict = verdict
                                /\ t.fingerprint = fingerprint}
    IN  traces' = (traces \ same) \cup
            {[signature |-> signature, fingerprint |-> fingerprint, verdict |-> verdict,
              revisit |-> revisit \cup UNION {t.revisit : t \in same},
              occurrences |-> 1 + (IF same = {} THEN 0
                                   ELSE (CHOOSE t \in same : TRUE).occurrences),
              at |-> Tick]}

\* Only the trace observed last, in whatever context, is asked.
canRevisitRejectedView(signature, fingerprint, satisfied) ==
    LET known == {t \in traces : t.signature = signature}
        trace == CHOOSE t \in known : \A u \in known : u.at <= t.at
    IN  \/ known = {}
        \/ trace.fingerprint # fingerprint
        \/ trace.revisit \cap satisfied # {}
=============================================================================
